-------------------------- MODULE DualRegionProofs --------------------------
(***************************************************************************)
(* The dual-region join, for every call and every size, in six parts.      *)
(*                                                                         *)
(* Paths: after preparation the search order is a permutation, the window  *)
(* starts never move right among the rows that have one, and a left row    *)
(* matches a right row exactly when the right row lies in its window and   *)
(* its label is reached, whatever order the unstable sort gives ties.      *)
(*                                                                         *)
(* Sweeps: the inductive invariant says what the paths are (PathInv), that *)
(* no window start lies right of what is already open (SweepInv), and what *)
(* the first passes know so far (FilterInv, AnyInv).  Each part is         *)
(* inductive given the parts before it.                                    *)
(*                                                                         *)
(* keep="any" without residual predicates: the first pass selects a match  *)
(* for exactly the left rows that have one, the second emits each of them  *)
(* once, and the two passes never disagree.                                *)
(*                                                                         *)
(* The layout by label rank: what each sweep has opened is a function of   *)
(* the rows it has passed (OpenInv); the totals, the slices and the places *)
(* are functions of what is opened (LayoutInv); so the prefix that an      *)
(* active count delimits is what the running sweep has opened of that rank *)
(* (ActivePrefix).                                                         *)
(*                                                                         *)
(* The two passes of every keep policy agree: what the counting pass       *)
(* stores for a row, and what the emitting pass meets at it, are the same  *)
(* function of what is open at the row (CountInv, AskInv); where a row's   *)
(* output begins and how much there is in all are sums of those (SumInv);  *)
(* and a flagged row always finds an extreme (BestInv).  So no policy      *)
(* returns an internal error, and every variable keeps its type.           *)
(*                                                                         *)
(* The join implements RangeJoin: no left row is answered twice, or other  *)
(* than its keep policy allows.                                            *)
(***************************************************************************)
EXTENDS DualRegionIndices, RegionPathsProofs, SequenceTheorems

\* The paths as functions of the call alone.
FirstLeft == LeftLabels(call.first)

Kept == [i \in Left |-> IF FirstLeft[i] = 0 THEN RightLen ELSE call.second[i]]

SecondLabels ==
    [j \in Right |-> IF RightLabels(call.first)[j] = 0 THEN 0
                     ELSE RightLabels(Kept)[call.alignment[j]]]

Built == [left |-> FirstLeft, right |-> RightLabels(call.first)]

Ordered ==
    /\ left_order \in Permutations(Left)
    /\ first = [left  |-> [k \in Left |-> FirstLeft[left_order[k]]],
                right |-> RightLabels(call.first)]
    /\ second = [left  |-> [k \in Left |-> LeftLabels(Kept)[left_order[k]]],
                 right |-> SecondLabels]
    /\ \A i, k \in Left : i < k => first.left[i] >= first.left[k]

Windowed == starts = [i \in Left |-> StartOf(i)]

Preparing == {"first", "second", "order", "starts"}

PathInv ==
    /\ call \in Calls
    /\ pc \in {"second", "order"} => first = Built
    /\ pc = "order" => second = [left |-> LeftLabels(Kept), right |-> SecondLabels]
    /\ pc = "starts" => Ordered
    /\ pc \notin Preparing \union {"none"} => Ordered /\ Windowed

-----------------------------------------------------------------------------

LEMMA CallFields ==
    ASSUME PathInv
    PROVE  /\ call.first \in Boundaries
           /\ call.second \in Boundaries
           /\ call.alignment \in [Right -> Right]
           /\ Kept \in Boundaries
<1>1. call \in Call
    BY CallsAssumption DEF PathInv
<1>2. call.first \in Boundaries /\ call.second \in Boundaries
      /\ call.alignment \in [Right -> Right]
    BY <1>1 DEF Call, Permutations
<1>3. RightLen \in 0 .. RightLen
    BY LengthsAssumption
<1> QED
    BY <1>2, <1>3 DEF Kept, Boundaries

\* The labels of ordered paths are naturals.
LEMMA OrderedTypes ==
    ASSUME PathInv, Ordered
    PROVE  /\ left_order \in [Left -> Left]
           /\ first.left \in [Left -> Nat] /\ first.right \in [Right -> Nat]
           /\ second.left \in [Left -> Nat] /\ second.right \in [Right -> Nat]
<1>1. left_order \in [Left -> Left]
    BY DEF Ordered, Permutations
<1>2. FirstLeft \in [Left -> Nat] /\ RightLabels(call.first) \in [Right -> Nat]
    BY CallFields, LabelTypes DEF FirstLeft
<1>3. LeftLabels(Kept) \in [Left -> Nat] /\ RightLabels(Kept) \in [Right -> Nat]
    BY CallFields, LabelTypes
<1>4. SecondLabels \in [Right -> Nat]
    BY <1>2, <1>3, CallFields DEF SecondLabels
<1> QED
    BY <1>1, <1>2, <1>3, <1>4 DEF Ordered

\* Where an ordered row's window starts, by the labels.
LEMMA StartIsExact ==
    ASSUME PathInv, Ordered, NEW k \in Left
    PROVE  /\ StartOf(k) \in 0 .. RightLen
           /\ first.left[k] = 0 \/ second.left[k] = 0 => StartOf(k) = RightLen
           /\ first.left[k] # 0 /\ second.left[k] # 0 =>
                \A j \in Right : StartOf(k) <= j <=> first.left[k] <= first.right[j]
<1>1. /\ first.left[k] \in Nat /\ first.right \in [Right -> Nat]
      /\ \A i, j \in Right : i <= j => first.right[i] <= first.right[j]
    BY OrderedTypes, CallFields, FirstLabelsAscend DEF Ordered
<1> DEFINE P == PartitionPoint(first.right, first.left[k])
<1>2. P \in 0 .. RightLen /\ \A j \in Right : j < P <=> first.right[j] < first.left[k]
    BY <1>1, PartitionPointIsExact
<1> HIDE DEF P
<1>3. \A j \in Right : P <= j <=> first.left[k] <= first.right[j]
    BY <1>1, <1>2, LengthsAssumption DEF Right
<1>4. RightLen \in 0 .. RightLen
    BY LengthsAssumption
<1> QED
    BY <1>2, <1>3, <1>4 DEF StartOf, P

\* Window and label together decide the match.
LEMMA LabelsDecideMatches ==
    ASSUME PathInv, Ordered, NEW k \in Left, NEW j \in Right
    PROVE  Matches(left_order[k], j) <=>
                /\ StartOf(k) <= j
                /\ second.left[k] # 0 /\ second.left[k] <= second.right[j]
<1> DEFINE i == left_order[k]
<1>1. /\ i \in Left /\ j \in Int /\ j < RightLen /\ RightLen \in Int
      /\ call.first[i] \in Int /\ call.second[i] \in Int
    BY OrderedTypes, CallFields, LengthsAssumption DEF Right, Boundaries
<1>2. /\ first.left[k] = FirstLeft[i] /\ first.right[j] = RightLabels(call.first)[j]
      /\ second.left[k] = LeftLabels(Kept)[i] /\ second.right[j] = SecondLabels[j]
    BY DEF Ordered
<1>3. /\ FirstLeft[i] \in Nat /\ RightLabels(call.first)[j] \in Nat
      /\ LeftLabels(Kept)[i] \in Nat /\ StartOf(k) \in Int
    BY <1>1, CallFields, LabelTypes, StartIsExact, LengthsAssumption DEF FirstLeft
<1>4. call.first[i] <= j <=>
          FirstLeft[i] # 0 /\ FirstLeft[i] <= RightLabels(call.first)[j]
    BY <1>1, CallFields, LabelsDecideWindow DEF FirstLeft
<1>5. /\ call.alignment[j] \in Right
      /\ Kept[i] <= call.alignment[j] <=>
            LeftLabels(Kept)[i] # 0 /\ LeftLabels(Kept)[i] <= RightLabels(Kept)[call.alignment[j]]
    BY <1>1, CallFields, LabelsDecideWindow
<1>6. Kept[i] = IF FirstLeft[i] = 0 THEN RightLen ELSE call.second[i]
    BY <1>1 DEF Kept
<1>7. SecondLabels[j] = IF RightLabels(call.first)[j] = 0 THEN 0
                        ELSE RightLabels(Kept)[call.alignment[j]]
    BY DEF SecondLabels
<1>8. call.alignment[j] \in Int /\ call.alignment[j] < RightLen
    BY <1>5, LengthsAssumption DEF Right
<1>9. /\ FirstLeft[i] = 0 \/ LeftLabels(Kept)[i] = 0 => StartOf(k) = RightLen
      /\ FirstLeft[i] # 0 /\ LeftLabels(Kept)[i] # 0 =>
            (StartOf(k) <= j <=> FirstLeft[i] <= RightLabels(call.first)[j])
    BY <1>2, StartIsExact
<1> HIDE DEF i
<1>10. Matches(i, j) <=> call.first[i] <= j /\ call.second[i] <= call.alignment[j]
    BY DEF Matches
<1>11. CASE FirstLeft[i] = 0 \/ LeftLabels(Kept)[i] = 0
    BY <1>1, <1>3, <1>4, <1>5, <1>6, <1>8, <1>9, <1>10, <1>11 DEF i
<1>12. CASE FirstLeft[i] # 0 /\ LeftLabels(Kept)[i] # 0
    <2>1. CASE RightLabels(call.first)[j] = 0
        BY <1>1, <1>2, <1>3, <1>4, <1>9, <1>10, <1>12, <2>1 DEF i
    <2>2. CASE RightLabels(call.first)[j] # 0
        BY <1>2, <1>4, <1>5, <1>6, <1>7, <1>9, <1>10, <1>12, <2>2 DEF i
    <2> QED
        BY <2>1, <2>2
<1> QED
    BY <1>11, <1>12

\* What the passes rely on: starts only move left, and window plus label decide.
LEMMA WindowsDecide ==
    ASSUME PathInv, Ordered, Windowed
    PROVE  /\ starts \in Boundaries
           /\ \A i, k \in Left :
                i < k /\ starts[i] # RightLen /\ starts[k] # RightLen
                    => starts[k] <= starts[i]
           /\ \A k \in Left, j \in Right :
                Matches(left_order[k], j) <=>
                    /\ starts[k] <= j
                    /\ second.left[k] # 0 /\ second.left[k] <= second.right[j]
<1>1. \A k \in Left : starts[k] = StartOf(k) /\ starts[k] \in 0 .. RightLen
    BY StartIsExact DEF Windowed
<1>2. starts \in Boundaries
    BY <1>1 DEF Windowed, Boundaries
<1>3. ASSUME NEW i \in Left, NEW k \in Left, i < k,
             starts[i] # RightLen, starts[k] # RightLen
      PROVE  starts[k] <= starts[i]
    <2>1. /\ first.left[i] # 0 /\ second.left[i] # 0
          /\ first.left[k] # 0 /\ second.left[k] # 0
        BY <1>1, <1>3, StartIsExact
    <2>2. first.left[i] >= first.left[k]
        BY <1>3 DEF Ordered
    <2>3. starts[i] \in Right
        BY <1>1, <1>3, LengthsAssumption DEF Right
    <2>4. first.left[i] <= first.right[starts[i]]
        BY <1>1, <2>1, <2>3, StartIsExact, LengthsAssumption
    <2>5. /\ first.left[i] \in Nat /\ first.left[k] \in Nat
          /\ first.right[starts[i]] \in Nat
        BY <2>3, OrderedTypes
    <2>6. first.left[k] <= first.right[starts[i]]
        BY <2>2, <2>4, <2>5
    <2> QED
        BY <1>1, <2>1, <2>3, <2>6, StartIsExact
<1>4. \A k \in Left, j \in Right :
        Matches(left_order[k], j) <=>
            /\ starts[k] <= j
            /\ second.left[k] # 0 /\ second.left[k] <= second.right[j]
    BY <1>1, LabelsDecideMatches
<1> QED
    BY <1>2, <1>3, <1>4

\* The preparation returns None only when no pair satisfies both predicates.
LEMMA EmptyPathsHaveNoMatch ==
    ASSUME PathInv, ReturnNone, NEW i \in Left, NEW j \in Right
    PROVE  ~Matches(i, j)
<1>1. /\ call.first[i] \in 0 .. RightLen /\ call.second[i] \in 0 .. RightLen
      /\ call.alignment[j] \in Right /\ j < RightLen /\ call.alignment[j] < RightLen
      /\ j \in Int /\ call.alignment[j] \in Int /\ RightLen \in Int
    BY CallFields, LengthsAssumption DEF Boundaries, Right
<1>2. CASE NoWindow(call.first)
    BY <1>1, <1>2 DEF NoWindow, Matches
<1>3. CASE pc = "second" /\ NoWindow(SecondBoundaries)
    <2>1. IF FirstLeft[i] = 0 THEN TRUE ELSE call.second[i] = RightLen
        BY <1>3 DEF PathInv, Built, NoWindow, SecondBoundaries
    <2>2. FirstLeft[i] = 0 => call.first[i] = RightLen
        BY CallFields, LabelTypes DEF FirstLeft
    <2> QED
        BY <1>1, <2>1, <2>2 DEF Matches
<1>4. CASE pc = "starts" /\ \A k \in Left : StartOf(k) = RightLen
    <2>1. Ordered
        BY <1>4 DEF PathInv
    <2>2. PICK k \in Left : left_order[k] = i
        BY <2>1, PermutationIsOnto DEF Ordered
    <2> QED
        BY <1>1, <1>4, <2>1, <2>2, LabelsDecideMatches
<1> QED
    BY <1>2, <1>3, <1>4 DEF ReturnNone

-----------------------------------------------------------------------------

\* The passes after preparation.
Passes == SkipInactive \/ AnyNext \/ LayoutNext \/ AllNext \/ FirstLastNext \/ ResidualNext

Closed == {"none", "done", "error"}

USE DEF vars, pathVars, sweepVars, filterVars, anyVars, layoutVars, countVars,
        emitVars, outVars, passVars

LEMMA PassesKeepPaths ==
    ASSUME Passes
    PROVE  /\ UNCHANGED pathVars
           /\ pc \notin Preparing \union Closed
           /\ pc' \notin Preparing
<1>1. CASE SkipInactive
    BY <1>1 DEF SkipInactive, Sweeps, Preparing, Closed
<1>2. CASE AnyNext
    BY <1>2 DEF AnyNext, CountAny, EndAny, EmitAny, FinishAny, Sweeping, Swept,
        Advance, Compare, Preparing, Closed
<1>3. CASE LayoutNext
    BY <1>3 DEF LayoutNext, FilterRow, EndFilter, TotalRow, EndTotals, OffsetRank,
        EndOffsets, PlaceRow, EndPlace, Sweeping, Swept, Advance, Preparing, Closed
<1>4. CASE AllNext
    BY <1>4 DEF AllNext, CountRow, CountRank, EndCountRanks, EndCount, OffsetRow,
        EndOffsetRows, EmitRow, EmitRank, EndEmitRanks, EndEmit, Translate,
        FinishAll, Sweeping, Swept, Advance, Preparing, Closed
<1>5. CASE FirstLastNext
    BY <1>5 DEF FirstLastNext, EmitBest, FinishBest, Sweeping, Swept, Advance,
        Compare, Preparing, Closed
<1>6. CASE ResidualNext
    BY <1>6 DEF ResidualNext, AskRow, EndAsk, EmitSelected, FinishSelected, AskAgainRow,
        FinishAsk, Sweeping, Swept, Advance, Compare, Preparing, Closed
<1> QED
    BY <1>1, <1>2, <1>3, <1>4, <1>5, <1>6 DEF Passes

LEMMA PathInit == Init => PathInv
    BY DEF Init, PathInv, Preparing

\* The preparation builds the paths; nothing later touches them.
LEMMA PathNext ==
    ASSUME PathInv, [Next]_vars
    PROVE  PathInv'
<1>1. CASE BuildFirst
    BY <1>1 DEF BuildFirst, PathInv, Built, FirstLeft, Preparing
<1>2. CASE BuildSecond
    <2>1. SecondBoundaries = Kept /\ SecondRight = SecondLabels
        BY <1>2 DEF BuildSecond, PathInv, Built, SecondBoundaries, SecondRight,
            Kept, SecondLabels
    <2>2. UNCHANGED <<FirstLeft, Kept, SecondLabels>>
        BY <1>2 DEF BuildSecond, FirstLeft, Kept, SecondLabels
    <2> QED
        BY <1>2, <2>1, <2>2 DEF BuildSecond, PathInv, Built, Preparing
<1>3. CASE OrderLeft
    <2>1. UNCHANGED <<call, FirstLeft, Kept, SecondLabels>>
        BY <1>3 DEF OrderLeft, FirstLeft, Kept, SecondLabels
    <2>2. first = Built /\ second = [left |-> LeftLabels(Kept), right |-> SecondLabels]
        BY <1>3 DEF OrderLeft, PathInv
    <2>3. PICK order \in DescendingOrders :
            /\ left_order' = order
            /\ first'  = [first  EXCEPT !.left = [i \in Left |-> first.left[order[i]]]]
            /\ second' = [second EXCEPT !.left = [i \in Left |-> second.left[order[i]]]]
        BY <1>3 DEF OrderLeft
    <2>4. /\ order \in Permutations(Left)
          /\ \A i, k \in Left : i < k => FirstLeft[order[i]] >= FirstLeft[order[k]]
        BY <2>2, <2>3 DEF DescendingOrders, Built
    <2>5. /\ first' = [left |-> [i \in Left |-> FirstLeft[order[i]]],
                       right |-> RightLabels(call.first)]
          /\ second' = [left |-> [i \in Left |-> LeftLabels(Kept)[order[i]]],
                        right |-> SecondLabels]
        BY <2>2, <2>3 DEF Built
    <2>6. \A i, k \in Left : i < k => first'.left[i] >= first'.left[k]
        BY <2>4, <2>5
    <2>7. Ordered'
        BY <2>1, <2>3, <2>4, <2>5, <2>6, Zenon DEF Ordered
    <2> QED
        BY <1>3, <2>1, <2>7 DEF OrderLeft, PathInv, Preparing
<1>4. CASE FindStarts
    <2>1. Ordered' /\ Windowed'
        BY <1>4 DEF FindStarts, PathInv, Ordered, Windowed, FirstLeft, Kept,
            SecondLabels, StartOf
    <2>2. pc' \notin Preparing
        BY <1>4 DEF FindStarts, FirstPass, Preparing
    <2> QED
        BY <1>4, <2>1, <2>2 DEF FindStarts, PathInv, Preparing
<1>5. CASE ReturnNone
    BY <1>5 DEF ReturnNone, PathInv, Preparing
<1>6. CASE Passes
    <2>1. Ordered /\ Windowed
        BY <1>6, PassesKeepPaths DEF PathInv, Closed
    <2>2. Ordered' /\ Windowed' /\ call' = call /\ pc' \notin Preparing
        BY <1>6, <2>1, PassesKeepPaths DEF Ordered, Windowed, FirstLeft, Kept,
            SecondLabels, StartOf
    <2> QED
        BY <2>2 DEF PathInv, Preparing
<1>7. CASE UNCHANGED vars
    BY <1>7 DEF PathInv, Built, Ordered, Windowed, FirstLeft, Kept, SecondLabels, StartOf
<1> QED
    BY <1>1, <1>2, <1>3, <1>4, <1>5, <1>6, <1>7 DEF Next, PathsNext, Passes

-----------------------------------------------------------------------------
\* Types of the paths.

LEMMA TypeInit == Init => PathsTypeOK
<1> SUFFICES ASSUME Init PROVE PathsTypeOK
    OBVIOUS
<1>1. [i \in Left |-> i] \in Permutations(Left)
    BY DEF Permutations
<1>2. [i \in Left |-> RightLen] \in Boundaries
    BY LengthsAssumption DEF Boundaries
<1> QED
    BY <1>1, <1>2 DEF Init, PathsTypeOK, Zero

LEMMA TypeNext ==
    ASSUME PathInv, PathsTypeOK, [Next]_vars
    PROVE  PathsTypeOK'
<1>1. CASE BuildFirst
    BY <1>1, CallFields, LabelTypes DEF BuildFirst, PathsTypeOK
<1>2. CASE BuildSecond
    <2>1. first = Built
        BY <1>2 DEF BuildSecond, PathInv
    <2>2. SecondBoundaries = Kept
        BY <2>1 DEF SecondBoundaries, Kept, Built
    <2>3. /\ SecondBoundaries \in Boundaries
          /\ LeftLabels(SecondBoundaries) \in [Left -> Nat]
          /\ RightLabels(SecondBoundaries) \in [Right -> Nat]
        BY <2>2, CallFields, LabelTypes
    <2>4. SecondRight \in [Right -> Nat]
        BY <2>3, CallFields DEF SecondRight
    <2> QED
        BY <1>2, <2>3, <2>4 DEF BuildSecond, PathsTypeOK
<1>3. CASE OrderLeft
    <2>1. PICK order \in DescendingOrders :
            /\ left_order' = order
            /\ first'  = [first  EXCEPT !.left = [i \in Left |-> first.left[order[i]]]]
            /\ second' = [second EXCEPT !.left = [i \in Left |-> second.left[order[i]]]]
        BY <1>3 DEF OrderLeft
    <2>2. order \in Permutations(Left) /\ order \in [Left -> Left]
        BY DEF DescendingOrders, Permutations
    <2>3. /\ [i \in Left |-> first.left[order[i]]] \in [Left -> Nat]
          /\ [i \in Left |-> second.left[order[i]]] \in [Left -> Nat]
        BY <2>2 DEF PathsTypeOK
    <2> QED
        BY <1>3, <2>1, <2>2, <2>3 DEF OrderLeft, PathsTypeOK
<1>4. CASE FindStarts
    <2>1. Ordered
        BY <1>4 DEF FindStarts, PathInv
    <2>2. [i \in Left |-> StartOf(i)] \in Boundaries
        BY <2>1, StartIsExact DEF Boundaries
    <2> QED
        BY <1>4, <2>2 DEF FindStarts, PathsTypeOK
<1>5. CASE ReturnNone
    BY <1>5 DEF ReturnNone, PathsTypeOK
<1>6. CASE Passes
    BY <1>6, PassesKeepPaths DEF PathsTypeOK
<1>7. CASE UNCHANGED vars
    BY <1>7 DEF PathsTypeOK
<1> QED
    BY <1>1, <1>2, <1>3, <1>4, <1>5, <1>6, <1>7 DEF Next, PathsNext, Passes

\* The paths are what the boundaries of the call determine, at every step of
\* every pass: the preparation builds them and no pass disturbs them.
THEOREM PathsInvariant == Spec => [](PathInv /\ PathsTypeOK)
<1>1. PathInv /\ PathsTypeOK /\ [Next]_vars => PathInv' /\ PathsTypeOK'
    BY PathNext, TypeNext
<1> QED
    BY <1>1, PathInit, TypeInit, PTL DEF Spec

-----------------------------------------------------------------------------
\* The sweep.

Scanning == Sweeps \union {"count_ranks", "emit_ranks"}

\* The rows still to be visited have windows that reach at most as far right
\* as those already open, so no pass finds the starts out of order.
SweepInv ==
    /\ row \in 0 .. LeftLen
    /\ previous_end \in 0 .. RightLen
    /\ pc \in Preparing => row = 0 /\ previous_end = RightLen
    /\ pc \in {"count_ranks", "emit_ranks"} => row < LeftLen
    /\ pc \in Scanning =>
        \A k \in Left : row <= k /\ starts[k] # RightLen => starts[k] <= previous_end

LEMMA SweepInit == Init => SweepInv
    BY LengthsAssumption DEF Init, SweepInv, Preparing, Scanning, Sweeps

\* Opening the window of a row leaves the later windows inside what is open.
LEMMA OpeningKeepsOrder ==
    ASSUME PathInv, SweepInv, pc \in Sweeps, row < LeftLen, ~Inactive
    PROVE  /\ row \in Left
           /\ row + 1 \in 0 .. LeftLen
           /\ starts[row] \in 0 .. RightLen
           /\ starts[row] <= previous_end
           /\ \A k \in Left : row <= k /\ starts[k] # RightLen => starts[k] <= starts[row]
<1>1. row \in Left /\ row + 1 \in 0 .. LeftLen /\ row \in Int
    BY LengthsAssumption DEF SweepInv, Left
<1>2. Ordered /\ Windowed
    BY DEF PathInv, Sweeps, Preparing
<1>3. starts[row] \in 0 .. RightLen /\ starts[row] \in Int
    BY <1>1, <1>2, WindowsDecide, LengthsAssumption DEF Boundaries
<1>4. starts[row] <= previous_end
    BY <1>1 DEF SweepInv, Scanning, Inactive
<1>5. ASSUME NEW k \in Left, row <= k, starts[k] # RightLen
      PROVE  starts[k] <= starts[row]
    <2>1. CASE row = k
        BY <1>3, <2>1
    <2>2. CASE row < k
        BY <1>1, <1>2, <1>5, <2>2, WindowsDecide DEF Inactive
    <2> QED
        BY <1>1, <1>5, <2>1, <2>2 DEF Left
<1> QED
    BY <1>1, <1>3, <1>4, <1>5

\* An active row of any pass, whichever loop follows it.
LEMMA AdvanceKeepsSweep ==
    ASSUME PathInv, SweepInv, NEW pass \in Sweeps, NEW next \in Scanning,
           Sweeping(pass), Advance(next), UNCHANGED pathVars,
           \/ row' = row + 1 /\ next \in Sweeps
           \/ row' = row
    PROVE  SweepInv' /\ pc' = next
<1>1. pc \in Sweeps /\ row < LeftLen /\ ~Inactive
    BY DEF Sweeping
<1>2. pc' = next /\ previous_end' = starts[row]
    BY <1>1, OpeningKeepsOrder, LengthsAssumption DEF Advance, SweepInv
<1>3. next \notin Preparing
    BY DEF Scanning, Sweeps, Preparing
<1>4. row' \in 0 .. LeftLen /\ row' >= row /\ row \in Int
    BY <1>1, OpeningKeepsOrder, LengthsAssumption DEF SweepInv
<1>5. \A k \in Left : row' <= k /\ starts'[k] # RightLen => starts'[k] <= previous_end'
    BY <1>1, <1>2, <1>4, OpeningKeepsOrder DEF Left
<1>6. next \in {"count_ranks", "emit_ranks"} => row' < LeftLen
    BY <1>1 DEF Sweeps
<1>7. starts[row] \in 0 .. RightLen
    BY <1>1, OpeningKeepsOrder
<1> QED
    BY <1>2, <1>3, <1>4, <1>5, <1>6, <1>7 DEF SweepInv

LEMMA RewindKeepsSweep ==
    ASSUME PathInv, SweepInv, Rewind, UNCHANGED pathVars,
           pc \notin Preparing \union {"none"},
           pc' \notin Preparing \union {"count_ranks", "emit_ranks"}
    PROVE  SweepInv'
<1>1. starts \in Boundaries
    BY WindowsDecide DEF PathInv
<1>2. \A k \in Left : starts'[k] <= RightLen
    BY <1>1, LengthsAssumption DEF Boundaries
<1> QED
    BY <1>2, LengthsAssumption DEF Rewind, SweepInv

\* The sweep invariant survives every step of every pass.
LEMMA SweepNext ==
    ASSUME PathInv, SweepInv, [Next]_vars
    PROVE  SweepInv'
<1>1. CASE BuildFirst \/ BuildSecond \/ OrderLeft \/ ReturnNone
    BY <1>1 DEF BuildFirst, BuildSecond, OrderLeft, ReturnNone, SweepInv,
        Preparing, Scanning, Sweeps
<1>2. CASE FindStarts
    <2>1. Ordered
        BY <1>2 DEF FindStarts, PathInv
    <2>2. \A k \in Left : starts'[k] \in 0 .. RightLen
        BY <1>2, <2>1, StartIsExact DEF FindStarts
    <2> QED
        BY <1>2, <2>2, LengthsAssumption DEF FindStarts, FirstPass, SweepInv,
            Preparing, Scanning, Sweeps
<1>3. CASE SkipInactive
    BY <1>3, LengthsAssumption DEF SkipInactive, Inactive, SweepInv, Preparing,
        Scanning, Sweeps, Left
<1>4. CASE AnyNext
    <2>1. CASE CountAny
        <3>1. "any" \in Sweeps /\ "any" \in Scanning
            BY DEF Sweeps, Scanning
        <3> QED
            BY <2>1, <3>1, AdvanceKeepsSweep DEF CountAny
    <2>2. CASE EndAny
        BY <2>2, RewindKeepsSweep DEF EndAny, Swept, Preparing
    <2>3. CASE EmitAny
        BY <2>3, LengthsAssumption DEF EmitAny, SweepInv, Preparing, Scanning, Sweeps
    <2>4. CASE FinishAny
        BY <2>4 DEF FinishAny, Compare, SweepInv, Preparing, Scanning, Sweeps
    <2> QED
        BY <1>4, <2>1, <2>2, <2>3, <2>4 DEF AnyNext
<1>5. CASE LayoutNext
    <2>1. CASE FilterRow \/ TotalRow \/ PlaceRow
        <3>1. {"filter", "totals", "place"} \subseteq Sweeps \cap Scanning
            BY DEF Sweeps, Scanning
        <3> QED
            BY <2>1, <3>1, AdvanceKeepsSweep DEF FilterRow, TotalRow, PlaceRow
    <2>2. CASE EndFilter \/ EndOffsets \/ EndPlace
        BY <2>2, RewindKeepsSweep DEF EndFilter, EndOffsets, EndPlace, Swept, Preparing
    <2>3. CASE EndTotals \/ OffsetRank
        BY <2>3 DEF EndTotals, OffsetRank, Swept, SweepInv, Preparing, Scanning, Sweeps
    <2> QED
        BY <1>5, <2>1, <2>2, <2>3 DEF LayoutNext
<1>6. CASE AllNext
    <2>1. CASE CountRow
        <3>1. "count" \in Sweeps /\ {"count", "count_ranks"} \subseteq Scanning
            BY DEF Sweeps, Scanning
        <3> QED
            BY <2>1, <3>1, AdvanceKeepsSweep DEF CountRow
    <2>2. CASE EmitRow
        <3>1. "emit" \in Sweeps /\ {"emit", "emit_ranks"} \subseteq Scanning
            BY DEF Sweeps, Scanning
        <3> QED
            BY <2>2, <3>1, AdvanceKeepsSweep DEF EmitRow
    <2>3. CASE EndCountRanks \/ EndEmitRanks
        BY <2>3, LengthsAssumption DEF EndCountRanks, EndEmitRanks, SweepInv,
            Preparing, Scanning, Sweeps, Left
    <2>4. CASE CountRank \/ EmitRank \/ FinishAll
        BY <2>4 DEF CountRank, EmitRank, FinishAll, Swept, SweepInv, Preparing,
            Scanning, Sweeps
    <2>5. CASE EndCount \/ EndOffsetRows \/ EndEmit
        BY <2>5, RewindKeepsSweep DEF EndCount, EndOffsetRows, EndEmit, Swept, Preparing
    <2>6. CASE OffsetRow \/ Translate
        BY <2>6, LengthsAssumption DEF OffsetRow, Translate, SweepInv, Preparing,
            Scanning, Sweeps
    <2> QED
        BY <1>6, <2>1, <2>2, <2>3, <2>4, <2>5, <2>6 DEF AllNext
<1>7. CASE FirstLastNext
    <2>1. CASE EmitBest
        <3>1. "best" \in Sweeps /\ "best" \in Scanning
            BY DEF Sweeps, Scanning
        <3> QED
            BY <2>1, <3>1, AdvanceKeepsSweep DEF EmitBest
    <2>2. CASE FinishBest
        BY <2>2 DEF FinishBest, Compare, Swept, SweepInv, Preparing, Scanning, Sweeps
    <2> QED
        BY <1>7, <2>1, <2>2 DEF FirstLastNext
<1>8. CASE ResidualNext
    <2>1. CASE AskRow
        <3>1. "ask" \in Sweeps /\ "ask" \in Scanning
            BY DEF Sweeps, Scanning
        <3> QED
            BY <2>1, <3>1, AdvanceKeepsSweep DEF AskRow
    <2>2. CASE AskAgainRow
        <3>1. "ask_again" \in Sweeps /\ "ask_again" \in Scanning
            BY DEF Sweeps, Scanning
        <3> QED
            BY <2>2, <3>1, AdvanceKeepsSweep DEF AskAgainRow
    <2>3. CASE EndAsk
        BY <2>3, RewindKeepsSweep DEF EndAsk, Swept, Preparing
    <2>4. CASE EmitSelected
        BY <2>4, LengthsAssumption DEF EmitSelected, SweepInv, Preparing, Scanning, Sweeps
    <2>5. CASE FinishSelected \/ FinishAsk
        BY <2>5 DEF FinishSelected, FinishAsk, Compare, Swept, SweepInv, Preparing,
            Scanning, Sweeps
    <2> QED
        BY <1>8, <2>1, <2>2, <2>3, <2>4, <2>5 DEF ResidualNext
<1>9. CASE UNCHANGED vars
    BY <1>9 DEF SweepInv, Scanning, Sweeps
<1> QED
    BY <1>1, <1>2, <1>3, <1>4, <1>5, <1>6, <1>7, <1>8, <1>9 DEF Next, PathsNext

\* No sweep of any keep policy finds the window starts out of order.
THEOREM NeverOutOfOrderTheorem == Spec => []NeverOutOfOrder
<1>1. PathInv /\ SweepInv /\ [Next]_vars => PathInv' /\ SweepInv'
    BY PathNext, SweepNext
<1>2. PathInv /\ SweepInv => NeverOutOfOrder
    BY OpeningKeepsOrder DEF NeverOutOfOrder
<1> QED
    BY <1>1, <1>2, PathInit, SweepInit, PTL DEF Spec

-----------------------------------------------------------------------------
\* The first passes.

\* The left row at search position k has a match.
Reaches(k) == \E j \in Right : Matches(left_order[k], j)

\* m is the largest second label at or after position s.
HighestFrom(s, m) ==
    /\ m \in BelowLabels .. LeftLen
    /\ \A j \in Right : s <= j => second.right[j] <= m
    /\ m # BelowLabels => \E j \in Right : s <= j /\ second.right[j] = m

LEMMA LabelBound ==
    ASSUME PathInv, Ordered, NEW j \in Right
    PROVE  second.right[j] \in 0 .. LeftLen
<1>1. \A b \in Boundaries, i \in Right : RightLabels(b)[i] \in 0 .. LeftLen
    <2>1. \A b \in Boundaries, i \in Right :
            /\ RightLabels(b)[i] = Cardinality(Begun(b, i))
            /\ Begun(b, i) \in SUBSET Left
        BY DEF RightLabels, Begun
    <2>2. Cardinality(Left) = LeftLen
        BY FS_Interval, LengthsAssumption DEF Left
    <2> QED
        BY <2>1, <2>2, LeftFinite, FS_Subset, LengthsAssumption
<1>2. second.right[j] = SecondLabels[j]
    BY DEF Ordered
<1>3. call.alignment[j] \in Right /\ Kept \in Boundaries
    BY CallFields
<1> QED
    BY <1>1, <1>2, <1>3, LengthsAssumption DEF SecondLabels

\* A nonempty set of labels has a largest one.
LEMMA LargestOfLabels ==
    ASSUME NEW S \in SUBSET (BelowLabels .. LeftLen), S # {}
    PROVE  \E m \in S : \A k \in S : k <= m
<1> DEFINE T == {LeftLen - x : x \in S}
<1>0. \A x \in S : x \in Int /\ x <= LeftLen /\ LeftLen \in Int
    BY LengthsAssumption DEF BelowLabels
<1>1. T \in SUBSET Nat /\ T # {}
    <2>1. \A x \in S : LeftLen - x \in Nat
        BY <1>0
    <2> QED
        BY <2>1
<1>2. PICK t \in T : \A u \in T : t <= u
    BY <1>1, LeastNatural
<1>3. PICK m \in S : t = LeftLen - m
    OBVIOUS
<1>4. \A k \in S : LeftLen - m <= LeftLen - k
    BY <1>2, <1>3
<1> QED
    BY <1>0, <1>4

\* Reaching the largest label of the window is having a match.
LEMMA ReachedIsMatch ==
    ASSUME PathInv, Ordered, Windowed, NEW k \in Left, NEW m,
           HighestFrom(starts[k], m)
    PROVE  second.left[k] # 0 /\ second.left[k] <= m <=> Reaches(k)
<1>1. /\ second.left[k] \in Nat
      /\ \A j \in Right : second.right[j] \in Nat
    BY OrderedTypes
<1>2. ASSUME second.left[k] # 0, second.left[k] <= m PROVE Reaches(k)
    <2>1. m # BelowLabels
        BY <1>1, <1>2 DEF BelowLabels
    <2>2. PICK j \in Right : starts[k] <= j /\ second.right[j] = m
        BY <2>1 DEF HighestFrom
    <2>3. Matches(left_order[k], j)
        BY <1>2, <2>2, WindowsDecide
    <2> QED
        BY <2>3 DEF Reaches
<1>3. ASSUME Reaches(k) PROVE second.left[k] # 0 /\ second.left[k] <= m
    <2>1. PICK j \in Right : Matches(left_order[k], j)
        BY <1>3 DEF Reaches
    <2>2. /\ starts[k] <= j
          /\ second.left[k] # 0 /\ second.left[k] <= second.right[j]
        BY <2>1, WindowsDecide
    <2>3. second.right[j] <= m /\ m \in Int
        BY <2>2, LengthsAssumption DEF HighestFrom, BelowLabels
    <2> QED
        BY <1>1, <2>2, <2>3
<1> QED
    BY <1>2, <1>3

\* A row without a window has no match.
LEMMA InactiveHasNoMatch ==
    ASSUME PathInv, Ordered, Windowed, NEW k \in Left, starts[k] = RightLen
    PROVE  ~Reaches(k)
    BY WindowsDecide, LengthsAssumption DEF Reaches, Right

Filtered == {"totals", "slices", "place", "count", "count_ranks", "offsets",
             "emit", "emit_ranks", "translate", "best", "ask", "ask_again",
             "emit_selected"}

\* The filter knows the largest open label and has flagged the rows it passed.
FilterInv ==
    /\ left_has_match \in [Left -> BOOLEAN]
    /\ pc \in Preparing =>
        max_right_region = BelowLabels /\ \A k \in Left : ~left_has_match[k]
    /\ pc = "filter" =>
        /\ HighestFrom(previous_end, max_right_region)
        /\ \A k \in Left : left_has_match[k] <=> k < row /\ Reaches(k)
    /\ pc \in Filtered => \A k \in Left : left_has_match[k] <=> Reaches(k)

LEMMA FilterInit == Init => FilterInv
    BY DEF Init, FilterInv, Preparing, Filtered

\* The maximum over what was open and what the row opens.
LEMMA LargestLabelIsHighest ==
    ASSUME PathInv, SweepInv, Sweeping("filter"), HighestFrom(previous_end, max_right_region)
    PROVE  HighestFrom(starts[row], LargestLabel)
<1> DEFINE seen == {max_right_region} \union {second.right[j] : j \in Opened}
<1>1. /\ Ordered
      /\ starts[row] \in 0 .. RightLen /\ previous_end \in 0 .. RightLen
      /\ starts[row] <= previous_end
    BY OpeningKeepsOrder DEF Sweeping, Sweeps, PathInv, SweepInv, Preparing
<1>2. Opened \subseteq Right
    BY <1>1, LengthsAssumption DEF Opened, Right
<1>3. seen \in SUBSET (BelowLabels .. LeftLen)
    BY <1>1, <1>2, LabelBound, LengthsAssumption DEF HighestFrom, BelowLabels
<1>4. \E m \in seen : \A k \in seen : k <= m
    BY <1>3, LargestOfLabels
<1>5. LargestLabel \in seen /\ \A k \in seen : k <= LargestLabel
    BY <1>4 DEF LargestLabel
<1>6. ASSUME NEW j \in Right, starts[row] <= j PROVE second.right[j] <= LargestLabel
    <2>1. CASE previous_end <= j
        <3>1. second.right[j] <= max_right_region /\ max_right_region <= LargestLabel
            BY <1>5, <2>1 DEF HighestFrom
        <3>2. /\ second.right[j] \in Int /\ max_right_region \in Int
              /\ LargestLabel \in Int
            BY <1>1, <1>3, <1>5, LabelBound, LengthsAssumption DEF BelowLabels
        <3> QED
            BY <3>1, <3>2
    <2>2. CASE j < previous_end
        <3>1. j \in Opened
            BY <1>1, <1>6, <2>2, LengthsAssumption DEF Opened, Right
        <3> QED
            BY <1>5, <3>1
    <2> QED
        BY <1>1, <2>1, <2>2, LengthsAssumption DEF Right
<1>7. ASSUME LargestLabel # BelowLabels
      PROVE  \E j \in Right : starts[row] <= j /\ second.right[j] = LargestLabel
    <2>1. CASE LargestLabel = max_right_region
        BY <1>1, <1>7, <2>1, LengthsAssumption DEF HighestFrom, Right
    <2>2. CASE \E j \in Opened : LargestLabel = second.right[j]
        BY <1>1, <1>2, <2>2 DEF Opened
    <2> QED
        BY <1>5, <2>1, <2>2
<1> QED
    BY <1>3, <1>5, <1>6, <1>7 DEF HighestFrom

LEMMA ReachesIsStable ==
    ASSUME UNCHANGED pathVars
    PROVE  \A k \in Left : Reaches(k)' <=> Reaches(k)
    BY DEF Reaches, Matches

LEMMA SkippedRow ==
    ASSUME PathInv, SweepInv, SkipInactive
    PROVE  /\ row \in Left /\ row' = row + 1 /\ UNCHANGED <<previous_end, pc>>
           /\ UNCHANGED pathVars /\ UNCHANGED passVars
           /\ ~Reaches(row)
<1>1. row \in Left
    BY LengthsAssumption DEF SkipInactive, SweepInv, Left
<1>2. Ordered /\ Windowed
    BY DEF SkipInactive, Sweeps, PathInv, Preparing
<1> QED
    BY <1>1, <1>2, InactiveHasNoMatch DEF SkipInactive, Inactive

LEMMA FilterNext ==
    ASSUME PathInv, SweepInv, FilterInv, [Next]_vars
    PROVE  FilterInv'
<1>1. CASE BuildFirst \/ BuildSecond \/ OrderLeft
    BY <1>1 DEF BuildFirst, BuildSecond, OrderLeft, FilterInv, Preparing, Filtered
<1>2. CASE FindStarts
    BY <1>2, LengthsAssumption DEF FindStarts, FirstPass, FilterInv, SweepInv,
        Preparing, Filtered, HighestFrom, BelowLabels, Left, Right
<1>3. CASE ReturnNone
    BY <1>3 DEF ReturnNone, FilterInv, Preparing, Filtered
<1>4. CASE SkipInactive
    <2>1. \A k \in Left : k < row' /\ Reaches(k)' <=> k < row /\ Reaches(k)
        BY <1>4, SkippedRow, ReachesIsStable DEF Left
    <2>2. HighestFrom(previous_end, max_right_region)'
            <=> HighestFrom(previous_end, max_right_region)
        BY <1>4, SkippedRow DEF HighestFrom
    <2> QED
        BY <1>4, <2>1, <2>2, SkippedRow, ReachesIsStable DEF FilterInv
<1>5. CASE FilterRow
    <2>1. /\ pc = "filter" /\ pc' = "filter" /\ row \in Left
          /\ row' = row + 1 /\ previous_end' = starts[row]
          /\ max_right_region' = LargestLabel /\ UNCHANGED pathVars
        <3>1. pc = "filter" /\ "filter" \in Sweeps /\ "filter" \in Scanning
            BY <1>5 DEF FilterRow, Sweeping, Sweeps, Scanning
        <3>2. row \in Left
            BY <1>5, <3>1, OpeningKeepsOrder DEF FilterRow, Sweeping
        <3>3. pc' = "filter"
            BY <1>5, <3>1, AdvanceKeepsSweep DEF FilterRow
        <3> QED
            BY <1>5, <3>1, <3>2, <3>3 DEF FilterRow, Advance
    <2>2. Ordered /\ Windowed
        BY <2>1 DEF PathInv, Preparing
    <2>3. HighestFrom(starts[row], LargestLabel)
        BY <1>5, <2>1, LargestLabelIsHighest DEF FilterRow, FilterInv
    <2>4. HighestFrom(previous_end, max_right_region)'
        BY <2>1, <2>3 DEF HighestFrom
    <2>5. second.left[row] # 0 /\ second.left[row] <= max_right_region' <=> Reaches(row)
        BY <2>1, <2>2, <2>3, ReachedIsMatch
    <2>6. left_has_match' \in [Left -> BOOLEAN]
        BY <1>5, <2>1 DEF FilterRow, FilterInv
    <2>7. ASSUME NEW k \in Left PROVE left_has_match'[k] <=> k < row' /\ Reaches(k)'
        <3>1. Reaches(k)' <=> Reaches(k)
            BY <2>1, ReachesIsStable
        <3>2. left_has_match[k] <=> k < row /\ Reaches(k)
            BY <2>1 DEF FilterInv
        <3>3. CASE k = row
            <4>1. ~left_has_match[k] /\ k < row'
                BY <2>1, <3>2, <3>3 DEF Left
            <4>2. left_has_match'[k] = IF Reaches(k) THEN TRUE ELSE left_has_match[k]
                BY <1>5, <2>1, <2>5, <3>3 DEF FilterRow, FilterInv
            <4> QED
                BY <3>1, <4>1, <4>2, Zenon
        <3>4. CASE k # row
            <4>1. left_has_match'[k] = left_has_match[k]
                BY <1>5, <3>4 DEF FilterRow, FilterInv
            <4>2. k < row' <=> k < row
                BY <2>1, <3>4 DEF Left
            <4> QED
                BY <3>1, <3>2, <4>1, <4>2
        <3> QED
            BY <3>3, <3>4
    <2> QED
        BY <2>1, <2>4, <2>6, <2>7 DEF FilterInv, Preparing, Filtered
<1>6. CASE EndFilter
    <2>1. /\ pc = "filter" /\ row = LeftLen /\ UNCHANGED pathVars
          /\ left_has_match' = left_has_match /\ pc' \in {"none", "totals"}
        BY <1>6 DEF EndFilter, Swept
    <2>2. \A k \in Left : left_has_match'[k] <=> Reaches(k)'
        BY <2>1, ReachesIsStable, LengthsAssumption DEF FilterInv, Left
    <2> QED
        BY <2>1, <2>2 DEF FilterInv, Preparing, Filtered
<1>7. CASE AnyNext
    BY <1>7 DEF AnyNext, CountAny, EndAny, EmitAny, FinishAny, Sweeping, Swept,
        Advance, Compare, FilterInv, Preparing, Filtered
<1>8. CASE TotalRow \/ EndTotals \/ OffsetRank \/ EndOffsets \/ PlaceRow \/ EndPlace
    <2>1. UNCHANGED pathVars /\ pc \in Filtered /\ left_has_match' = left_has_match
        BY <1>8 DEF TotalRow, EndTotals, OffsetRank, EndOffsets, PlaceRow, EndPlace,
            Sweeping, Swept, Filtered
    <2>2. pc' \in Filtered \union {"error"}
        BY <1>8 DEF TotalRow, EndTotals, OffsetRank, EndOffsets, PlaceRow, EndPlace,
            Sweeping, Swept, Advance, Filtered
    <2> QED
        BY <2>1, <2>2, ReachesIsStable DEF FilterInv, Preparing, Filtered
<1>9. CASE AllNext \/ FirstLastNext
    <2>1. UNCHANGED pathVars /\ pc \in Filtered /\ left_has_match' = left_has_match
        BY <1>9 DEF AllNext, CountRow, CountRank, EndCountRanks, EndCount, OffsetRow,
            EndOffsetRows, EmitRow, EmitRank, EndEmitRanks, EndEmit, Translate,
            FinishAll, FirstLastNext, EmitBest, FinishBest, Sweeping, Swept, Filtered
    <2>2. pc' \in Filtered \union {"error", "none", "done"}
        BY <1>9 DEF AllNext, CountRow, CountRank, EndCountRanks, EndCount, OffsetRow,
            EndOffsetRows, EmitRow, EmitRank, EndEmitRanks, EndEmit, Translate,
            FinishAll, FirstLastNext, EmitBest, FinishBest, Sweeping, Swept,
            Advance, Compare, Filtered
    <2> QED
        BY <2>1, <2>2, ReachesIsStable DEF FilterInv, Preparing, Filtered
<1>10. CASE ResidualNext
    <2>1. UNCHANGED pathVars /\ pc \in Filtered /\ left_has_match' = left_has_match
        BY <1>10 DEF ResidualNext, AskRow, EndAsk, EmitSelected, FinishSelected,
            AskAgainRow, FinishAsk, Sweeping, Swept, Filtered
    <2>2. pc' \in Filtered \union {"error", "none", "done"}
        BY <1>10 DEF ResidualNext, AskRow, EndAsk, EmitSelected, FinishSelected,
            AskAgainRow, FinishAsk, Sweeping, Swept, Advance, Compare, Filtered
    <2> QED
        BY <2>1, <2>2, ReachesIsStable DEF FilterInv, Preparing, Filtered
<1>11. CASE UNCHANGED vars
    BY <1>11, ReachesIsStable DEF FilterInv, HighestFrom
<1> QED
    BY <1>1, <1>2, <1>3, <1>4, <1>5, <1>6, <1>7, <1>8, <1>9, <1>10, <1>11
        DEF Next, PathsNext, LayoutNext

\* The running maximum of the filter flags a left row exactly when some right
\* row satisfies both predicates with it.
THEOREM FilterIsExactTheorem == Spec => []FilterIsExact
<1>1. PathInv /\ SweepInv /\ FilterInv /\ [Next]_vars
        => PathInv' /\ SweepInv' /\ FilterInv'
    BY PathNext, SweepNext, FilterNext
<1>2. FilterInv => FilterIsExact
    BY DEF FilterInv, FilterIsExact, Filtered, Reaches
<1> QED
    BY <1>1, <1>2, PathInit, SweepInit, FilterInit, PTL DEF Spec

-----------------------------------------------------------------------------

\* The running maximum is the largest open label and its position holds it.
MaximumKnown(s, m, p) ==
    /\ HighestFrom(s, m)
    /\ m # BelowLabels => p \in Right /\ s <= p /\ second.right[p] = m

\* The search positions a pass has given a match.
Selected == {k \in Left : selected[k] # None}

\* The calls that KeepAny answers, and the passes of all others.
AnyCall == call.keep = "any" /\ ~call.has_residuals

OtherPasses == Filtered \union {"filter"}

AnyInv ==
    /\ pc \in {"any", "emit_any"} => AnyCall
    /\ pc \in OtherPasses => ~AnyCall
    /\ pc \in Preparing => max_right_region = BelowLabels /\ Selected = {}
    /\ pc = "any" =>
        /\ MaximumKnown(previous_end, max_right_region, max_right_position)
        /\ Selected = {k \in Left : k < row /\ Reaches(k)}
    /\ pc = "emit_any" => Selected = {k \in Left : Reaches(k)}
    /\ AnyCall => /\ selected \in [Left -> Right \union {None}]
                  /\ \A k \in Selected : Matches(left_order[k], selected[k])

LEMMA AnyInit == Init => AnyInv
    BY DEF Init, AnyInv, Selected, Preparing, OtherPasses, Filtered

\* The maximum after the rows of one more window are seen.
LEMMA RaisedMaximum ==
    ASSUME PathInv, SweepInv, AnyInv, Sweeping("any"), RaiseMaximum
    PROVE  MaximumKnown(starts[row], max_right_region', max_right_position')
<1>1. /\ Ordered
      /\ starts[row] \in 0 .. RightLen /\ previous_end \in 0 .. RightLen
      /\ starts[row] <= previous_end
    BY OpeningKeepsOrder DEF Sweeping, Sweeps, PathInv, SweepInv, Preparing
<1>2. MaximumKnown(previous_end, max_right_region, max_right_position)
    BY DEF Sweeping, AnyInv
<1>3. max_right_region \in BelowLabels .. LeftLen /\ max_right_region \in Int
    BY <1>2, LengthsAssumption DEF MaximumKnown, HighestFrom, BelowLabels
<1>4. Opened \subseteq Right /\ \A j \in Right : j \in Int
    BY <1>1, LengthsAssumption DEF Opened, Right
<1>5. \A j \in Right : second.right[j] \in BelowLabels .. LeftLen /\ second.right[j] \in Int
    BY <1>1, LabelBound, LengthsAssumption DEF BelowLabels
<1>6. \A j \in Right : starts[row] <= j => j \in Opened \/ previous_end <= j
    BY <1>1, LengthsAssumption DEF Opened, Right
<1>7. \A j \in Opened : starts[row] <= j
    BY <1>1 DEF Opened
<1>8. CASE NewLargest = {}
    <2>1. \A j \in Opened : second.right[j] <= max_right_region
        <3>1. SUFFICES ASSUME NEW i \in Opened, ~(second.right[i] <= max_right_region)
                       PROVE  FALSE
            OBVIOUS
        <3> DEFINE S == {second.right[j] : j \in Opened}
        <3>2. S \in SUBSET (BelowLabels .. LeftLen) /\ S # {}
            BY <1>4, <1>5, <3>1
        <3> HIDE DEF S
        <3>3. PICK m \in S : \A l \in S : l <= m
            BY <3>2, LargestOfLabels
        <3>4. PICK j \in Opened : second.right[j] = m
            BY <3>3 DEF S
        <3>5. \A k \in Opened : second.right[k] <= second.right[j]
            BY <3>3, <3>4 DEF S
        <3>6. second.right[j] > max_right_region
            BY <1>3, <1>4, <1>5, <3>1, <3>5
        <3>7. j \in NewLargest
            BY <3>4, <3>5, <3>6 DEF NewLargest
        <3> QED
            BY <1>8, <3>7
    <2>2. UNCHANGED <<max_right_region, max_right_position>>
        BY <1>8 DEF RaiseMaximum
    <2>3. \A j \in Right : starts[row] <= j => second.right[j] <= max_right_region
        BY <1>2, <1>6, <2>1 DEF MaximumKnown, HighestFrom
    <2>4. \A j \in Right : previous_end <= j => starts[row] <= j
        BY <1>1, LengthsAssumption DEF Right
    <2> QED
        BY <1>2, <2>2, <2>3, <2>4 DEF MaximumKnown, HighestFrom
<1>9. CASE NewLargest # {}
    <2>1. NewLargest \in SUBSET Nat
        <3>1. Right \subseteq Nat /\ NewLargest \subseteq Opened
            BY LengthsAssumption DEF NewLargest, Right
        <3> QED
            BY <1>4, <3>1
    <2>2. \E j \in NewLargest : \A k \in NewLargest : j <= k
        BY <1>9, <2>1, LeastNatural
    <2> DEFINE j == CHOOSE j \in NewLargest : \A k \in NewLargest : j <= k
    <2>3. j \in NewLargest
        BY <2>2
    <2>4. max_right_region' = second.right[j] /\ max_right_position' = j
        BY <1>9 DEF RaiseMaximum
    <2> HIDE DEF j
    <2>5. /\ j \in Right /\ starts[row] <= j
          /\ second.right[j] > max_right_region
          /\ \A k \in Opened : second.right[k] <= second.right[j]
        BY <1>4, <1>7, <2>3 DEF NewLargest
    <2>6. ASSUME NEW k \in Right, previous_end <= k
          PROVE  second.right[k] <= second.right[j]
        <3>1. second.right[k] <= max_right_region
            BY <1>2, <2>6 DEF MaximumKnown, HighestFrom
        <3> QED
            BY <1>3, <1>5, <2>5, <3>1
    <2>7. \A k \in Right : starts[row] <= k => second.right[k] <= second.right[j]
        BY <1>6, <2>5, <2>6
    <2> QED
        BY <1>5, <2>4, <2>5, <2>7 DEF MaximumKnown, HighestFrom
<1> QED
    BY <1>8, <1>9

\* The row takes the remembered position exactly when it has a match, and then
\* that position is one.
LEMMA SelectionIsSound ==
    ASSUME PathInv, SweepInv, AnyInv, Sweeping("any"), RaiseMaximum
    PROVE  /\ Reached <=> Reaches(row)
           /\ Reached => /\ max_right_position' \in Right
                         /\ Matches(left_order[row], max_right_position')
<1>1. row \in Left /\ Ordered /\ Windowed
    BY OpeningKeepsOrder DEF Sweeping, Sweeps, PathInv, Preparing
<1>2. MaximumKnown(starts[row], max_right_region', max_right_position')
    BY RaisedMaximum
<1>3. Reached <=> Reaches(row)
    <2>1. second.left[row] # 0 /\ second.left[row] <= max_right_region' <=> Reaches(row)
        BY <1>1, <1>2, ReachedIsMatch DEF MaximumKnown
    <2> QED
        BY <2>1 DEF Reached
<1>4. ASSUME Reached
      PROVE  max_right_position' \in Right /\ Matches(left_order[row], max_right_position')
    <2>1. second.left[row] \in Nat /\ second.left[row] # 0
          /\ second.left[row] <= max_right_region'
        BY <1>1, <1>4, OrderedTypes DEF Reached
    <2>2. max_right_region' # BelowLabels
        BY <2>1 DEF BelowLabels
    <2>3. /\ max_right_position' \in Right
          /\ starts[row] <= max_right_position'
          /\ second.right[max_right_position'] = max_right_region'
        BY <1>2, <2>2 DEF MaximumKnown
    <2> QED
        BY <1>1, <2>1, <2>3, WindowsDecide
<1> QED
    BY <1>3, <1>4

\* The passes of the other policies stay among themselves.
LEMMA OthersStayOthers ==
    ASSUME LayoutNext \/ AllNext \/ FirstLastNext \/ ResidualNext
    PROVE  pc \in OtherPasses /\ pc' \in OtherPasses \union Closed /\ UNCHANGED pathVars
<1>1. CASE LayoutNext
    BY <1>1 DEF LayoutNext, FilterRow, EndFilter, TotalRow, EndTotals, OffsetRank,
        EndOffsets, PlaceRow, EndPlace, Sweeping, Swept, Advance, OtherPasses,
        Filtered, Closed
<1>2. CASE AllNext
    BY <1>2 DEF AllNext, CountRow, CountRank, EndCountRanks, EndCount, OffsetRow,
        EndOffsetRows, EmitRow, EmitRank, EndEmitRanks, EndEmit, Translate,
        FinishAll, Sweeping, Swept, Advance, OtherPasses, Filtered, Closed
<1>3. CASE FirstLastNext
    BY <1>3 DEF FirstLastNext, EmitBest, FinishBest, Sweeping, Swept, Advance,
        Compare, OtherPasses, Filtered, Closed
<1>4. CASE ResidualNext
    BY <1>4 DEF ResidualNext, AskRow, EndAsk, EmitSelected, FinishSelected, AskAgainRow,
        FinishAsk, Sweeping, Swept, Advance, Compare, OtherPasses, Filtered, Closed
<1> QED
    BY <1>1, <1>2, <1>3, <1>4

LEMMA MatchesAreStable ==
    ASSUME UNCHANGED pathVars
    PROVE  \A k \in Left, j \in Right : Matches(left_order[k], j)' <=> Matches(left_order[k], j)
    BY DEF Matches

LEMMA AnyInvNext ==
    ASSUME PathInv, SweepInv, AnyInv, [Next]_vars
    PROVE  AnyInv'
<1>1. CASE BuildFirst \/ BuildSecond \/ OrderLeft \/ ReturnNone
    BY <1>1 DEF BuildFirst, BuildSecond, OrderLeft, ReturnNone, AnyInv, Selected, Preparing,
        AnyCall, OtherPasses, Filtered
<1>2. CASE FindStarts
    BY <1>2, LengthsAssumption DEF FindStarts, FirstPass, AnyInv, SweepInv, Selected,
        Preparing, MaximumKnown, HighestFrom, BelowLabels, Left, Right, AnyCall,
        OtherPasses, Filtered
<1>3. CASE SkipInactive
    <2>1. {k \in Left : k < row' /\ Reaches(k)'} = {k \in Left : k < row /\ Reaches(k)}
        BY <1>3, SkippedRow, ReachesIsStable DEF Left
    <2>2. MaximumKnown(previous_end, max_right_region, max_right_position)
            => MaximumKnown(previous_end, max_right_region, max_right_position)'
        BY <1>3, SkippedRow DEF MaximumKnown, HighestFrom
    <2>3. Selected' = Selected /\ selected' = selected /\ pc' = pc /\ pc # "emit_any"
        BY <1>3, SkippedRow DEF Selected, SkipInactive, Sweeps
    <2> QED
        BY <1>3, <2>1, <2>2, <2>3, SkippedRow, MatchesAreStable
            DEF AnyInv, AnyCall, Selected, Matches
<1>4. CASE CountAny
    <2>1. /\ pc = "any" /\ pc' = "any" /\ row \in Left /\ UNCHANGED pathVars
          /\ row' = row + 1 /\ previous_end' = starts[row]
        <3>1. pc = "any" /\ "any" \in Sweeps /\ "any" \in Scanning
            BY <1>4 DEF CountAny, Sweeping, Sweeps, Scanning
        <3>2. row \in Left
            BY <1>4, <3>1, OpeningKeepsOrder DEF CountAny, Sweeping
        <3>3. pc' = "any"
            BY <1>4, <3>1, AdvanceKeepsSweep DEF CountAny
        <3> QED
            BY <1>4, <3>1, <3>2, <3>3 DEF CountAny, Advance
    <2> USE DEF AnyCall, OtherPasses, Filtered
    <2>2. MaximumKnown(previous_end, max_right_region, max_right_position)'
        <3>1. MaximumKnown(starts[row], max_right_region', max_right_position')
            BY <1>4, RaisedMaximum DEF CountAny
        <3> QED
            BY <2>1, <3>1 DEF MaximumKnown, HighestFrom
    <2>3. /\ Reached <=> Reaches(row)
          /\ Reached => /\ max_right_position' \in Right
                        /\ Matches(left_order[row], max_right_position')
        BY <1>4, SelectionIsSound DEF CountAny
    <2>4. selected' = IF Reaches(row) THEN [selected EXCEPT ![row] = max_right_position']
                      ELSE selected
        BY <1>4, <2>3 DEF CountAny
    <2>5. Selected = {k \in Left : k < row /\ Reaches(k)}
        BY <2>1 DEF AnyInv
    <2>6. {k \in Left : k < row' /\ Reaches(k)'}
            = IF Reaches(row) THEN Selected \union {row} ELSE Selected
        <3>1. \A k \in Left : k < row' <=> k < row \/ k = row
            BY <2>1 DEF Left
        <3>2. \A k \in Left : Reaches(k)' <=> Reaches(k)
            BY <2>1, ReachesIsStable
        <3>3. \A k \in Left : k < row' /\ Reaches(k)'
                <=> k \in Selected \/ (k = row /\ Reaches(row))
            BY <2>5, <3>1, <3>2, Zenon
        <3>4. Selected \subseteq Left
            BY DEF Selected
        <3> QED
            BY <2>1, <3>3, <3>4
    <2>7. CASE Reaches(row)
        <3>1. max_right_position' # None
            BY <2>3, <2>7, NoneAssumption DEF Right
        <3>2. selected' = [selected EXCEPT ![row] = max_right_position']
            BY <2>4, <2>7
        <3>3. selected' \in [Left -> Right \union {None}]
            BY <2>1, <2>3, <2>7, <3>2 DEF AnyInv
        <3>4. Selected' = Selected \union {row}
            BY <2>1, <3>1, <3>2 DEF Selected, AnyInv
        <3>5. \A k \in Selected' : Matches(left_order[k], selected[k])'
            BY <2>1, <2>3, <2>7, <3>2, <3>4 DEF AnyInv, Matches, Selected
        <3> QED
            BY <2>1, <2>2, <2>6, <2>7, <3>3, <3>4, <3>5 DEF AnyInv, Preparing
    <2>8. CASE ~Reaches(row)
        <3>1. selected' = selected /\ Selected' = Selected
            BY <2>4, <2>8 DEF Selected
        <3>2. \A k \in Selected' : Matches(left_order[k], selected[k])'
            BY <2>1, <3>1 DEF AnyInv, Matches
        <3> QED
            BY <2>1, <2>2, <2>6, <2>8, <3>1, <3>2 DEF AnyInv, Preparing
    <2> QED
        BY <2>7, <2>8
<1>5. CASE EndAny
    <2>1. /\ pc = "any" /\ row = LeftLen /\ UNCHANGED <<pathVars, selected>>
          /\ pc' \in {"none", "emit_any"}
        BY <1>5 DEF EndAny, Swept
    <2>2. {k \in Left : k < row /\ Reaches(k)} = {k \in Left : Reaches(k)'}
        BY <2>1, ReachesIsStable, LengthsAssumption DEF Left
    <2>3. Selected' = Selected /\ Selected = {k \in Left : k < row /\ Reaches(k)}
        BY <2>1 DEF Selected, AnyInv
    <2> QED
        BY <2>1, <2>2, <2>3 DEF AnyInv, AnyCall, OtherPasses, Filtered, Preparing, Matches
<1>6. CASE EmitAny
    <2>1. pc = "emit_any" /\ pc' = pc /\ UNCHANGED <<pathVars, selected>>
        BY <1>6 DEF EmitAny
    <2>2. Selected' = Selected /\ {k \in Left : Reaches(k)} = {k \in Left : Reaches(k)'}
        BY <2>1, ReachesIsStable DEF Selected
    <2> QED
        BY <2>1, <2>2 DEF AnyInv, AnyCall, OtherPasses, Filtered, Preparing, Matches
<1>7. CASE FinishAny
    <2>1. pc' \in {"done", "error"} /\ UNCHANGED <<pathVars, selected>>
        BY <1>7 DEF FinishAny, Compare
    <2> QED
        BY <2>1 DEF AnyInv, AnyCall, OtherPasses, Filtered, Preparing, Matches, Selected
<1>8. CASE LayoutNext \/ AllNext \/ FirstLastNext \/ ResidualNext
    BY <1>8, OthersStayOthers DEF AnyInv, AnyCall, OtherPasses, Filtered, Preparing, Closed
<1>9. CASE UNCHANGED vars
    <2>1. Selected' = Selected /\ \A k \in Left : Reaches(k)' <=> Reaches(k)
        BY <1>9, ReachesIsStable DEF Selected
    <2>2. \A k \in Left : k < row' /\ Reaches(k)' <=> k < row /\ Reaches(k)
        BY <1>9, <2>1
    <2> QED
        BY <1>9, <2>1, <2>2 DEF AnyInv, AnyCall, Matches, MaximumKnown, HighestFrom
<1> QED
    BY <1>1, <1>2, <1>3, <1>4, <1>5, <1>6, <1>7, <1>8, <1>9
        DEF Next, PathsNext, AnyNext

\* The first pass of keep="any" selects a right row for a left row exactly when
\* it has a match, and what it selects is one.
THEOREM SelectionIsExactTheorem == Spec => []SelectionIsExact
<1>1. PathInv /\ SweepInv /\ AnyInv /\ [Next]_vars => PathInv' /\ SweepInv' /\ AnyInv'
    BY PathNext, SweepNext, AnyInvNext
<1>2. AnyInv => SelectionIsExact
    <2> SUFFICES ASSUME AnyInv, pc = "emit_any", NEW k \in Left
                 PROVE  /\ selected[k] = None <=> \A j \in Right : ~Matches(left_order[k], j)
                        /\ selected[k] # None => Matches(left_order[k], selected[k])
        BY DEF SelectionIsExact
    <2>1. k \in Selected <=> Reaches(k)
        BY DEF AnyInv
    <2> QED
        BY <2>1 DEF AnyInv, Selected, Reaches
<1> QED
    BY <1>1, <1>2, PathInit, SweepInit, AnyInit, PTL DEF Spec

-----------------------------------------------------------------------------
\* The second pass.

\* What has been emitted once the first n search positions are done: one pair
\* for each selected position among them, with the selected right row.
EmittedUpTo(n) ==
    /\ left_output \in Seq(Left) /\ right_output \in Seq(Int)
    /\ Len(left_output) = Cardinality({k \in Selected : k < n})
    /\ Len(right_output) = Len(left_output)
    /\ \A m \in 1 .. Len(left_output) :
        \E k \in Selected : /\ k < n
                           /\ left_output[m] = left_order[k]
                           /\ right_output[m] = call.right_index[selected[k]]
    /\ \A k \in Selected : k < n =>
        \E m \in 1 .. Len(left_output) : left_output[m] = left_order[k]
    /\ \A l, m \in 1 .. Len(left_output) : left_output[l] = left_output[m] => l = m

EmitInv ==
    /\ pc \in Preparing \union {"any"} => left_output = <<>> /\ right_output = <<>>
    /\ pc \in Preparing \union {"any", "emit_any"} => match_count = Cardinality(Selected)
    /\ pc = "emit_any" => EmittedUpTo(row)
    /\ AnyCall => pc # "error"
    /\ AnyCall /\ pc = "done" =>
        EmittedUpTo(LeftLen) /\ Selected = {k \in Left : Reaches(k)}
    /\ AnyCall /\ pc = "none" =>
        \A i \in Left, j \in Right : ~Matches(i, j)

LEMMA EmitInit == Init => EmitInv
<1> SUFFICES ASSUME Init PROVE EmitInv
    OBVIOUS
<1>1. Selected = {}
    BY DEF Init, Selected
<1>2. pc = "first"
    BY DEF Init
<1> QED
    BY <1>1, <1>2, FS_EmptySet DEF Init, EmitInv, AnyCall

LEMMA SelectedFinite ==
    \A S \in SUBSET Selected : IsFiniteSet(S) /\ Cardinality(S) \in Nat
<1>1. Selected \in SUBSET Left
    BY DEF Selected
<1> QED
    BY <1>1, LeftFinite

\* One row of the second pass.
LEMMA EmitAnyEmits ==
    ASSUME PathInv, SweepInv, AnyInv, EmitInv, EmitAny
    PROVE  EmittedUpTo(row)'
<1>1. /\ pc = "emit_any" /\ row \in Left /\ row \in Int
      /\ UNCHANGED <<pathVars, selected>> /\ Selected' = Selected
    BY LengthsAssumption DEF EmitAny, SweepInv, Selected, Left
<1>2. EmittedUpTo(row)
    BY <1>1 DEF EmitInv
<1>3. \A k \in Left : k < row + 1 <=> k < row \/ k = row
    BY <1>1 DEF Left
<1>4. left_order \in Permutations(Left) /\ left_order \in [Left -> Left]
    BY <1>1 DEF PathInv, Ordered, Permutations, Preparing
<1>5. call.right_index \in [Right -> Int]
    BY CallsAssumption DEF PathInv, Call
<1>6. Selected \subseteq Left
    BY DEF Selected
<1>7. CASE selected[row] = None
    <2>1. {k \in Selected : k < row + 1} = {k \in Selected : k < row}
        BY <1>1, <1>3, <1>6, <1>7 DEF Selected
    <2>2. \A k \in Selected : k < row + 1 <=> k < row
        BY <2>1
    <2>3. UNCHANGED outVars /\ row' = row + 1
        BY <1>7 DEF EmitAny
    <2>4. {k \in Selected' : k < row'} = {k \in Selected : k < row}
        BY <1>1, <2>1, <2>3
    <2>5. \A k \in Selected' : k < row' <=> k < row
        BY <1>1, <2>2, <2>3
    <2>6. /\ left_output' = left_output /\ right_output' = right_output
          /\ left_order' = left_order /\ call' = call /\ selected' = selected
        BY <1>1, <2>3 DEF outVars, pathVars
    <2>7. /\ left_output' \in Seq(Left) /\ right_output' \in Seq(Int)
          /\ Len(left_output') = Cardinality({k \in Selected' : k < row'})
          /\ Len(right_output') = Len(left_output')
        BY <1>2, <2>4, <2>6 DEF EmittedUpTo
    <2>8. ASSUME NEW m \in 1 .. Len(left_output')
          PROVE  \E k \in Selected' : /\ k < row'
                                      /\ left_output'[m] = left_order'[k]
                                      /\ right_output'[m] = call'.right_index[selected'[k]]
        <3>1. m \in 1 .. Len(left_output)
            BY <2>6
        <3>2. PICK k \in Selected : /\ k < row /\ left_output[m] = left_order[k]
                                   /\ right_output[m] = call.right_index[selected[k]]
            BY <1>2, <3>1 DEF EmittedUpTo
        <3>3. k \in Selected' /\ k < row'
            BY <1>1, <2>5, <3>2
        <3> QED
            BY <2>6, <3>2, <3>3
    <2>9. ASSUME NEW k \in Selected', k < row'
          PROVE  \E m \in 1 .. Len(left_output') : left_output'[m] = left_order'[k]
        <3>1. k \in Selected /\ k < row
            BY <1>1, <2>5, <2>9
        <3>2. PICK m \in 1 .. Len(left_output) : left_output[m] = left_order[k]
            BY <1>2, <3>1 DEF EmittedUpTo
        <3> QED
            BY <2>6, <3>2
    <2>10. \A l, m \in 1 .. Len(left_output') : left_output'[l] = left_output'[m] => l = m
        BY <1>2, <2>6 DEF EmittedUpTo
    <2> QED
        BY <2>7, <2>8, <2>9, <2>10 DEF EmittedUpTo
<1>8. CASE selected[row] # None
    <2> DEFINE x == left_order[row]
               y == call.right_index[selected[row]]
               n == Len(left_output)
    <2>1. row \in Selected /\ selected[row] \in Right
        BY <1>1, <1>8 DEF Selected, AnyInv
    <2>2. x \in Left /\ y \in Int
        BY <1>1, <1>4, <1>5, <2>1
    <2>3. left_output' = Append(left_output, x) /\ right_output' = Append(right_output, y)
          /\ row' = row + 1
        BY <1>8 DEF EmitAny
    <2>4. n \in Nat /\ Len(right_output) = n
        BY <1>2, LenProperties DEF EmittedUpTo
    <2> HIDE DEF n, x, y
    <2>5. /\ left_output' \in Seq(Left) /\ Len(left_output') = n + 1
          /\ \A m \in 1 .. n : left_output'[m] = left_output[m]
          /\ left_output'[n + 1] = x
        <3>1. left_output \in Seq(Left)
            BY <1>2 DEF EmittedUpTo
        <3> QED
            BY <2>2, <2>3, <3>1, AppendProperties DEF n
    <2>6. /\ right_output' \in Seq(Int) /\ Len(right_output') = n + 1
          /\ \A m \in 1 .. n : right_output'[m] = right_output[m]
          /\ right_output'[n + 1] = y
        <3>1. right_output \in Seq(Int)
            BY <1>2 DEF EmittedUpTo
        <3> QED
            BY <2>2, <2>3, <2>4, <3>1, AppendProperties DEF n
    <2>7. \A m \in 1 .. n + 1 : m \in 1 .. n \/ m = n + 1
        BY <2>4
    <2>8. n + 1 \in 1 .. n + 1 /\ \A m \in 1 .. n : m \in 1 .. n + 1
        BY <2>4
    <2>9. Cardinality({k \in Selected : k < row + 1}) = n + 1
        <3>1. {k \in Selected : k < row + 1} = {k \in Selected : k < row} \union {row}
            BY <1>3, <1>6, <2>1
        <3>2. row \notin {k \in Selected : k < row}
            BY <1>1
        <3>3. /\ IsFiniteSet({k \in Selected : k < row})
              /\ Cardinality({k \in Selected : k < row}) = n
            BY <1>2, SelectedFinite DEF EmittedUpTo, n
        <3> QED
            BY <3>1, <3>2, <3>3, FS_AddElement
    <2>10. ASSUME NEW m \in 1 .. n + 1
           PROVE  \E k \in Selected : /\ k < row + 1
                                      /\ left_output'[m] = left_order[k]
                                      /\ right_output'[m] = call.right_index[selected[k]]
        <3>1. CASE m = n + 1
            <4>1. row < row + 1
                BY <1>1
            <4> QED
                BY <2>1, <2>5, <2>6, <3>1, <4>1 DEF x, y
        <3>2. CASE m \in 1 .. n
            <4>1. PICK k \in Selected : /\ k < row
                                       /\ left_output[m] = left_order[k]
                                       /\ right_output[m] = call.right_index[selected[k]]
                BY <1>2, <3>2 DEF EmittedUpTo, n
            <4> QED
                BY <1>3, <1>6, <2>5, <2>6, <3>2, <4>1
        <3> QED
            BY <2>7, <3>1, <3>2
    <2>11. ASSUME NEW k \in Selected, k < row + 1
           PROVE  \E m \in 1 .. n + 1 : left_output'[m] = left_order[k]
        <3>1. CASE k = row
            BY <2>5, <2>8, <3>1 DEF x
        <3>2. CASE k < row
            <4>1. PICK m \in 1 .. n : left_output[m] = left_order[k]
                BY <1>2, <3>2 DEF EmittedUpTo, n
            <4> QED
                BY <2>5, <2>8, <4>1
        <3> QED
            BY <1>3, <1>6, <2>11, <3>1, <3>2
    <2>12. \A m \in 1 .. n : left_output[m] # x
        <3>1. SUFFICES ASSUME NEW m \in 1 .. n, left_output[m] = x PROVE FALSE
            OBVIOUS
        <3>2. PICK k \in Selected : k < row /\ left_output[m] = left_order[k]
            BY <1>2 DEF EmittedUpTo, n
        <3>3. k \in Left /\ left_order[k] = left_order[row]
            BY <1>6, <3>1, <3>2 DEF x
        <3>4. k = row
            BY <1>1, <1>4, <3>3 DEF Permutations
        <3> QED
            BY <1>1, <3>2, <3>4
    <2>13. ASSUME NEW l \in 1 .. n + 1, NEW m \in 1 .. n + 1, left_output'[l] = left_output'[m]
           PROVE  l = m
        <3>1. CASE l = n + 1 /\ m = n + 1
            BY <3>1
        <3>2. CASE l \in 1 .. n /\ m \in 1 .. n
            BY <1>2, <2>5, <2>13, <3>2 DEF EmittedUpTo, n
        <3>3. CASE (l = n + 1 /\ m \in 1 .. n) \/ (l \in 1 .. n /\ m = n + 1)
            BY <2>5, <2>12, <2>13, <3>3
        <3> QED
            BY <2>7, <3>1, <3>2, <3>3
    <2>14. /\ Len(left_output') = Cardinality({k \in Selected' : k < row'})
           /\ Len(right_output') = Len(left_output')
        BY <1>1, <2>3, <2>5, <2>6, <2>9
    <2>15. \A m \in 1 .. Len(left_output') :
            \E k \in Selected' : /\ k < row'
                                /\ left_output'[m] = left_order'[k]
                                /\ right_output'[m] = call'.right_index[selected'[k]]
        BY <1>1, <2>3, <2>5, <2>10
    <2>16. \A k \in Selected' : k < row' =>
            \E m \in 1 .. Len(left_output') : left_output'[m] = left_order'[k]
        BY <1>1, <2>3, <2>5, <2>11
    <2>17. \A l, m \in 1 .. Len(left_output') : left_output'[l] = left_output'[m] => l = m
        BY <2>5, <2>13
    <2> QED
        BY <2>5, <2>6, <2>14, <2>15, <2>16, <2>17 DEF EmittedUpTo
<1> QED
    BY <1>7, <1>8

\* Nothing was emitted before the second pass begins.
LEMMA NothingEmitted ==
    ASSUME left_output = <<>>, right_output = <<>>
    PROVE  EmittedUpTo(0)
<1>1. {k \in Selected : k < 0} = {}
    BY LengthsAssumption DEF Selected, Left
<1>2. /\ Len(left_output) = 0 /\ Len(right_output) = 0
      /\ left_output \in Seq(Left) /\ right_output \in Seq(Int)
    BY EmptySeq
<1> QED
    BY <1>1, <1>2, FS_EmptySet DEF EmittedUpTo

\* A first pass that selects nothing has seen that nothing matches.
LEMMA NothingSelected ==
    ASSUME PathInv, SweepInv, AnyInv, EmitInv, EndAny, match_count = 0
    PROVE  \A i \in Left, j \in Right : ~Matches(i, j)
<1>1. pc = "any" /\ row = LeftLen
    BY DEF EndAny, Swept
<1>2. Selected = {} /\ Selected = {k \in Left : k < row /\ Reaches(k)}
    BY <1>1, SelectedFinite, FS_EmptySet DEF EmitInv, AnyInv
<1>3. \A k \in Left : ~Reaches(k)
    BY <1>1, <1>2, LengthsAssumption DEF Left
<1>4. left_order \in Permutations(Left)
    BY <1>1 DEF PathInv, Ordered, Preparing
<1> QED
    BY <1>3, <1>4, PermutationIsOnto DEF Reaches

LEMMA CountAnyCounts ==
    ASSUME PathInv, SweepInv, AnyInv, EmitInv, CountAny
    PROVE  match_count' = Cardinality(Selected')
<1>1. pc = "any" /\ row \in Left /\ match_count = Cardinality(Selected)
    BY OpeningKeepsOrder DEF CountAny, Sweeping, Sweeps, Scanning, EmitInv
<1>2. row \notin Selected /\ IsFiniteSet(Selected)
    BY <1>1, SelectedFinite DEF AnyInv, Left
<1>3. CASE Reached
    <2>1. max_right_position' \in Right
        BY <1>3, SelectionIsSound DEF CountAny
    <2>2. selected' = [selected EXCEPT ![row] = max_right_position']
          /\ match_count' = match_count + 1
        BY <1>3 DEF CountAny
    <2>3. Selected' = Selected \union {row}
        BY <1>1, <2>1, <2>2, NoneAssumption DEF Selected, AnyInv, Right
    <2> QED
        BY <1>1, <1>2, <2>2, <2>3, FS_AddElement
<1>4. CASE ~Reached
    BY <1>1, <1>4 DEF CountAny, Selected
<1> QED
    BY <1>3, <1>4

LEMMA EmitNext ==
    ASSUME PathInv, SweepInv, AnyInv, EmitInv, [Next]_vars
    PROVE  EmitInv'
<1>1. CASE BuildFirst \/ BuildSecond \/ OrderLeft
    <2>1. /\ pc \in Preparing /\ pc' \in Preparing /\ Selected' = Selected
          /\ UNCHANGED <<call, match_count, left_output, right_output>>
        <3>1. CASE BuildFirst \/ BuildSecond
            BY <3>1 DEF BuildFirst, BuildSecond, Selected, Preparing
        <3>2. CASE OrderLeft
            <4>1. pc = "order" /\ pc' = "starts" /\ UNCHANGED <<call, passVars>>
                BY <3>2, Zenon DEF OrderLeft
            <4> QED
                BY <4>1 DEF Selected, Preparing
        <3> QED
            BY <1>1, <3>1, <3>2
    <2> QED
        BY <2>1 DEF EmitInv, AnyCall, Preparing
<1>2. CASE FindStarts
    <2>1. /\ pc = "starts" /\ Selected' = Selected
          /\ UNCHANGED <<call, match_count, left_output, right_output>>
          /\ pc' = IF AnyCall THEN "any" ELSE "filter"
        BY <1>2 DEF FindStarts, FirstPass, AnyCall, Selected
    <2> QED
        BY <2>1 DEF EmitInv, AnyCall, Preparing
<1>3. CASE ReturnNone
    <2>1. pc' = "none" /\ UNCHANGED <<call, pathVars>>
        BY <1>3 DEF ReturnNone
    <2>2. \A i \in Left, j \in Right : ~Matches(i, j)'
        BY <1>3, <2>1, EmptyPathsHaveNoMatch DEF Matches
    <2> QED
        BY <2>1, <2>2 DEF EmitInv, AnyCall, Preparing
<1>4. CASE SkipInactive
    BY <1>4 DEF SkipInactive, Sweeps, EmitInv, AnyInv, AnyCall, Selected, Preparing,
        OtherPasses, Filtered
<1>5. CASE CountAny
    <2>1. /\ pc = "any" /\ pc' = "any" /\ UNCHANGED <<call, outVars>>
        BY <1>5, AdvanceKeepsSweep DEF CountAny, Sweeping, Sweeps, Scanning
    <2> QED
        BY <1>5, <2>1, CountAnyCounts DEF EmitInv, AnyCall, Preparing
<1>6. CASE EndAny
    <2>1. /\ pc = "any" /\ pc' = IF match_count = 0 THEN "none" ELSE "emit_any"
          /\ row' = 0 /\ Selected' = Selected
          /\ UNCHANGED <<pathVars, passVars>>
        BY <1>6 DEF EndAny, Swept, Rewind, Selected
    <2>2. left_output = <<>> /\ right_output = <<>> /\ match_count = Cardinality(Selected)
        BY <2>1 DEF EmitInv
    <2>3. CASE match_count = 0
        <3>1. \A i \in Left, j \in Right : ~Matches(i, j)'
            BY <1>6, <2>1, <2>3, NothingSelected DEF Matches
        <3> QED
            BY <2>1, <2>2, <2>3, <3>1 DEF EmitInv, AnyCall, Preparing
    <2>4. CASE match_count # 0
        <3>1. EmittedUpTo(row)'
            BY <2>1, <2>2, NothingEmitted DEF EmittedUpTo
        <3> QED
            BY <2>1, <2>2, <2>4, <3>1 DEF EmitInv, AnyCall, Preparing
    <2> QED
        BY <2>3, <2>4
<1>7. CASE EmitAny
    <2>1. EmittedUpTo(row)'
        BY <1>7, EmitAnyEmits
    <2>2. /\ pc = "emit_any" /\ pc' = pc /\ Selected' = Selected
          /\ UNCHANGED <<call, match_count>>
        BY <1>7 DEF EmitAny, Selected
    <2> QED
        BY <2>1, <2>2 DEF EmitInv, AnyCall, Preparing
<1>8. CASE FinishAny
    <2>1. /\ pc = "emit_any" /\ row = LeftLen /\ Selected' = Selected
          /\ UNCHANGED <<pathVars, passVars>>
        BY <1>8 DEF FinishAny, Swept, Selected
    <2>2. EmittedUpTo(LeftLen) /\ match_count = Cardinality(Selected)
        BY <2>1 DEF EmitInv
    <2>3. {k \in Selected : k < LeftLen} = Selected
        BY LengthsAssumption DEF Selected, Left
    <2>4. pc' = "done"
        BY <1>8, <2>2, <2>3 DEF FinishAny, Compare, EmittedUpTo
    <2>5. EmittedUpTo(LeftLen)'
        BY <2>1, <2>2 DEF EmittedUpTo
    <2>6. Selected' = {k \in Left : Reaches(k)'}
        <3>1. \A k \in Left : Reaches(k)' <=> Reaches(k)
            BY <2>1, ReachesIsStable
        <3>2. Selected = {k \in Left : Reaches(k)}
            BY <2>1 DEF AnyInv
        <3> QED
            BY <2>1, <3>1, <3>2
    <2> QED
        BY <2>1, <2>4, <2>5, <2>6 DEF EmitInv, AnyCall, Preparing
<1>9. CASE LayoutNext \/ AllNext \/ FirstLastNext \/ ResidualNext
    <2>1. pc \in OtherPasses /\ pc' \in OtherPasses \union Closed /\ UNCHANGED pathVars
        BY <1>9, OthersStayOthers
    <2> QED
        BY <2>1 DEF AnyInv, EmitInv, AnyCall, Preparing, OtherPasses, Filtered, Closed
<1>10. CASE UNCHANGED vars
    <2>1. Selected' = Selected /\ \A k \in Left : Reaches(k)' <=> Reaches(k)
        BY <1>10, ReachesIsStable DEF Selected
    <2>2. {k \in Left : Reaches(k)}' = {k \in Left : Reaches(k)}
        BY <2>1
    <2>3. /\ EmittedUpTo(row)' <=> EmittedUpTo(row)
          /\ EmittedUpTo(LeftLen)' <=> EmittedUpTo(LeftLen)
        BY <1>10, <2>1 DEF EmittedUpTo
    <2>4. (\A i \in Left, j \in Right : ~Matches(i, j))'
            <=> \A i \in Left, j \in Right : ~Matches(i, j)
        BY <1>10 DEF Matches
    <2>5. pc' = pc /\ AnyCall' = AnyCall /\ UNCHANGED <<match_count, left_output, right_output>>
        BY <1>10 DEF AnyCall
    <2> QED
        BY <2>1, <2>2, <2>3, <2>4, <2>5 DEF EmitInv
<1> QED
    BY <1>1, <1>2, <1>3, <1>4, <1>5, <1>6, <1>7, <1>8, <1>9, <1>10
        DEF Next, PathsNext, AnyNext

\* What keep="any" returns without residual predicates: no internal error; nothing
\* only if nothing matches; otherwise every left row that has a match exactly once,
\* with a match of its own.
AnyIsAnswered ==
    AnyCall =>
        /\ pc # "error"
        /\ pc = "none" => \A i \in Left, j \in Right : ~Matches(i, j)
        /\ pc = "done" =>
            /\ Len(right_output) = Len(left_output)
            /\ \A m \in 1 .. Len(left_output) :
                \E j \in Right : /\ Matches(left_output[m], j)
                                 /\ right_output[m] = call.right_index[j]
            /\ \A i \in Left : (\E j \in Right : Matches(i, j)) =>
                \E m \in 1 .. Len(left_output) : left_output[m] = i
            /\ \A l, m \in 1 .. Len(left_output) :
                left_output[l] = left_output[m] => l = m

\* A call with keep="any" and no residual predicates returns what AnyIsAnswered says, for every column
\* length, every pair of predicates and every alignment.
THEOREM KeepAnyIsCorrect == Spec => []AnyIsAnswered
<1>1. PathInv /\ SweepInv /\ AnyInv /\ EmitInv /\ [Next]_vars
        => PathInv' /\ SweepInv' /\ AnyInv' /\ EmitInv'
    BY PathNext, SweepNext, AnyInvNext, EmitNext
<1>2. PathInv /\ AnyInv /\ EmitInv => AnyIsAnswered
    <2> SUFFICES ASSUME PathInv, AnyInv, EmitInv, AnyCall, pc = "done"
                 PROVE  /\ \A m \in 1 .. Len(left_output) :
                            \E j \in Right : /\ Matches(left_output[m], j)
                                             /\ right_output[m] = call.right_index[j]
                        /\ \A i \in Left : (\E j \in Right : Matches(i, j)) =>
                            \E m \in 1 .. Len(left_output) : left_output[m] = i
        BY DEF AnyIsAnswered, EmitInv, EmittedUpTo
    <2>1. EmittedUpTo(LeftLen) /\ Selected = {k \in Left : Reaches(k)}
        BY DEF EmitInv
    <2>2. left_order \in Permutations(Left)
        BY DEF PathInv, Ordered, Preparing
    <2>3. ASSUME NEW m \in 1 .. Len(left_output)
          PROVE  \E j \in Right : /\ Matches(left_output[m], j)
                                  /\ right_output[m] = call.right_index[j]
        <3>1. PICK k \in Selected : /\ left_output[m] = left_order[k]
                                    /\ right_output[m] = call.right_index[selected[k]]
            BY <2>1 DEF EmittedUpTo
        <3>2. selected[k] \in Right /\ Matches(left_order[k], selected[k])
            BY DEF AnyInv, Selected
        <3> QED
            BY <3>1, <3>2
    <2>4. ASSUME NEW i \in Left, \E j \in Right : Matches(i, j)
          PROVE  \E m \in 1 .. Len(left_output) : left_output[m] = i
        <3>1. PICK k \in Left : left_order[k] = i
            BY <2>2, PermutationIsOnto
        <3>2. k \in Selected /\ k < LeftLen
            BY <2>1, <2>4, <3>1, LengthsAssumption DEF Reaches, Left
        <3> QED
            BY <2>1, <3>1, <3>2 DEF EmittedUpTo
    <2> QED
        BY <2>3, <2>4
<1> QED
    BY <1>1, <1>2, PathInit, SweepInit, AnyInit, EmitInit, PTL DEF Spec

-----------------------------------------------------------------------------
\* The layout of right positions by label rank.

USE DEF vars, pathVars, sweepVars, filterVars, anyVars, layoutVars, countVars,
        emitVars, outVars, passVars

\* What the windows of the first k search positions open.
OpenBy(k) == {j \in Right : \E i \in Left : i < k /\ starts[i] <= j}

Whole == OpenBy(LeftLen)

Open == previous_end .. RightLen - 1

\* A row's window is open while its ranks are visited.
InRanks == {"count_ranks", "emit_ranks"}

OpenInv ==
    /\ pc \notin Preparing \union {"none"} => LeftLen > 0 /\ RightLen > 0
    /\ pc \in Sweeps => Open = OpenBy(row)
    /\ pc \in InRanks => Open = OpenBy(row + 1)

-----------------------------------------------------------------------------

\* f counts the positions of S by rank.
Tallied(f, S) ==
    /\ f \in [Right -> Nat]
    /\ \A r \in Right : f[r] = Cardinality(OfRank(S, r))

\* The opened positions of ranks below r: their slices lie before that of r.
Below(r) == {j \in Whole : Rank(j) # NoRank /\ Rank(j) < r}

\* The slices of the first n ranks begin where those before them end.
Sliced(n) == \A r \in 0 .. n - 1 : layout_offsets[r] = Cardinality(Below(r))

AllSlots == 0 .. Cardinality(Below(RankCount)) - 1

\* What lies in the first n slots of the slice of a rank.
Prefix(r, n) == {layout_positions[layout_offsets[r] + m] : m \in 0 .. n - 1}

\* Every prefix that a row leaves open is what is open of the rank.
Placed(n) ==
    \A k \in 0 .. n, r \in 0 .. RankCount - 1 :
        Prefix(r, Cardinality(OfRank(OpenBy(k), r))) = OfRank(OpenBy(k), r)

Counting == {"count", "count_ranks", "ask"}
Emitting == {"emit", "emit_ranks", "ask_again"}
LaidOut  == Counting \union Emitting \union {"offsets", "translate", "best", "emit_selected"}

LayoutInv ==
    /\ layout_offsets \in [Right -> Nat]
    /\ pc \in Preparing \union {"filter"} => active_totals = Zero(Right)
    /\ pc \in Preparing \union {"filter", "totals", "slices"} => position_counts = Zero(Right)
    /\ pc \in Preparing \union {"filter", "totals", "slices", "place"} =>
        active_counts = Zero(Right)
    /\ pc = "totals" => Tallied(active_totals, Open)
    /\ pc \in LaidOut \union {"slices", "place"} => Tallied(active_totals, Whole)
    /\ pc = "slices" => rank \in 0 .. RankCount /\ Sliced(rank)
    /\ pc \in LaidOut \union {"place"} => Sliced(RankCount) /\ DOMAIN layout_positions = AllSlots
    /\ pc = "place" => Tallied(position_counts, Open) /\ Placed(row)
    /\ pc \in LaidOut => Placed(LeftLen)
    /\ pc \in Counting \union Emitting => Tallied(active_counts, Open)

-----------------------------------------------------------------------------
\* Counting.

\* Counting the smaller elements numbers a finite set of integers from 0 on.
LEMMA SmallerNumber ==
    ASSUME NEW S \in SUBSET Int, IsFiniteSet(S)
    PROVE  /\ \A j \in S : Cardinality({k \in S : k < j}) \in 0 .. Cardinality(S) - 1
           /\ \A i, j \in S : i < j =>
                Cardinality({k \in S : k < i}) < Cardinality({k \in S : k < j})
           /\ \A n \in 0 .. Cardinality(S) - 1 :
                \E j \in S : Cardinality({k \in S : k < j}) = n
<1> DEFINE c(j) == Cardinality({k \in S : k < j})
           f == [j \in S |-> c(j)]
           N == 0 .. Cardinality(S) - 1
<1>1. Cardinality(S) \in Nat
    BY FS_CardinalityType
<1>2. \A j : IsFiniteSet({k \in S : k < j}) /\ c(j) \in Nat
    BY FS_Subset, FS_CardinalityType
<1>3. ASSUME NEW i \in S, NEW j \in S, i < j PROVE c(i) < c(j)
    <2>1. {k \in S : k < i} \in SUBSET {k \in S : k < j}
        <3>1. \A k \in S : k < i => k < j
            BY <1>3
        <3> QED
            BY <3>1
    <2>2. i \in {k \in S : k < j} /\ i \notin {k \in S : k < i}
        BY <1>3
    <2>3. c(i) <= c(j) /\ c(i) # c(j)
        BY <1>2, <2>1, <2>2, FS_Subset
    <2> QED
        BY <1>2, <2>3
<1>4. ASSUME NEW j \in S PROVE c(j) \in N
    <2>1. {k \in S : k < j} \in SUBSET S /\ j \notin {k \in S : k < j}
        OBVIOUS
    <2>2. c(j) <= Cardinality(S) /\ c(j) # Cardinality(S)
        BY <2>1, FS_Subset
    <2> QED
        BY <1>1, <1>2, <2>2
<1>5. f \in Surjection(S, N)
    <2>1. f \in Injection(S, N)
        <3>1. ASSUME NEW i \in S, NEW j \in S, f[i] = f[j] PROVE i = j
            <4>1. c(i) = c(j) /\ c(i) \in Nat /\ c(j) \in Nat
                BY <1>2, <3>1
            <4>2. ~(i < j) /\ ~(j < i)
                BY <1>3, <4>1
            <4> QED
                BY <4>2
        <3>2. f \in [S -> N]
            BY <1>4
        <3> QED
            BY <3>1, <3>2 DEF Injection, IsInjective
    <2>2. IsFiniteSet(N) /\ Cardinality(N) = Cardinality(S)
        BY <1>1, FS_Interval
    <2> QED
        BY <2>1, <2>2, FS_Injection
<1>6. ASSUME NEW n \in N PROVE \E j \in S : c(j) = n
    BY <1>5 DEF Surjection
<1> QED
    BY <1>3, <1>4, <1>6

-----------------------------------------------------------------------------
\* Ranks.

LEMMA RankTypes ==
    ASSUME PathInv, Ordered
    PROVE  /\ RankCount \in 0 .. RightLen
           /\ \A l \in Nat : RankOf(l) \in 0 .. RankCount
           /\ \A l, m \in Nat : l <= m => RankOf(l) <= RankOf(m)
           /\ \A j \in Right : /\ Rank(j) \in Int
                               /\ Rank(j) # NoRank => Rank(j) \in 0 .. RankCount - 1
<1> DEFINE D == {j \in Right : second.right[j] # 0}
           f == [j \in D |-> second.right[j]]
<1>1. second.right \in [Right -> Nat]
    BY OrderedTypes
<1>2. f \in Surjection(D, Labels)
    BY <1>1 DEF Surjection, Labels
<1>3. IsFiniteSet(D) /\ Cardinality(D) \in 0 .. RightLen
    BY RightFinite
<1>4. IsFiniteSet(Labels) /\ RankCount \in Nat /\ RankCount <= Cardinality(D)
    BY <1>2, <1>3, FS_Surjection, FS_CardinalityType DEF RankCount
<1>5. Labels \in SUBSET Nat
    BY <1>1 DEF Labels
<1> HIDE DEF D, f
<1>6. ASSUME NEW l \in Nat
      PROVE  /\ IsFiniteSet({m \in Labels : m < l}) /\ RankOf(l) \in Nat
             /\ RankOf(l) <= RankCount
             /\ l \in Labels => RankOf(l) # RankCount
    <2>1. {m \in Labels : m < l} \in SUBSET Labels
        OBVIOUS
    <2>2. l \notin {m \in Labels : m < l}
        OBVIOUS
    <2> QED
        BY <1>4, <2>1, <2>2, FS_Subset, FS_CardinalityType DEF RankOf, RankCount
<1>7. ASSUME NEW l \in Nat, NEW m \in Nat, l <= m PROVE RankOf(l) <= RankOf(m)
    <2>1. {n \in Labels : n < l} \in SUBSET {n \in Labels : n < m}
        <3>1. \A n \in Labels : n < l => n < m
            BY <1>5, <1>7
        <3> QED
            BY <3>1
    <2> QED
        BY <1>6, <2>1, FS_Subset DEF RankOf
<1>8. RankCount \in 0 .. RightLen
    BY <1>3, <1>4, LengthsAssumption
<1>9. ASSUME NEW j \in Right
      PROVE  /\ Rank(j) \in Int
             /\ Rank(j) # NoRank => Rank(j) \in 0 .. RankCount - 1
    <2>1. CASE second.right[j] = 0
        BY <2>1 DEF Rank, NoRank
    <2>2. CASE second.right[j] # 0
        <3>1. second.right[j] \in Labels /\ second.right[j] \in Nat
            BY <1>1, <2>2 DEF Labels
        <3>2. Rank(j) = RankOf(second.right[j])
            BY <2>2 DEF Rank
        <3>3. /\ RankOf(second.right[j]) \in Nat
              /\ RankOf(second.right[j]) <= RankCount
              /\ RankOf(second.right[j]) # RankCount
            BY <1>6, <3>1
        <3> QED
            BY <1>4, <3>2, <3>3
    <2> QED
        BY <2>1, <2>2
<1>10. ASSUME NEW l \in Nat PROVE RankOf(l) \in 0 .. RankCount
    <2>1. RankOf(l) \in Nat /\ RankOf(l) <= RankCount
        BY <1>6
    <2> QED
        BY <1>4, <2>1
<1> QED
    BY <1>7, <1>8, <1>9, <1>10

\* The positions of one rank among opened ones are finitely many.
LEMMA OfRankFinite ==
    ASSUME NEW S \in SUBSET Right, NEW r
    PROVE  /\ OfRank(S, r) \in SUBSET Right
           /\ IsFiniteSet(OfRank(S, r))
           /\ Cardinality(OfRank(S, r)) \in 0 .. RightLen
           /\ Cardinality(OfRank(S, r)) \in Nat
<1>1. OfRank(S, r) \in SUBSET Right
    BY DEF OfRank
<1> QED
    BY <1>1, RightFinite, LengthsAssumption

\* Counting what a row opens on top of what was open counts what is open then.
LEMMA TallyGrows ==
    ASSUME NEW f, NEW S \in SUBSET Right, NEW T \in SUBSET Right, S \cap T = {}, Tallied(f, S)
    PROVE  Tallied([r \in Right |-> f[r] + Cardinality(OfRank(T, r))], S \union T)
<1>1. ASSUME NEW r
      PROVE  Cardinality(OfRank(S \union T, r))
                = Cardinality(OfRank(S, r)) + Cardinality(OfRank(T, r))
    <2>1. /\ OfRank(S \union T, r) = OfRank(S, r) \union OfRank(T, r)
          /\ OfRank(S, r) \cap OfRank(T, r) = {}
        BY DEF OfRank
    <2> QED
        BY <2>1, OfRankFinite, DisjointUnion
<1>2. \A r : Cardinality(OfRank(S \union T, r)) \in Nat
    BY OfRankFinite
<1> QED
    BY <1>1, <1>2 DEF Tallied

LEMMA NothingTallied == Tallied(Zero(Right), {})
<1>1. \A r : OfRank({}, r) = {}
    BY DEF OfRank
<1> QED
    BY <1>1, FS_EmptySet DEF Tallied, Zero

-----------------------------------------------------------------------------
\* What is open.

LEMMA OpenIsStable ==
    ASSUME UNCHANGED pathVars
    PROVE  /\ \A k : OpenBy(k)' = OpenBy(k)
           /\ Whole' = Whole /\ RankCount' = RankCount /\ Labels' = Labels
           /\ \A j : Rank(j)' = Rank(j)
           /\ \A S, r : OfRank(S, r)' = OfRank(S, r)
           /\ \A r : Below(r)' = Below(r)
<1>1. /\ \A k : OpenBy(k)' = OpenBy(k)
      /\ Whole' = Whole /\ RankCount' = RankCount /\ Labels' = Labels
      /\ \A j : Rank(j)' = Rank(j)
    BY DEF OpenBy, Whole, RankCount, Labels, Rank, RankOf
<1>2. \A S, r : OfRank(S, r)' = OfRank(S, r)
    BY <1>1 DEF OfRank
<1>3. \A r : Below(r)' = Below(r)
    BY <1>1 DEF Below
<1> QED
    BY <1>1, <1>2, <1>3

LEMMA OpenTypes ==
    ASSUME SweepInv
    PROVE  /\ Open \in SUBSET Right
           /\ \A k : OpenBy(k) \in SUBSET Right
           /\ \A k, n \in Int : k <= n => OpenBy(k) \in SUBSET OpenBy(n)
<1>1. Open \in SUBSET Right
    BY LengthsAssumption DEF SweepInv, Open, Right
<1>2. ASSUME NEW k \in Int, NEW n \in Int, k <= n PROVE OpenBy(k) \in SUBSET OpenBy(n)
    <2>1. \A i \in Left : i < k => i < n
        BY <1>2, LengthsAssumption DEF Left
    <2> QED
        BY <2>1 DEF OpenBy
<1> QED
    BY <1>1, <1>2 DEF OpenBy

\* Opening a row's window adds what the row opens and nothing that was open.
LEMMA OpeningAdds ==
    ASSUME PathInv, SweepInv, OpenInv, pc \in Sweeps, row < LeftLen, ~Inactive
    PROVE  /\ Opened \in SUBSET Right /\ Open \in SUBSET Right
           /\ Open \cap Opened = {}
           /\ OpenBy(row + 1) = Open \union Opened
           /\ OpenBy(row + 1) = starts[row] .. RightLen - 1
           /\ OpenBy(row + 1) \in SUBSET Whole
<1>1. /\ row \in Left /\ row \in Int /\ row + 1 <= LeftLen
      /\ starts[row] \in 0 .. RightLen /\ starts[row] <= previous_end
      /\ previous_end \in 0 .. RightLen
    BY OpeningKeepsOrder, LengthsAssumption DEF Left, SweepInv
<1>2. Open = OpenBy(row)
    BY DEF OpenInv
<1>3. \A i \in Left : i < row + 1 <=> i < row \/ i = row
    BY <1>1 DEF Left
<1>4. \A j \in Right : (\E i \in Left : i < row + 1 /\ starts[i] <= j)
                        <=> j \in OpenBy(row) \/ starts[row] <= j
    BY <1>1, <1>3 DEF OpenBy
<1>5. \A j \in Right : j \in Open <=> previous_end <= j
    BY <1>1, LengthsAssumption DEF Open, Right
<1>6. \A j \in Right : j \in Opened <=> starts[row] <= j /\ j < previous_end
    BY <1>1, LengthsAssumption DEF Opened, Right
<1>7. Opened \in SUBSET Right /\ Open \in SUBSET Right /\ Open \cap Opened = {}
    BY <1>1, LengthsAssumption DEF Open, Opened, Right
<1>8. \A j \in Right : j \in OpenBy(row + 1) <=> starts[row] <= j
    <2>1. \A j \in Right : j \in OpenBy(row + 1) <=> j \in Open \/ starts[row] <= j
        BY <1>2, <1>4 DEF OpenBy
    <2> QED
        BY <1>1, <1>5, <2>1, LengthsAssumption DEF Right
<1>9. OpenBy(row + 1) = starts[row] .. RightLen - 1
    <2>1. OpenBy(row + 1) \in SUBSET Right
        BY DEF OpenBy
    <2>2. \A j \in Right : j \in starts[row] .. RightLen - 1 <=> starts[row] <= j
        BY <1>1, LengthsAssumption DEF Right
    <2>3. starts[row] .. RightLen - 1 \in SUBSET Right
        BY <1>1, LengthsAssumption DEF Right
    <2> QED
        BY <1>8, <2>1, <2>2, <2>3
<1>10. starts[row] .. RightLen - 1 = Open \union Opened
    BY <1>1, LengthsAssumption DEF Open, Opened
<1>11. OpenBy(row + 1) \in SUBSET Whole
    BY <1>1, OpenTypes, LengthsAssumption DEF Whole
<1> QED
    BY <1>7, <1>9, <1>10, <1>11

LEMMA SkippingAddsNothing ==
    ASSUME PathInv, SweepInv, SkipInactive
    PROVE  OpenBy(row + 1) = OpenBy(row)
<1>1. row \in Left /\ starts[row] = RightLen
    BY SkippedRow DEF SkipInactive, Inactive
<1>2. \A i \in Left : i < row + 1 <=> i < row \/ i = row
    BY <1>1 DEF Left
<1>3. \A j \in Right : ~(starts[row] <= j)
    BY <1>1, LengthsAssumption DEF Right
<1> QED
    BY <1>2, <1>3 DEF OpenBy

LEMMA OpenInit == Init => OpenInv
    BY DEF Init, OpenInv, Preparing, Sweeps, InRanks

\* An active row of any pass, whichever loop follows it.
LEMMA AdvanceKeepsOpen ==
    ASSUME PathInv, SweepInv, OpenInv, NEW pass \in Sweeps, NEW next \in Scanning,
           Sweeping(pass), Advance(next), UNCHANGED pathVars,
           \/ row' = row + 1 /\ next \in Sweeps
           \/ row' = row /\ next \in InRanks
    PROVE  OpenInv'
<1>1. pc \in Sweeps /\ row < LeftLen /\ ~Inactive
    BY DEF Sweeping
<1>2. pc' = next
    BY AdvanceKeepsSweep DEF Sweeps, InRanks
<1>3. previous_end' = starts[row]
    BY DEF Advance
<1>4. OpenBy(row + 1) = starts[row] .. RightLen - 1
    BY <1>1, OpeningAdds
<1>5. Open' = OpenBy(row + 1)
    BY <1>3, <1>4 DEF Open
<1>6. \A k : OpenBy(k)' = OpenBy(k)
    BY OpenIsStable
<1>7. OpenBy(row)' = OpenBy(row') /\ OpenBy(row + 1)' = OpenBy(row' + 1)
    BY DEF OpenBy
<1>8. LeftLen > 0 /\ RightLen > 0
    BY <1>1 DEF OpenInv, Sweeps, Preparing
<1> QED
    BY <1>2, <1>5, <1>7, <1>8 DEF OpenInv, Sweeps, InRanks

LEMMA NothingOpen == OpenBy(0) = {} /\ RightLen .. RightLen - 1 = {}
    BY LengthsAssumption DEF OpenBy, Left

LEMMA RewindKeepsOpen ==
    ASSUME OpenInv, Rewind, pc \notin Preparing \union {"none"}, pc' \notin InRanks
    PROVE  OpenInv'
<1>1. LeftLen > 0 /\ RightLen > 0
    BY DEF OpenInv
<1>2. Open' = {}
    BY NothingOpen DEF Rewind, Open
<1>3. OpenBy(row)' = {}
    BY NothingOpen, LengthsAssumption DEF Rewind, OpenBy, Left
<1> QED
    BY <1>1, <1>2, <1>3 DEF OpenInv

LEMMA OpenNext ==
    ASSUME PathInv, SweepInv, OpenInv, [Next]_vars
    PROVE  OpenInv'
<1>1. CASE BuildFirst \/ BuildSecond \/ OrderLeft \/ ReturnNone
    BY <1>1 DEF BuildFirst, BuildSecond, OrderLeft, ReturnNone, OpenInv, Preparing,
        Sweeps, InRanks
<1>2. CASE FindStarts
    <2>1. Ordered /\ row = 0 /\ previous_end = RightLen
        BY <1>2 DEF FindStarts, PathInv, SweepInv, Preparing
    <2>2. PICK i \in Left : StartOf(i) < RightLen
        BY <1>2 DEF FindStarts
    <2>3. LeftLen > 0 /\ RightLen > 0
        BY <2>1, <2>2, StartIsExact, LengthsAssumption DEF Left
    <2>4. Open' = {} /\ OpenBy(row)' = {}
        BY <1>2, <2>1, NothingOpen, LengthsAssumption DEF FindStarts, Open, OpenBy, Left
    <2>5. pc' \notin InRanks
        BY <1>2 DEF FindStarts, FirstPass, InRanks
    <2> QED
        BY <2>3, <2>4, <2>5 DEF OpenInv
<1>3. CASE SkipInactive
    <2>1. OpenBy(row)' = OpenBy(row)
        BY <1>3, SkippingAddsNothing, OpenIsStable DEF SkipInactive, OpenBy
    <2>2. Open' = Open /\ pc' = pc /\ pc \in Sweeps
        BY <1>3 DEF SkipInactive, Open
    <2> QED
        BY <2>1, <2>2 DEF OpenInv, Sweeps, InRanks
<1>4. CASE AnyNext
    <2>1. CASE CountAny
        <3>1. "any" \in Sweeps /\ "any" \in Scanning
            BY DEF Sweeps, Scanning
        <3> QED
            BY <2>1, <3>1, AdvanceKeepsOpen DEF CountAny
    <2>2. CASE EndAny
        BY <2>2, RewindKeepsOpen DEF EndAny, Swept, Preparing, InRanks
    <2>3. CASE EmitAny \/ FinishAny
        BY <2>3 DEF EmitAny, FinishAny, Swept, Compare, OpenInv, Preparing, Sweeps, InRanks
    <2> QED
        BY <1>4, <2>1, <2>2, <2>3 DEF AnyNext
<1>5. CASE LayoutNext
    <2>1. CASE FilterRow \/ TotalRow \/ PlaceRow
        <3>1. {"filter", "totals", "place"} \subseteq Sweeps \cap Scanning
            BY DEF Sweeps, Scanning
        <3> QED
            BY <2>1, <3>1, AdvanceKeepsOpen DEF FilterRow, TotalRow, PlaceRow
    <2>2. CASE EndFilter \/ EndOffsets \/ EndPlace
        BY <2>2, RewindKeepsOpen DEF EndFilter, EndOffsets, EndPlace, Swept, Preparing, InRanks
    <2>3. CASE EndTotals \/ OffsetRank
        BY <2>3 DEF EndTotals, OffsetRank, Swept, OpenInv, Preparing, Sweeps, InRanks
    <2> QED
        BY <1>5, <2>1, <2>2, <2>3 DEF LayoutNext
<1>6. CASE AllNext
    <2>1. CASE CountRow \/ EmitRow
        <3>1. /\ {"count", "emit"} \subseteq Sweeps \cap Scanning
              /\ {"count_ranks", "emit_ranks"} \subseteq Scanning \cap InRanks
            BY DEF Sweeps, Scanning, InRanks
        <3> QED
            BY <2>1, <3>1, AdvanceKeepsOpen DEF CountRow, EmitRow
    <2>2. CASE EndCountRanks \/ EndEmitRanks
        <3>1. /\ pc \in InRanks /\ row' = row + 1 /\ UNCHANGED <<pathVars, previous_end>>
              /\ pc' \in Sweeps \union {"error"} /\ pc \notin Preparing /\ pc # "none"
            BY <2>2 DEF EndCountRanks, EndEmitRanks, InRanks, Sweeps, Preparing
        <3>2. Open' = Open /\ OpenBy(row)' = OpenBy(row + 1)
            BY <3>1 DEF Open, OpenBy
        <3> QED
            BY <3>1, <3>2 DEF OpenInv, InRanks, Sweeps
    <2>3. CASE CountRank \/ EmitRank
        <3>1. /\ pc \in InRanks /\ pc' = pc /\ UNCHANGED <<pathVars, row, previous_end>>
            BY <2>3 DEF CountRank, EmitRank, InRanks
        <3>2. Open' = Open /\ OpenBy(row + 1)' = OpenBy(row + 1)
            BY <3>1 DEF Open, OpenBy
        <3> QED
            BY <3>1, <3>2 DEF OpenInv, InRanks, Sweeps
    <2>4. CASE EndCount \/ EndOffsetRows \/ EndEmit
        BY <2>4, RewindKeepsOpen DEF EndCount, EndOffsetRows, EndEmit, Swept, Preparing, InRanks
    <2>5. CASE OffsetRow \/ Translate \/ FinishAll
        BY <2>5 DEF OffsetRow, Translate, FinishAll, Swept, OpenInv, Preparing, Sweeps, InRanks
    <2> QED
        BY <1>6, <2>1, <2>2, <2>3, <2>4, <2>5 DEF AllNext
<1>7. CASE FirstLastNext
    <2>1. CASE EmitBest
        <3>1. "best" \in Sweeps /\ "best" \in Scanning
            BY DEF Sweeps, Scanning
        <3> QED
            BY <2>1, <3>1, AdvanceKeepsOpen DEF EmitBest
    <2>2. CASE FinishBest
        BY <2>2 DEF FinishBest, Compare, Swept, OpenInv, Preparing, Sweeps, InRanks
    <2> QED
        BY <1>7, <2>1, <2>2 DEF FirstLastNext
<1>8. CASE ResidualNext
    <2>1. CASE AskRow \/ AskAgainRow
        <3>1. {"ask", "ask_again"} \subseteq Sweeps \cap Scanning
            BY DEF Sweeps, Scanning
        <3> QED
            BY <2>1, <3>1, AdvanceKeepsOpen DEF AskRow, AskAgainRow
    <2>2. CASE EndAsk
        BY <2>2, RewindKeepsOpen DEF EndAsk, Swept, Preparing, InRanks
    <2>3. CASE EmitSelected \/ FinishSelected \/ FinishAsk
        BY <2>3 DEF EmitSelected, FinishSelected, FinishAsk, Compare, Swept, OpenInv,
            Preparing, Sweeps, InRanks
    <2> QED
        BY <1>8, <2>1, <2>2, <2>3 DEF ResidualNext
<1>9. CASE UNCHANGED vars
    BY <1>9 DEF OpenInv, Open, OpenBy
<1> QED
    BY <1>1, <1>2, <1>3, <1>4, <1>5, <1>6, <1>7, <1>8, <1>9 DEF Next, PathsNext

-----------------------------------------------------------------------------
\* Slices.

LEMMA LayoutIsStable ==
    ASSUME UNCHANGED pathVars, UNCHANGED layoutVars
    PROVE  /\ \A n : Sliced(n)' <=> Sliced(n)
           /\ AllSlots' = AllSlots
           /\ \A n : Placed(n)' <=> Placed(n)
           /\ Tallied(active_totals, Whole)' <=> Tallied(active_totals, Whole)
<1>1. (\A n : Sliced(n)' <=> Sliced(n)) /\ AllSlots' = AllSlots
    BY OpenIsStable DEF Sliced, AllSlots
<1>2. \A n : Placed(n)' <=> Placed(n)
    <2>1. \A k, r : OfRank(OpenBy(k), r)' = OfRank(OpenBy(k), r)
        BY OpenIsStable DEF OfRank
    <2>2. \A r, n : Prefix(r, n)' = Prefix(r, n)
        BY DEF Prefix
    <2> QED
        BY <2>1, <2>2, OpenIsStable DEF Placed
<1>3. \A r : OfRank(Whole, r)' = OfRank(Whole, r)
    BY OpenIsStable DEF OfRank
<1> QED
    BY <1>1, <1>2, <1>3 DEF Tallied

LEMMA BelowFinite ==
    ASSUME NEW r
    PROVE  /\ Below(r) \in SUBSET Right
           /\ IsFiniteSet(Below(r)) /\ Cardinality(Below(r)) \in 0 .. RightLen
           /\ Cardinality(Below(r)) \in Nat
<1>1. Below(r) \in SUBSET Right
    BY DEF Below, Whole, OpenBy
<1> QED
    BY <1>1, RightFinite, LengthsAssumption

\* The slice of a rank ends where that of the next begins.
LEMMA SlicesAdjoin ==
    ASSUME PathInv, Ordered, NEW r \in Nat
    PROVE  Cardinality(Below(r + 1)) = Cardinality(Below(r)) + Cardinality(OfRank(Whole, r))
<1>1. \A j \in Whole : Rank(j) \in Int
    BY RankTypes DEF Whole, OpenBy
<1>2. Below(r + 1) = Below(r) \union OfRank(Whole, r)
    BY <1>1 DEF Below, OfRank, NoRank
<1>3. Below(r) \cap OfRank(Whole, r) = {}
    BY DEF Below, OfRank
<1>4. IsFiniteSet(Below(r)) /\ IsFiniteSet(OfRank(Whole, r))
    BY BelowFinite, OfRankFinite DEF Whole, OpenBy
<1> QED
    BY <1>2, <1>3, <1>4, DisjointUnion

\* Slices of different ranks share no slot.
LEMMA SlicesAreApart ==
    ASSUME PathInv, Ordered, NEW r \in Nat, NEW s \in Nat, r < s
    PROVE  Cardinality(Below(r)) + Cardinality(OfRank(Whole, r)) <= Cardinality(Below(s))
<1>1. \A j \in Whole : Rank(j) \in Int
    BY RankTypes DEF Whole, OpenBy
<1>2. Below(r + 1) \in SUBSET Below(s)
    BY <1>1 DEF Below
<1>3. Cardinality(Below(r + 1)) <= Cardinality(Below(s))
    BY <1>2, BelowFinite, FS_Subset
<1> QED
    BY <1>3, SlicesAdjoin

LEMMA OffsetIsNext ==
    ASSUME PathInv, Ordered, Tallied(active_totals, Whole), rank \in 0 .. RankCount, Sliced(rank)
    PROVE  PositionTotal = Cardinality(Below(rank))
<1>0. RankCount \in 0 .. RightLen
    BY RankTypes
<1>1. CASE rank = 0
    <2>1. \A j \in Whole : Rank(j) # NoRank => Rank(j) \in 0 .. RankCount - 1
        BY RankTypes DEF Whole, OpenBy
    <2>2. Below(rank) = {}
        BY <1>0, <1>1, <2>1 DEF Below
    <2> QED
        BY <1>1, <2>2, FS_EmptySet DEF PositionTotal
<1>2. CASE rank # 0
    <2>1. rank - 1 \in 0 .. rank - 1 /\ rank - 1 \in Right /\ rank - 1 \in Nat
        BY <1>0, <1>2, LengthsAssumption DEF Right
    <2>2. Cardinality(Below((rank - 1) + 1))
            = Cardinality(Below(rank - 1)) + Cardinality(OfRank(Whole, rank - 1))
        BY <2>1, SlicesAdjoin
    <2>3. (rank - 1) + 1 = rank
        BY <1>0
    <2>4. /\ layout_offsets[rank - 1] = Cardinality(Below(rank - 1))
          /\ active_totals[rank - 1] = Cardinality(OfRank(Whole, rank - 1))
        BY <2>1 DEF Sliced, Tallied
    <2> QED
        BY <1>2, <2>2, <2>3, <2>4 DEF PositionTotal
<1> QED
    BY <1>1, <1>2

\* A slice lies among the slots, and so does a slot of a slice in it alone.
LEMMA SlicesFit ==
    ASSUME PathInv, Ordered, Sliced(RankCount)
    PROVE  /\ \A r \in 0 .. RankCount - 1 :
                \A m \in 0 .. Cardinality(OfRank(Whole, r)) - 1 :
                    layout_offsets[r] + m \in AllSlots
           /\ \A r, s \in 0 .. RankCount - 1 :
                \A m \in 0 .. Cardinality(OfRank(Whole, r)) - 1,
                   n \in 0 .. Cardinality(OfRank(Whole, s)) - 1 :
                    layout_offsets[r] + m = layout_offsets[s] + n => r = s
<1>1. RankCount \in Nat
    BY RankTypes, LengthsAssumption
<1>2. \A r : Cardinality(OfRank(Whole, r)) \in Nat /\ Cardinality(Below(r)) \in Nat
    BY BelowFinite, OfRankFinite DEF Whole, OpenBy
<1>3. \A r \in 0 .. RankCount - 1 : layout_offsets[r] = Cardinality(Below(r))
    BY DEF Sliced
<1>4. \A r \in 0 .. RankCount - 1 :
        Cardinality(Below(r)) + Cardinality(OfRank(Whole, r)) <= Cardinality(Below(RankCount))
    BY <1>1, SlicesAreApart
<1>5. ASSUME NEW r \in 0 .. RankCount - 1, NEW m \in 0 .. Cardinality(OfRank(Whole, r)) - 1
      PROVE  layout_offsets[r] + m \in AllSlots
    BY <1>2, <1>3, <1>4 DEF AllSlots
<1>6. ASSUME NEW r \in 0 .. RankCount - 1, NEW s \in 0 .. RankCount - 1, r < s,
             NEW m \in 0 .. Cardinality(OfRank(Whole, r)) - 1,
             NEW n \in 0 .. Cardinality(OfRank(Whole, s)) - 1
      PROVE  layout_offsets[r] + m # layout_offsets[s] + n
    <2>1. Cardinality(Below(r)) + Cardinality(OfRank(Whole, r)) <= Cardinality(Below(s))
        BY <1>1, <1>6, SlicesAreApart
    <2> QED
        BY <1>2, <1>3, <2>1
<1>7. ASSUME NEW r \in 0 .. RankCount - 1, NEW s \in 0 .. RankCount - 1,
             NEW m \in 0 .. Cardinality(OfRank(Whole, r)) - 1,
             NEW n \in 0 .. Cardinality(OfRank(Whole, s)) - 1,
             layout_offsets[r] + m = layout_offsets[s] + n
      PROVE  r = s
    <2>1. ~(r < s) /\ ~(s < r)
        BY <1>6, <1>7
    <2> QED
        BY <1>1, <2>1
<1> QED
    BY <1>5, <1>7

\* Placing a row's positions extends every slice by what the row opens of its
\* rank, in place after what earlier rows opened.
LEMMA PlacingExtends ==
    ASSUME PathInv, SweepInv, OpenInv, PlaceRow, layout_offsets \in [Right -> Nat],
           Sliced(RankCount), DOMAIN layout_positions = AllSlots,
           Tallied(position_counts, Open), Placed(row)
    PROVE  Placed(row)'
<1> DEFINE o(r) == Cardinality(OfRank(Open, r))
           w(r) == Cardinality(OfRank(Opened, r))
           c(j) == Cardinality({k \in OfRank(Opened, Rank(j)) : k < j})
           Ranked == {j \in Opened : Rank(j) # NoRank}
           Ranks == 0 .. RankCount - 1
<1>1. /\ pc \in Sweeps /\ row < LeftLen /\ ~Inactive /\ row \in Left
      /\ Ordered /\ UNCHANGED pathVars
    BY OpeningKeepsOrder DEF PlaceRow, Sweeping, Sweeps, PathInv, Preparing
<1>2. /\ Opened \in SUBSET Right /\ Open \in SUBSET Right /\ Open \cap Opened = {}
      /\ OpenBy(row + 1) = Open \union Opened /\ OpenBy(row + 1) \in SUBSET Whole
      /\ Open = OpenBy(row)
    BY <1>1, OpeningAdds DEF OpenInv
<1>3. RankCount \in 0 .. RightLen /\ Ranks \in SUBSET Right /\ Ranks \in SUBSET Nat
    <2>1. RankCount \in 0 .. RightLen
        BY <1>1, RankTypes
    <2> QED
        BY <2>1, LengthsAssumption DEF Right
<1>4. \A r : o(r) \in Nat /\ w(r) \in Nat /\ Cardinality(OfRank(Whole, r)) \in Nat
    BY <1>2, OfRankFinite DEF Whole, OpenBy
<1>5. \A r : o(r) + w(r) = Cardinality(OfRank(OpenBy(row + 1), r))
    <2>1. ASSUME NEW r PROVE o(r) + w(r) = Cardinality(OfRank(OpenBy(row + 1), r))
        <3>1. /\ OfRank(OpenBy(row + 1), r) = OfRank(Open, r) \union OfRank(Opened, r)
              /\ OfRank(Open, r) \cap OfRank(Opened, r) = {}
            BY <1>2 DEF OfRank
        <3>2. IsFiniteSet(OfRank(Open, r)) /\ IsFiniteSet(OfRank(Opened, r))
            BY <1>2, OfRankFinite
        <3> QED
            BY <3>1, <3>2, DisjointUnion
    <2> QED
        BY <2>1
<1>6. \A r : o(r) + w(r) <= Cardinality(OfRank(Whole, r))
    <2>1. ASSUME NEW r PROVE o(r) + w(r) <= Cardinality(OfRank(Whole, r))
        <3>1. OfRank(OpenBy(row + 1), r) \in SUBSET OfRank(Whole, r)
            BY <1>2 DEF OfRank
        <3>2. IsFiniteSet(OfRank(Whole, r))
            BY OfRankFinite DEF Whole, OpenBy
        <3>3. Cardinality(OfRank(OpenBy(row + 1), r)) <= Cardinality(OfRank(Whole, r))
            BY <3>1, <3>2, FS_Subset
        <3> QED
            BY <1>5, <3>3
    <2> QED
        BY <2>1
<1>7. \A r \in Ranks : position_counts[r] = o(r) /\ layout_offsets[r] \in Nat
    BY <1>3 DEF Tallied
<1>8. ASSUME NEW r \in Ranks
      PROVE  /\ \A j \in OfRank(Opened, r) : c(j) \in 0 .. w(r) - 1
             /\ \A i, j \in OfRank(Opened, r) : i < j => c(i) < c(j)
             /\ \A n \in 0 .. w(r) - 1 : \E j \in OfRank(Opened, r) : c(j) = n
    <2>1. OfRank(Opened, r) \in SUBSET Int /\ IsFiniteSet(OfRank(Opened, r))
        <3>1. OfRank(Opened, r) \in SUBSET Right /\ IsFiniteSet(OfRank(Opened, r))
            BY <1>2, OfRankFinite
        <3>2. Right \in SUBSET Int
            BY LengthsAssumption DEF Right
        <3> QED
            BY <3>1, <3>2
    <2>2. \A j \in OfRank(Opened, r) : Rank(j) = r
        BY DEF OfRank
    <2> QED
        BY <2>1, <2>2, SmallerNumber
<1>9. \A r \in Ranks : \A j \in OfRank(Opened, r) :
        /\ j \in Ranked /\ Rank(j) = r /\ j \in Int
        /\ Place(j) = layout_offsets[r] + (o(r) + c(j))
    <2>1. ASSUME NEW r \in Ranks, NEW j \in OfRank(Opened, r)
          PROVE  /\ j \in Ranked /\ Rank(j) = r /\ j \in Int
                 /\ Place(j) = layout_offsets[r] + (o(r) + c(j))
        <3>1. j \in Ranked /\ Rank(j) = r /\ j \in Int
            BY <1>2, <1>3, LengthsAssumption DEF OfRank, NoRank, Right
        <3>2. Place(j) = layout_offsets[r] + o(r) + c(j)
            BY <1>7, <3>1 DEF Place
        <3>3. c(j) \in Nat
            BY <1>4, <1>8
        <3> QED
            BY <1>4, <1>7, <3>1, <3>2, <3>3
    <2> QED
        BY <2>1
<1>10. \A j \in Ranked : Rank(j) \in Ranks /\ j \in OfRank(Opened, Rank(j))
    BY <1>1, <1>2, RankTypes DEF OfRank
<1> HIDE DEF o, w, c, Ranked, Ranks
<1>11. \A r \in Ranks, m \in Int : 0 <= m /\ m < o(r) + w(r) =>
            m \in 0 .. Cardinality(OfRank(Whole, r)) - 1
    BY <1>4, <1>6
<1>12. \A r, s \in Ranks, m, n \in Int :
            /\ 0 <= m /\ m < o(r) + w(r) /\ 0 <= n /\ n < o(s) + w(s)
            /\ layout_offsets[r] + m = layout_offsets[s] + n
            => r = s
    BY <1>1, <1>11, SlicesFit DEF Ranks
<1>13. \A r \in Ranks, m \in Int :
            0 <= m /\ m < o(r) + w(r) => layout_offsets[r] + m \in DOMAIN layout_positions
    BY <1>1, <1>11, SlicesFit DEF Ranks
<1>14. \A r \in Ranks : \A j \in OfRank(Opened, r) :
            o(r) + c(j) \in Int /\ o(r) <= o(r) + c(j) /\ o(r) + c(j) < o(r) + w(r)
    BY <1>4, <1>8
<1>15. ASSUME NEW r \in Ranks, NEW m \in Int, 0 <= m, m < o(r) + w(r),
              NEW j \in Ranked, Place(j) = layout_offsets[r] + m
       PROVE  j \in OfRank(Opened, r) /\ m = o(r) + c(j)
    <2>1. Rank(j) \in Ranks /\ j \in OfRank(Opened, Rank(j))
        BY <1>10
    <2>2. layout_offsets[r] + m = layout_offsets[Rank(j)] + (o(Rank(j)) + c(j))
        BY <1>9, <1>15, <2>1
    <2>3. Rank(j) = r
        BY <1>4, <1>12, <1>14, <1>15, <2>1, <2>2
    <2>4. o(r) + c(j) \in Int /\ layout_offsets[r] \in Nat
        BY <1>7, <1>14, <2>1, <2>3
    <2> QED
        BY <2>1, <2>2, <2>3, <2>4
<1>16. \A p \in DOMAIN layout_positions :
        layout_positions'[p] =
            IF \E j \in Ranked : Place(j) = p
            THEN CHOOSE j \in Opened : Rank(j) # NoRank /\ Place(j) = p
            ELSE layout_positions[p]
    BY DEF PlaceRow, Ranked
<1>17. ASSUME NEW r \in Ranks, NEW m \in 0 .. o(r) - 1
       PROVE  layout_positions'[layout_offsets[r] + m] = layout_positions[layout_offsets[r] + m]
    <2>1. m \in Int /\ 0 <= m /\ m < o(r) /\ m < o(r) + w(r)
        BY <1>4
    <2>2. ~ \E j \in Ranked : Place(j) = layout_offsets[r] + m
        BY <1>4, <1>14, <1>15, <2>1
    <2> QED
        BY <1>13, <1>16, <2>1, <2>2
<1>18. ASSUME NEW r \in Ranks, NEW j \in OfRank(Opened, r)
       PROVE  layout_positions'[layout_offsets[r] + (o(r) + c(j))] = j
    <2> DEFINE m == o(r) + c(j)
               p == layout_offsets[r] + m
               i == CHOOSE i \in Opened : Rank(i) # NoRank /\ Place(i) = p
    <2>1. m \in Int /\ 0 <= m /\ m < o(r) + w(r) /\ p \in DOMAIN layout_positions
        BY <1>4, <1>13, <1>14
    <2>2. j \in Ranked /\ Place(j) = p
        BY <1>9
    <2>3. i \in Ranked /\ Place(i) = p
        BY <2>2 DEF Ranked
    <2>4. layout_positions'[p] = i
        BY <1>16, <2>1, <2>2
    <2> HIDE DEF i
    <2>5. i \in OfRank(Opened, r) /\ m = o(r) + c(i)
        BY <1>15, <2>1, <2>3
    <2>6. c(i) = c(j) /\ i \in Int /\ j \in Int /\ c(i) \in Int
        BY <1>4, <1>8, <1>9, <2>5
    <2>7. ~(i < j) /\ ~(j < i)
        BY <1>8, <2>5, <2>6
    <2> QED
        BY <2>4, <2>6, <2>7
<1> DEFINE After(r, n) == {layout_positions'[layout_offsets[r] + m] : m \in 0 .. n - 1}
<1>19. ASSUME NEW k \in 0 .. row, NEW r \in Ranks
       PROVE  After(r, Cardinality(OfRank(OpenBy(k), r))) = OfRank(OpenBy(k), r)
    <2>1. Prefix(r, Cardinality(OfRank(OpenBy(k), r))) = OfRank(OpenBy(k), r)
        BY DEF Placed, Ranks
    <2>2. Cardinality(OfRank(OpenBy(k), r)) <= o(r)
          /\ Cardinality(OfRank(OpenBy(k), r)) \in Nat
        <3>1. OpenBy(k) \in SUBSET Open /\ OpenBy(k) \in SUBSET Right
            BY <1>1, <1>2, OpenTypes DEF SweepInv
        <3>2. OfRank(OpenBy(k), r) \in SUBSET OfRank(Open, r)
            BY <3>1 DEF OfRank
        <3> QED
            BY <1>2, <3>1, <3>2, OfRankFinite, FS_Subset DEF o
    <2>3. \A m \in 0 .. Cardinality(OfRank(OpenBy(k), r)) - 1 : m \in 0 .. o(r) - 1
        BY <1>4, <2>2
    <2> QED
        BY <1>17, <2>1, <2>3 DEF Prefix
<1>20. ASSUME NEW r \in Ranks PROVE After(r, o(r) + w(r)) = OfRank(Open, r) \union OfRank(Opened, r)
    <2>1. row \in 0 .. row
        BY DEF SweepInv
    <2>2. After(r, o(r)) = OfRank(Open, r)
        BY <1>2, <1>19, <2>1 DEF o
    <2>3. \A m \in 0 .. o(r) - 1 : m \in 0 .. o(r) + w(r) - 1
        BY <1>4
    <2>4. \A m \in 0 .. o(r) + w(r) - 1 :
            m \in 0 .. o(r) - 1 \/ \E n \in 0 .. w(r) - 1 : m = o(r) + n
        <3>1. ASSUME NEW m \in 0 .. o(r) + w(r) - 1, m \notin 0 .. o(r) - 1
              PROVE  m - o(r) \in 0 .. w(r) - 1 /\ m = o(r) + (m - o(r))
            BY <1>4, <3>1
        <3> QED
            BY <3>1
    <2>5. \A n \in 0 .. w(r) - 1 :
            layout_positions'[layout_offsets[r] + (o(r) + n)] \in OfRank(Opened, r)
        BY <1>8, <1>18
    <2>6. \A j \in OfRank(Opened, r) : o(r) + c(j) \in 0 .. o(r) + w(r) - 1
        BY <1>4, <1>8
    <2>7. ASSUME NEW m \in 0 .. o(r) + w(r) - 1
          PROVE  layout_positions'[layout_offsets[r] + m]
                    \in OfRank(Open, r) \union OfRank(Opened, r)
        <3>1. CASE m \in 0 .. o(r) - 1
            BY <2>2, <3>1
        <3>2. CASE \E n \in 0 .. w(r) - 1 : m = o(r) + n
            BY <2>5, <3>2
        <3> QED
            BY <2>4, <2>7, <3>1, <3>2
    <2>8. ASSUME NEW x \in OfRank(Open, r)
          PROVE  \E m \in 0 .. o(r) + w(r) - 1 : x = layout_positions'[layout_offsets[r] + m]
        <3>1. PICK m \in 0 .. o(r) - 1 : x = layout_positions'[layout_offsets[r] + m]
            BY <2>2, <2>8
        <3> QED
            BY <2>3, <3>1
    <2>9. ASSUME NEW x \in OfRank(Opened, r)
          PROVE  \E m \in 0 .. o(r) + w(r) - 1 : x = layout_positions'[layout_offsets[r] + m]
        BY <1>18, <2>6, <2>9
    <2>10. ASSUME NEW x \in After(r, o(r) + w(r))
           PROVE  x \in OfRank(Open, r) \union OfRank(Opened, r)
        <3>1. PICK m \in 0 .. o(r) + w(r) - 1 : x = layout_positions'[layout_offsets[r] + m]
            BY <1>4, <2>10
        <3> QED
            BY <2>7, <3>1
    <2>11. ASSUME NEW x \in OfRank(Open, r) \union OfRank(Opened, r)
           PROVE  x \in After(r, o(r) + w(r))
        <3>1. PICK m \in 0 .. o(r) + w(r) - 1 : x = layout_positions'[layout_offsets[r] + m]
            BY <2>8, <2>9, <2>11
        <3> QED
            BY <1>4, <3>1
    <2> HIDE DEF After
    <2> QED
        BY <2>10, <2>11
<1>21. ASSUME NEW r \in Ranks
       PROVE  After(r, Cardinality(OfRank(OpenBy(row + 1), r))) = OfRank(OpenBy(row + 1), r)
    <2>1. OfRank(OpenBy(row + 1), r) = OfRank(Open, r) \union OfRank(Opened, r)
        BY <1>2 DEF OfRank
    <2>2. Cardinality(OfRank(OpenBy(row + 1), r)) = o(r) + w(r)
        BY <1>5 DEF o, w
    <2> QED
        BY <1>20, <2>1, <2>2
<1>22. \A k \in 0 .. row + 1, r \in Ranks :
        After(r, Cardinality(OfRank(OpenBy(k), r))) = OfRank(OpenBy(k), r)
    <2>1. \A k \in 0 .. row + 1 : k \in 0 .. row \/ k = row + 1
        BY DEF SweepInv
    <2> QED
        BY <1>19, <1>21, <2>1
<1>23. UNCHANGED layout_offsets /\ row' = row + 1
    BY DEF PlaceRow
<1>24. /\ \A k, r : OfRank(OpenBy(k), r)' = OfRank(OpenBy(k), r)
       /\ RankCount' = RankCount
    BY <1>1, OpenIsStable DEF OfRank
<1>25. \A r, n : Prefix(r, n)' = After(r, n)
    BY <1>23 DEF Prefix
<1> HIDE DEF After
<1> QED
    BY <1>22, <1>23, <1>24, <1>25 DEF Placed, Ranks

-----------------------------------------------------------------------------
\* The layout through the passes.

\* A row that is opened is tallied, in whichever counts the pass keeps.
LEMMA AdvanceTallies ==
    ASSUME PathInv, SweepInv, OpenInv, NEW pass \in Sweeps, NEW next \in Scanning,
           Sweeping(pass), Advance(next), UNCHANGED pathVars, NEW f, Tallied(f, Open)
    PROVE  /\ \A r \in Right : f[r] + Cardinality(OfRank(Opened, r)) \in Nat
           /\ \A r \in Right : f[r] + Cardinality(OfRank(Opened, r))
                                = Cardinality(OfRank(Open, r)')
<1>1. pc \in Sweeps /\ row < LeftLen /\ ~Inactive
    BY DEF Sweeping
<1>2. /\ Opened \in SUBSET Right /\ Open \in SUBSET Right /\ Open \cap Opened = {}
      /\ Open \union Opened = starts[row] .. RightLen - 1
    BY <1>1, OpeningAdds
<1>3. Open' = Open \union Opened
    BY <1>2 DEF Advance, Open
<1>4. \A r : OfRank(Open, r)' = OfRank(Open \union Opened, r)
    BY <1>3, OpenIsStable DEF OfRank
<1>5. Tallied([r \in Right |-> f[r] + Cardinality(OfRank(Opened, r))], Open \union Opened)
    BY <1>2, TallyGrows
<1> QED
    BY <1>4, <1>5 DEF Tallied

\* The counts of a pass that begins.
LEMMA RewindTallies ==
    ASSUME Rewind, UNCHANGED pathVars
    PROVE  \A r : Cardinality(OfRank(Open, r)') = 0
<1>1. Open' = {}
    BY NothingOpen DEF Rewind, Open
<1>2. \A r : OfRank(Open, r)' = {}
    BY <1>1 DEF OfRank
<1> QED
    BY <1>2, FS_EmptySet

\* A pass that is through has opened all that any window opens.
LEMMA SweptIsWhole ==
    ASSUME OpenInv, pc \in Sweeps, row = LeftLen
    PROVE  Open = Whole
    BY DEF OpenInv, Whole

LEMMA LayoutInit == Init => LayoutInv
<1> SUFFICES ASSUME Init PROVE LayoutInv
    OBVIOUS
<1>1. Zero(Right) \in [Right -> Nat]
    BY DEF Zero
<1> QED
    BY <1>1 DEF Init, LayoutInv, Preparing, LaidOut, Counting, Emitting

USE DEF LaidOut, Counting, Emitting

LEMMA SkipKeepsLayout ==
    ASSUME PathInv, SweepInv, OpenInv, LayoutInv, SkipInactive
    PROVE  LayoutInv'
<1>1. /\ UNCHANGED <<pathVars, layoutVars, rank, active_counts, previous_end>>
      /\ pc' = pc /\ pc \in Sweeps /\ row' = row + 1 /\ row \in Nat
    BY LengthsAssumption DEF SkipInactive, SweepInv
<1>2. \A r : OfRank(Open, r)' = OfRank(Open, r)
    BY <1>1, OpenIsStable DEF OfRank, Open
<1>3. /\ Tallied(active_totals, Open)' <=> Tallied(active_totals, Open)
      /\ Tallied(position_counts, Open)' <=> Tallied(position_counts, Open)
      /\ Tallied(active_counts, Open)' <=> Tallied(active_counts, Open)
    BY <1>1, <1>2 DEF Tallied
<1>4. Placed(row) => Placed(row + 1)
    <2>1. \A k \in 0 .. row + 1 : k \in 0 .. row \/ k = row + 1
        BY <1>1
    <2>2. row \in 0 .. row
        BY <1>1
    <2> QED
        BY <2>1, <2>2, SkippingAddsNothing DEF Placed
<1>5. Placed(row) => Placed(row)'
    BY <1>1, <1>4, LayoutIsStable DEF Placed
<1>6. Zero(Right)' = Zero(Right)
    BY DEF Zero
<1> QED
    BY <1>1, <1>3, <1>5, <1>6, LayoutIsStable, OpenIsStable DEF LayoutInv, Sweeps

\* A step of a pass over the finished layout answers for its counts only.
LEMMA PassKeepsLayout ==
    ASSUME LayoutInv, pc \in LaidOut, pc' \in LaidOut \union Closed,
           UNCHANGED pathVars, UNCHANGED layoutVars,
           pc' \in Counting \union Emitting => Tallied(active_counts, Open)'
    PROVE  LayoutInv'
<1>1. pc' \notin Preparing \union {"filter", "totals", "slices", "place"}
    BY DEF Preparing, Closed
<1>2. /\ layout_offsets \in [Right -> Nat] /\ Tallied(active_totals, Whole)
      /\ Sliced(RankCount) /\ DOMAIN layout_positions = AllSlots /\ Placed(LeftLen)
    BY DEF LayoutInv
<1>3. Sliced(RankCount)' /\ Tallied(active_totals, Whole)' /\ Placed(LeftLen)'
    BY <1>2, LayoutIsStable, OpenIsStable DEF Sliced
<1>4. (DOMAIN layout_positions = AllSlots)'
    BY <1>2, LayoutIsStable
<1> QED
    BY <1>1, <1>2, <1>3, <1>4 DEF LayoutInv

LEMMA TotalKeepsLayout ==
    ASSUME PathInv, SweepInv, OpenInv, LayoutInv, TotalRow
    PROVE  LayoutInv'
<1>1. pc = "totals" /\ "totals" \in Sweeps /\ "totals" \in Scanning
    BY DEF TotalRow, Sweeping, Sweeps, Scanning
<1>2. pc' = "totals"
    BY <1>1, AdvanceKeepsSweep DEF TotalRow
<1>3. Tallied(active_totals, Open)
    BY <1>1 DEF LayoutInv
<1>4. Tallied(active_totals, Open)'
    BY <1>1, <1>3, AdvanceTallies DEF TotalRow, Tallied
<1> QED
    BY <1>1, <1>2, <1>4 DEF TotalRow, LayoutInv, Preparing, Zero

LEMMA PlaceKeepsLayout ==
    ASSUME PathInv, SweepInv, OpenInv, LayoutInv, PlaceRow
    PROVE  LayoutInv'
<1>1. pc = "place" /\ "place" \in Sweeps /\ "place" \in Scanning
    BY DEF PlaceRow, Sweeping, Sweeps, Scanning
<1>2. pc' = "place"
    BY <1>1, AdvanceKeepsSweep DEF PlaceRow
<1>3. /\ Tallied(position_counts, Open) /\ Placed(row) /\ Sliced(RankCount)
      /\ DOMAIN layout_positions = AllSlots /\ layout_offsets \in [Right -> Nat]
      /\ Tallied(active_totals, Whole) /\ active_counts = Zero(Right)
    BY <1>1 DEF LayoutInv
<1>4. Tallied(position_counts, Open)'
    BY <1>1, <1>3, AdvanceTallies DEF PlaceRow, Tallied
<1>5. Placed(row)'
    BY <1>3, PlacingExtends
<1>6. UNCHANGED pathVars
      /\ UNCHANGED <<layout_offsets, active_totals, active_counts>>
      /\ DOMAIN layout_positions' = DOMAIN layout_positions
    BY DEF PlaceRow
<1>7. /\ Sliced(RankCount)' /\ AllSlots' = AllSlots /\ Tallied(active_totals, Whole)'
      /\ Zero(Right)' = Zero(Right)
    <2>1. \A r : OfRank(Whole, r)' = OfRank(Whole, r)
        BY <1>6, OpenIsStable DEF OfRank
    <2> QED
        BY <1>3, <1>6, <2>1, OpenIsStable DEF Sliced, AllSlots, Tallied, Zero
<1> QED
    BY <1>2, <1>3, <1>4, <1>5, <1>6, <1>7 DEF LayoutInv, Preparing

\* Each rank in turn is given the slots after those of the ranks before it.
LEMMA OffsetKeepsLayout ==
    ASSUME PathInv, SweepInv, OpenInv, LayoutInv, OffsetRank
    PROVE  LayoutInv'
<1>1. /\ pc = "slices" /\ pc' = "slices" /\ rank < RankCount /\ rank' = rank + 1
      /\ UNCHANGED pathVars
      /\ UNCHANGED <<active_totals, layout_positions, position_counts, active_counts>>
      /\ layout_offsets' = [layout_offsets EXCEPT ![rank] = PositionTotal]
    BY DEF OffsetRank
<1>2. /\ layout_offsets \in [Right -> Nat] /\ Tallied(active_totals, Whole)
      /\ rank \in 0 .. RankCount /\ Sliced(rank)
      /\ position_counts = Zero(Right) /\ active_counts = Zero(Right)
    BY <1>1 DEF LayoutInv
<1>3. Ordered /\ RankCount \in 0 .. RightLen
    BY <1>1, RankTypes DEF PathInv, Preparing
<1>4. rank \in Right /\ rank \in Nat
    BY <1>1, <1>2, <1>3, LengthsAssumption DEF Right
<1>5. PositionTotal = Cardinality(Below(rank)) /\ PositionTotal \in Nat
    BY <1>2, <1>3, OffsetIsNext, BelowFinite
<1>6. \A r \in 0 .. rank : layout_offsets'[r] = Cardinality(Below(r))
    <2>1. \A r \in 0 .. rank : r \in Right /\ (r \in 0 .. rank - 1 \/ r = rank)
        BY <1>1, <1>2, <1>3, LengthsAssumption DEF Right
    <2> QED
        BY <1>1, <1>2, <1>5, <2>1 DEF Sliced
<1>7. Sliced(rank)'
    <2>1. \A r \in 0 .. rank' - 1 : r \in 0 .. rank
        BY <1>1, <1>2, <1>3
    <2> QED
        BY <1>1, <1>6, <2>1, OpenIsStable DEF Sliced
<1>8. rank' \in 0 .. RankCount' /\ layout_offsets' \in [Right -> Nat]
    BY <1>1, <1>2, <1>3, <1>4, <1>5, OpenIsStable
<1>9. Tallied(active_totals, Whole)' /\ Zero(Right)' = Zero(Right)
    <2>1. \A r : OfRank(Whole, r)' = OfRank(Whole, r)
        BY <1>1, OpenIsStable DEF OfRank
    <2> QED
        BY <1>1, <1>2, <2>1 DEF Tallied, Zero
<1> QED
    BY <1>1, <1>2, <1>7, <1>8, <1>9 DEF LayoutInv, Preparing

LEMMA EndOffsetsKeepsLayout ==
    ASSUME PathInv, SweepInv, OpenInv, LayoutInv, EndOffsets
    PROVE  LayoutInv'
<1>1. /\ pc = "slices" /\ pc' = "place" /\ rank = RankCount /\ row' = 0 /\ Rewind
      /\ UNCHANGED pathVars
      /\ UNCHANGED <<active_totals, layout_offsets, position_counts, active_counts>>
      /\ layout_positions' = [p \in 0 .. PositionTotal - 1 |-> 0]
    BY DEF EndOffsets, Rewind
<1>2. /\ layout_offsets \in [Right -> Nat] /\ Tallied(active_totals, Whole)
      /\ rank \in 0 .. RankCount /\ Sliced(rank)
      /\ position_counts = Zero(Right) /\ active_counts = Zero(Right)
    BY <1>1 DEF LayoutInv
<1>3. Ordered
    BY <1>1 DEF PathInv, Preparing
<1>4. DOMAIN layout_positions' = AllSlots
    BY <1>1, <1>2, <1>3, OffsetIsNext DEF AllSlots
<1>5. AllSlots' = AllSlots /\ Sliced(RankCount)' /\ Zero(Right)' = Zero(Right)
    BY <1>1, <1>2, OpenIsStable DEF AllSlots, Sliced, Zero
<1>6. Tallied(active_totals, Whole)'
    <2>1. \A r : OfRank(Whole, r)' = OfRank(Whole, r)
        BY <1>1, OpenIsStable DEF OfRank
    <2> QED
        BY <1>1, <1>2, <2>1 DEF Tallied
<1>7. Tallied(position_counts, Open)'
    BY <1>1, <1>2, RewindTallies DEF Tallied, Zero
<1>8. Placed(row)'
    <2>1. ASSUME NEW k \in 0 .. 0, NEW r
          PROVE  Prefix(r, Cardinality(OfRank(OpenBy(k), r)))' = OfRank(OpenBy(k), r)'
        <3>1. OfRank(OpenBy(k), r) = {}
            BY NothingOpen DEF OfRank
        <3>2. OfRank(OpenBy(k), r)' = {}
            BY <1>1, <3>1, OpenIsStable DEF OfRank
        <3>3. Prefix(r, 0)' = {}
            BY DEF Prefix
        <3>4. Cardinality({}) = 0
            BY FS_EmptySet
        <3>5. Prefix(r, Cardinality(OfRank(OpenBy(k), r)))' = Prefix(r, 0)'
            BY <3>2, <3>4 DEF Prefix
        <3> QED
            BY <3>2, <3>3, <3>5
    <2> QED
        BY <1>1, <2>1 DEF Placed
<1> QED
    BY <1>1, <1>2, <1>4, <1>5, <1>6, <1>7, <1>8 DEF LayoutInv, Preparing

\* The layout is filled as it was sized, so the pass of the policy begins.
LEMMA EndPlaceKeepsLayout ==
    ASSUME PathInv, SweepInv, OpenInv, LayoutInv, EndPlace
    PROVE  LayoutInv' /\ pc' # "error"
<1>1. /\ pc = "place" /\ row = LeftLen /\ Rewind /\ UNCHANGED <<pathVars, passVars>>
      /\ pc' = IF position_counts # active_totals THEN "error"
               ELSE IF call.has_residuals THEN "ask"
               ELSE IF call.keep = "all" THEN "count" ELSE "best"
    BY DEF EndPlace, Swept
<1>2. /\ Tallied(position_counts, Open) /\ Placed(row) /\ Sliced(RankCount)
      /\ DOMAIN layout_positions = AllSlots /\ layout_offsets \in [Right -> Nat]
      /\ Tallied(active_totals, Whole) /\ active_counts = Zero(Right)
    BY <1>1 DEF LayoutInv
<1>3. Open = Whole
    BY <1>1, SweptIsWhole DEF Sweeps
<1>4. position_counts = active_totals
    BY <1>2, <1>3 DEF Tallied
<1>5. pc' \in {"ask", "count", "best"}
    BY <1>1, <1>4
<1>6. Tallied(active_counts, Open)'
    BY <1>1, <1>2, RewindTallies DEF Tallied, Zero
<1>7. /\ Sliced(RankCount)' /\ Placed(LeftLen)' /\ Tallied(active_totals, Whole)'
      /\ (DOMAIN layout_positions = AllSlots)'
    <2>1. /\ \A n : Sliced(n)' <=> Sliced(n)
          /\ AllSlots' = AllSlots
          /\ \A n : Placed(n)' <=> Placed(n)
          /\ Tallied(active_totals, Whole)' <=> Tallied(active_totals, Whole)
        BY <1>1, LayoutIsStable
    <2> QED
        BY <1>1, <1>2, <2>1, OpenIsStable DEF Sliced
<1> QED
    BY <1>1, <1>2, <1>5, <1>6, <1>7 DEF LayoutInv, Preparing

\* A pass that opens a row counts what it opens.
LEMMA OpeningKeepsLayout ==
    ASSUME PathInv, SweepInv, OpenInv, LayoutInv, CountRow \/ EmitRow \/ AskRow \/ AskAgainRow
    PROVE  LayoutInv'
<1>1. ASSUME NEW pass \in {"count", "emit", "ask", "ask_again"},
             NEW next \in {"count", "count_ranks", "emit", "emit_ranks", "ask", "ask_again"},
             Sweeping(pass), Advance(next), active_counts' = Activated,
             UNCHANGED pathVars, UNCHANGED layoutVars, pc' = next
      PROVE  LayoutInv'
    <2>1. pass \in Sweeps /\ next \in Scanning
        BY DEF Sweeps, Scanning
    <2>2. pc = pass
        BY <1>1 DEF Sweeping
    <2>3. Tallied(active_counts, Open)
        BY <2>2 DEF LayoutInv
    <2>4. Tallied(active_counts, Open)'
        BY <1>1, <2>1, <2>3, AdvanceTallies DEF Activated, Tallied
    <2> QED
        BY <1>1, <2>2, <2>4, PassKeepsLayout
<1>2. CASE CountRow
    <2>1. PICK next \in {"count", "count_ranks"} :
            Advance(next) /\ (\/ row' = row + 1 /\ next = "count"
                              \/ row' = row /\ next = "count_ranks")
        BY <1>2 DEF CountRow
    <2>2. pc' = next
        BY <1>2, <2>1, AdvanceKeepsSweep DEF CountRow, Sweeps, Scanning
    <2> QED
        BY <1>1, <1>2, <2>1, <2>2 DEF CountRow
<1>3. CASE EmitRow
    <2>1. PICK next \in {"emit", "emit_ranks"} :
            Advance(next) /\ (\/ row' = row + 1 /\ next = "emit"
                              \/ row' = row /\ next = "emit_ranks")
        BY <1>3 DEF EmitRow
    <2>2. pc' = next
        BY <1>3, <2>1, AdvanceKeepsSweep DEF EmitRow, Sweeps, Scanning
    <2> QED
        BY <1>1, <1>3, <2>1, <2>2 DEF EmitRow
<1>4. CASE AskRow
    <2>1. pc' = "ask"
        BY <1>4, AdvanceKeepsSweep DEF AskRow, Sweeps, Scanning
    <2> QED
        BY <1>1, <1>4, <2>1 DEF AskRow
<1>5. CASE AskAgainRow
    <2>1. pc' = "ask_again"
        BY <1>5, AdvanceKeepsSweep DEF AskAgainRow, Sweeps, Scanning
    <2> QED
        BY <1>1, <1>5, <2>1 DEF AskAgainRow
<1> QED
    BY <1>2, <1>3, <1>4, <1>5

\* Before the layout is begun nothing is counted.
LEMMA PreparationKeepsLayout ==
    ASSUME LayoutInv, UNCHANGED layoutVars, UNCHANGED active_counts,
           pc \in Preparing \union {"any", "emit_any"},
           pc' \in Preparing \union Closed \union {"any", "emit_any", "filter"},
           pc \in {"any", "emit_any"} => pc' \notin Preparing \union {"filter"}
    PROVE  LayoutInv'
    BY DEF LayoutInv, Preparing, Closed, Zero

LEMMA LayoutInvNext ==
    ASSUME PathInv, SweepInv, OpenInv, LayoutInv, [Next]_vars
    PROVE  LayoutInv'
<1>1. CASE PathsNext
    <2>1. CASE BuildFirst \/ BuildSecond \/ OrderLeft \/ ReturnNone
        BY <2>1, PreparationKeepsLayout
            DEF BuildFirst, BuildSecond, OrderLeft, ReturnNone, Preparing, Closed
    <2>2. CASE FindStarts
        BY <2>2, PreparationKeepsLayout DEF FindStarts, FirstPass, Preparing
    <2> QED
        BY <1>1, <2>1, <2>2 DEF PathsNext
<1>2. CASE SkipInactive
    BY <1>2, SkipKeepsLayout
<1>3. CASE AnyNext
    <2>1. CASE CountAny
        <3>1. pc = "any" /\ pc' = "any"
            BY <2>1, AdvanceKeepsSweep DEF CountAny, Sweeping, Sweeps, Scanning
        <3> QED
            BY <2>1, <3>1, PreparationKeepsLayout DEF CountAny, Preparing
    <2>2. CASE EndAny
        BY <2>2, PreparationKeepsLayout DEF EndAny, Swept, Preparing, Closed
    <2>3. CASE EmitAny \/ FinishAny
        BY <2>3, PreparationKeepsLayout
            DEF EmitAny, FinishAny, Swept, Compare, Preparing, Closed
    <2> QED
        BY <1>3, <2>1, <2>2, <2>3 DEF AnyNext
<1>4. CASE LayoutNext
    <2>1. CASE FilterRow
        <3>1. pc = "filter" /\ pc' = "filter"
            BY <2>1, AdvanceKeepsSweep DEF FilterRow, Sweeping, Sweeps, Scanning
        <3> QED
            BY <2>1, <3>1 DEF FilterRow, LayoutInv, Preparing, Zero
    <2>2. CASE EndFilter
        <3>1. /\ pc = "filter" /\ pc' \in {"none", "totals"} /\ Rewind
              /\ UNCHANGED <<pathVars, passVars>>
            BY <2>2 DEF EndFilter, Swept
        <3>2. active_totals = Zero(Right)
            BY <3>1 DEF LayoutInv
        <3>3. Tallied(active_totals, Open)'
            BY <3>1, <3>2, RewindTallies DEF Tallied, Zero
        <3> QED
            BY <3>1, <3>3 DEF LayoutInv, Preparing, Zero
    <2>3. CASE EndTotals
        <3>1. /\ pc = "totals" /\ pc' = "slices" /\ row = LeftLen /\ rank' = 0
              /\ UNCHANGED pathVars /\ UNCHANGED layoutVars /\ UNCHANGED active_counts
            BY <2>3 DEF EndTotals, Swept
        <3>2. Tallied(active_totals, Whole)
            BY <3>1, SweptIsWhole DEF LayoutInv, Sweeps
        <3>3. Tallied(active_totals, Whole)'
            BY <3>1, <3>2, LayoutIsStable
        <3>4. Ordered
            BY <3>1 DEF PathInv, Preparing
        <3>5. rank' \in 0 .. RankCount' /\ Sliced(rank)'
            BY <3>1, <3>4, RankTypes, OpenIsStable DEF Sliced
        <3> QED
            BY <3>1, <3>3, <3>5 DEF LayoutInv, Preparing, Zero
    <2> QED
        BY <1>4, <2>1, <2>2, <2>3, TotalKeepsLayout, OffsetKeepsLayout,
            EndOffsetsKeepsLayout, PlaceKeepsLayout, EndPlaceKeepsLayout DEF LayoutNext
<1>5. CASE CountRow \/ EmitRow \/ AskRow \/ AskAgainRow
    BY <1>5, OpeningKeepsLayout
<1>6. CASE CountRank \/ EmitRank \/ EndCountRanks \/ EndEmitRanks
    <2>1. /\ pc \in {"count_ranks", "emit_ranks"}
          /\ pc' \in {"count", "count_ranks", "emit", "emit_ranks", "error"}
          /\ UNCHANGED pathVars /\ UNCHANGED layoutVars
          /\ UNCHANGED <<previous_end, active_counts>>
        BY <1>6 DEF CountRank, EmitRank, EndCountRanks, EndEmitRanks
    <2>2. Tallied(active_counts, Open)
        BY <2>1 DEF LayoutInv
    <2>3. \A r : OfRank(Open, r)' = OfRank(Open, r)
        BY <2>1, OpenIsStable DEF OfRank, Open
    <2>4. Tallied(active_counts, Open)'
        BY <2>1, <2>2, <2>3 DEF Tallied
    <2> QED
        BY <2>1, <2>4, PassKeepsLayout DEF Closed
<1>7. CASE EndOffsetRows \/ EndAsk
    <2>1. /\ pc \in {"offsets", "ask"}
          /\ pc' \in {"emit", "none", "emit_selected", "ask_again"}
          /\ UNCHANGED pathVars /\ UNCHANGED layoutVars
          /\ Rewind /\ active_counts' = NoneActive
        BY <1>7 DEF EndOffsetRows, EndAsk, Swept
    <2>2. Tallied(active_counts, Open)'
        BY <2>1, RewindTallies DEF Tallied, NoneActive
    <2> QED
        BY <2>1, <2>2, PassKeepsLayout DEF Closed
<1>8. CASE \/ EndCount \/ OffsetRow \/ EndEmit \/ Translate \/ FinishAll
           \/ FinishBest \/ EmitSelected \/ FinishSelected \/ FinishAsk
    <2>1. /\ pc \in {"count", "offsets", "emit", "translate", "best", "emit_selected", "ask_again"}
          /\ pc' \in {"offsets", "translate", "emit_selected"} \union Closed
          /\ UNCHANGED pathVars /\ UNCHANGED layoutVars
        BY <1>8 DEF EndCount, OffsetRow, EndEmit, Translate, FinishAll, FinishBest,
            EmitSelected, FinishSelected, FinishAsk, Swept, Compare, Closed
    <2>2. pc' \notin Counting \union Emitting
        BY <2>1 DEF Closed
    <2> QED
        BY <2>1, <2>2, PassKeepsLayout
<1>9. CASE EmitBest
    <2>1. pc = "best" /\ pc' = "best"
        BY <1>9, AdvanceKeepsSweep DEF EmitBest, Sweeping, Sweeps, Scanning
    <2> QED
        BY <1>9, <2>1, PassKeepsLayout DEF EmitBest
<1>10. CASE UNCHANGED vars
    <2>1. \A r : OfRank(Open, r)' = OfRank(Open, r)
        BY <1>10, OpenIsStable DEF OfRank, Open
    <2>2. /\ Tallied(active_totals, Open)' <=> Tallied(active_totals, Open)
          /\ Tallied(position_counts, Open)' <=> Tallied(position_counts, Open)
          /\ Tallied(active_counts, Open)' <=> Tallied(active_counts, Open)
        BY <1>10, <2>1 DEF Tallied
    <2>3. Zero(Right)' = Zero(Right)
        BY DEF Zero
    <2>4. (Placed(row)' <=> Placed(row)) /\ (Sliced(rank)' <=> Sliced(rank))
        BY <1>10, LayoutIsStable DEF Placed, Sliced
    <2>5. (Sliced(RankCount)' <=> Sliced(RankCount)) /\ (Placed(LeftLen)' <=> Placed(LeftLen))
        BY <1>10, LayoutIsStable, OpenIsStable DEF Sliced
    <2> QED
        BY <1>10, <2>2, <2>3, <2>4, <2>5, LayoutIsStable, OpenIsStable DEF LayoutInv
<1> QED
    BY <1>1, <1>2, <1>3, <1>4, <1>5, <1>6, <1>7, <1>8, <1>9, <1>10
        DEF Next, AllNext, FirstLastNext, ResidualNext

\* Between the passes that size, fill and read the layout: the rows of a rank that
\* the running sweep has opened are the prefix of its slice that the active count
\* delimits, for every call, every column length and whatever the search order.
THEOREM ActivePrefixTheorem == Spec => []ActivePrefix
<1>1. PathInv /\ SweepInv /\ OpenInv /\ LayoutInv /\ [Next]_vars
        => PathInv' /\ SweepInv' /\ OpenInv' /\ LayoutInv'
    BY PathNext, SweepNext, OpenNext, LayoutInvNext
<1>2. PathInv /\ SweepInv /\ OpenInv /\ LayoutInv => ActivePrefix
    <2> SUFFICES ASSUME PathInv, SweepInv, OpenInv, LayoutInv,
                        pc \in Counting \union Emitting, NEW r \in 0 .. RankCount - 1
                 PROVE  OfRank(Open, r) = Prefix(r, active_counts[r])
        BY DEF ActivePrefix, Open, Prefix
    <2>1. Tallied(active_counts, Open) /\ Placed(LeftLen)
        BY DEF LayoutInv
    <2>2. PICK k \in 0 .. LeftLen : Open = OpenBy(k)
        <3>1. CASE pc \in Sweeps
            BY <3>1 DEF OpenInv, SweepInv
        <3>2. CASE pc \in InRanks
            <4>1. row + 1 \in 0 .. LeftLen
                BY <3>2, LengthsAssumption DEF SweepInv, InRanks
            <4> QED
                BY <3>2, <4>1 DEF OpenInv
        <3> QED
            BY <3>1, <3>2 DEF Sweeps, InRanks
    <2>3. Ordered
        BY DEF PathInv, Preparing
    <2>4. r \in Right
        BY <2>3, RankTypes, LengthsAssumption DEF Right
    <2> QED
        BY <2>1, <2>2, <2>4 DEF Tallied, Placed
<1> QED
    BY <1>1, <1>2, PathInit, SweepInit, OpenInit, LayoutInit, PTL DEF Spec

-----------------------------------------------------------------------------
\* Both passes of every policy agree.

\* The rows the filter has flagged.
Flagged == {k \in Left : left_has_match[k]}

\* The right index values a call can emit.
Values == {call.right_index[j] : j \in Right}

\* The lowest rank that a row's own label reaches.
RankFrom(i) == RankOf(second.left[i])

\* What a row's inner loop has met when it comes to rank n.
Candidates(i, n) == {j \in OpenBy(i + 1) : RankFrom(i) <= Rank(j) /\ Rank(j) < n}

CountOf(i) == IF left_has_match[i] THEN Cardinality(Candidates(i, RankCount)) ELSE 0

\* The slots that both residual walks visit for a row, and what they find there.
SlotsOf(i) ==
    UNION { layout_offsets[r] .. layout_offsets[r] + Cardinality(OfRank(OpenBy(i + 1), r)) - 1 :
            r \in RankFrom(i) .. RankCount - 1 }

PassingOf(i) == {s \in SlotsOf(i) : <<left_order[i], layout_positions[s]>> \in call.residual}

FoundOf(i) ==
    IF left_has_match[i] /\ second.left[i] # 0 THEN Met(PassingOf(i)) ELSE {}

\* f[i] is where the output of row i begins, as far as the counts c of the first
\* n rows decide.
Sums(f, n, c) ==
    /\ f \in [0 .. n -> Nat]
    /\ f[0] = 0
    /\ \A i \in 0 .. n - 1 : f[i + 1] = f[i] + c[i]
    /\ \A i \in 0 .. n : f[i] <= f[n]

-----------------------------------------------------------------------------

Unlaid == Preparing \union {"filter", "totals", "slices", "place"}

\* keep="all": a place is reserved for every pair; then they are copied to it.
Copying  == {"emit", "emit_ranks", "translate"}
Reserved == Copying \union {"offsets"}

\* match_count counts what the filter flags.
MatchInv ==
    pc \in Unlaid \union Filtered => match_count = Cardinality(Flagged)

\* keep="first" and "last".
BestInv ==
    /\ pc \in Unlaid => active_best = [r \in Right |-> None]
    /\ pc \in Unlaid \union Counting \union {"offsets", "emit", "emit_ranks"} =>
        left_output = <<>> /\ right_output = <<>>
    /\ pc = "best" =>
        /\ active_best \in [Right -> Values \union {None}]
        /\ \A r \in Right : active_best[r] = None <=> OfRank(Open, r) = {}
        /\ Len(left_output) = Cardinality({k \in Flagged : k < row})

\* keep="all": the counts of the rows passed, and the inner loops in between.
CountInv ==
    /\ pc \in Unlaid => \A i \in Left : left_match_counts[i] = 0
    /\ pc \in {"count", "count_ranks"} =>
        \A i \in Left : left_match_counts[i] = IF i < row THEN CountOf(i) ELSE 0
    /\ pc = "count_ranks" =>
        /\ left_has_match[row] /\ rank \in RankFrom(row) .. RankCount
        /\ matches = Cardinality(Candidates(row, rank))
    /\ pc \in Reserved => \A i \in Left : left_match_counts[i] = CountOf(i)
    /\ pc = "emit_ranks" =>
        /\ left_match_counts[row] # 0 /\ rank \in RankFrom(row) .. RankCount
        /\ output_position = offsets[row] + Cardinality(Candidates(row, rank))

\* The residual walks: the counts of the rows passed.
AskInv ==
    /\ pc = "ask" =>
        \A i \in Left :
            left_match_counts[i] = IF i < row THEN Cardinality(FoundOf(i)) ELSE 0
    /\ pc = "ask_again" =>
        \A i \in Left : left_match_counts[i] = Cardinality(FoundOf(i))

\* Sizes and places are sums of the counts.
SumInv ==
    /\ pc \in Unlaid => total_size = 0
    /\ left_match_counts \in [Left -> Nat] /\ offsets \in [Left -> Nat]
    /\ pc \in Counting => \E f : Sums(f, row, left_match_counts) /\ total_size = f[row]
    /\ pc \in Reserved \union {"ask_again"} =>
        \E f : /\ Sums(f, LeftLen, left_match_counts) /\ total_size = f[LeftLen]
               /\ pc = "offsets" => \A i \in Left : i < row => offsets[i] = f[i]
               /\ pc \in Copying => \A i \in Left : offsets[i] = f[i]
               /\ pc = "ask_again" => Len(left_output) = f[row]

\* What keep="all" copies.
PositionsInv ==
    pc \in Copying => positions \in [0 .. total_size - 1 -> Right]

\* TypeOK beyond the paths, and the sequences of output, which start empty.
OtherTypes == SweepTypeOK /\ OutputTypeOK

-----------------------------------------------------------------------------
\* Extremes.

LEMMA FiniteExtremes ==
    ASSUME NEW S \in SUBSET Int, IsFiniteSet(S), S # {}
    PROVE  /\ \E m \in S : \A k \in S : m <= k
           /\ \E m \in S : \A k \in S : k <= m
<1>1. Cardinality(S) \in Nat /\ Cardinality(S) # 0
    BY FS_EmptySet, FS_CardinalityType
<1>2. \E m \in S : \A k \in S : m <= k
    <2>0. 0 \in 0 .. Cardinality(S) - 1
        BY <1>1
    <2>1. PICK m \in S : Cardinality({k \in S : k < m}) = 0
        BY <2>0, SmallerNumber
    <2>2. IsFiniteSet({k \in S : k < m})
        BY FS_Subset
    <2>3. {k \in S : k < m} = {}
        BY <2>1, <2>2, FS_EmptySet
    <2>4. \A k \in S : ~(k < m)
        BY <2>3
    <2> QED
        BY <2>4
<1>3. \E m \in S : \A k \in S : k <= m
    <2>1. PICK m \in S : Cardinality({k \in S : k < m}) = Cardinality(S) - 1
        BY <1>1, SmallerNumber
    <2>2. IsFiniteSet(S \ {m}) /\ Cardinality(S \ {m}) = Cardinality(S) - 1
        BY FS_RemoveElement
    <2>3. {k \in S : k < m} \in SUBSET (S \ {m})
        OBVIOUS
    <2>4. {k \in S : k < m} = S \ {m}
        BY <2>1, <2>2, <2>3, FS_Subset
    <2>5. \A k \in S : k = m \/ k < m
        BY <2>4
    <2> QED
        BY <2>5
<1> QED
    BY <1>2, <1>3

LEMMA ValuesFinite ==
    ASSUME PathInv
    PROVE  /\ call.right_index \in [Right -> Int]
           /\ Values \in SUBSET Int /\ None \notin Values
           /\ \A S \in SUBSET Values : IsFiniteSet(S)
<1>1. call.right_index \in [Right -> Int]
    BY CallsAssumption DEF PathInv, Call
<1>2. call.right_index \in Surjection(Right, Values)
    BY <1>1 DEF Surjection, Values
<1>3. IsFiniteSet(Values)
    BY <1>2, RightFinite, FS_Surjection
<1>4. Values \in SUBSET Int
    BY <1>1 DEF Values
<1> QED
    BY <1>1, <1>3, <1>4, NoneAssumption, FS_Subset

\* The value the policy prefers is one of the values, and None only of none.
LEMMA BestIsMember ==
    ASSUME PathInv, NEW S \in SUBSET Values
    PROVE  /\ S # {} => Best(S) \in S
           /\ Best(S) = None <=> S = {}
           /\ Best(S) \in Values \union {None}
<1>1. CASE S = {}
    BY <1>1 DEF Best
<1>2. CASE S # {}
    <2>1. /\ \E m \in S : \A k \in S : m <= k
          /\ \E m \in S : \A k \in S : m >= k
        BY <1>2, ValuesFinite, FiniteExtremes
    <2>2. \E x \in S : \A y \in S : IF call.keep = "first" THEN x <= y ELSE x >= y
        BY <2>1
    <2>3. Best(S) \in S
        BY <1>2, <2>2 DEF Best
    <2> QED
        BY <1>2, <2>3, ValuesFinite
<1> QED
    BY <1>1, <1>2

LEMMA FlaggedFinite ==
    /\ Flagged \in SUBSET Left
    /\ \A S \in SUBSET Left : IsFiniteSet(S) /\ Cardinality(S) \in 0 .. LeftLen
<1>1. Cardinality(Left) = LeftLen
    BY FS_Interval, LengthsAssumption DEF Left
<1>2. \A S \in SUBSET Left : IsFiniteSet(S) /\ Cardinality(S) \in 0 .. LeftLen
    BY <1>1, LeftFinite, FS_Subset, LengthsAssumption
<1> QED
    BY <1>2 DEF Flagged

\* How many of the rows passed are flagged, with one row more.
LEMMA FlaggedBefore ==
    ASSUME SweepInv, row \in Left
    PROVE  Cardinality({k \in Flagged : k < row + 1})
            = Cardinality({k \in Flagged : k < row}) + (IF left_has_match[row] THEN 1 ELSE 0)
<1>1. row \in Int /\ \A k \in Left : k < row + 1 <=> k < row \/ k = row
    BY DEF SweepInv, Left
<1>2. {k \in Flagged : k < row} \in SUBSET Left
    BY DEF Flagged
<1>3. IsFiniteSet({k \in Flagged : k < row}) /\ Cardinality({k \in Flagged : k < row}) \in Nat
    BY <1>2, FlaggedFinite, LengthsAssumption
<1>4. CASE left_has_match[row]
    <2>1. {k \in Flagged : k < row + 1} = {k \in Flagged : k < row} \union {row}
        BY <1>1, <1>4 DEF Flagged
    <2>2. row \notin {k \in Flagged : k < row}
        BY <1>1
    <2> QED
        BY <1>3, <1>4, <2>1, <2>2, FS_AddElement
<1>5. CASE ~left_has_match[row]
    <2>1. {k \in Flagged : k < row + 1} = {k \in Flagged : k < row}
        BY <1>1, <1>5 DEF Flagged
    <2> QED
        BY <1>3, <1>5, <2>1
<1> QED
    BY <1>4, <1>5

-----------------------------------------------------------------------------
\* The filter's count.

LEMMA MatchInit == Init => MatchInv
<1> SUFFICES ASSUME Init PROVE MatchInv
    OBVIOUS
<1>1. Flagged = {}
    BY DEF Init, Flagged
<1> QED
    BY <1>1, FS_EmptySet DEF Init, MatchInv

LEMMA MatchNext ==
    ASSUME PathInv, SweepInv, FilterInv, MatchInv, [Next]_vars
    PROVE  MatchInv'
<1>1. ASSUME UNCHANGED <<match_count, left_has_match>>,
             pc' \in Unlaid \union Filtered => pc \in Unlaid \union Filtered
      PROVE  MatchInv'
    <2>1. Flagged' = Flagged
        BY <1>1 DEF Flagged
    <2> QED
        BY <1>1, <2>1 DEF MatchInv, Unlaid, Preparing, Filtered
<1>2. CASE PathsNext
    <2>1. UNCHANGED <<match_count, left_has_match>> /\ pc \in Unlaid
        BY <1>2 DEF PathsNext, BuildFirst, BuildSecond, OrderLeft, FindStarts, ReturnNone,
            Unlaid, Preparing
    <2> QED
        BY <1>1, <2>1
<1>3. CASE SkipInactive
    BY <1>1, <1>3 DEF SkipInactive
<1>4. CASE CountAny
    <2>1. pc' = "any"
        BY <1>4, AdvanceKeepsSweep DEF CountAny, Sweeps, Scanning
    <2> QED
        BY <2>1 DEF MatchInv, Unlaid, Preparing, Filtered
<1>5. CASE EndAny \/ EmitAny \/ FinishAny
    <2>1. pc' \in {"none", "emit_any", "done", "error"}
        BY <1>5 DEF EndAny, EmitAny, FinishAny, Compare
    <2> QED
        BY <2>1 DEF MatchInv, Unlaid, Preparing, Filtered
<1>6. CASE FilterRow
    <2>1. pc = "filter" /\ row \in Left
        BY <1>6, OpeningKeepsOrder DEF FilterRow, Sweeping, Sweeps
    <2>2. ~left_has_match[row] /\ left_has_match \in [Left -> BOOLEAN]
        BY <2>1 DEF FilterInv, Left
    <2>3. match_count = Cardinality(Flagged) /\ row \notin Flagged
        BY <2>1, <2>2 DEF MatchInv, Unlaid, Flagged
    <2>4. CASE UNCHANGED <<left_has_match, match_count>>
        <3>1. Flagged' = Flagged
            BY <2>4 DEF Flagged
        <3> QED
            BY <2>3, <2>4, <3>1 DEF MatchInv
    <2>5. CASE /\ left_has_match' = [left_has_match EXCEPT ![row] = TRUE]
               /\ match_count' = match_count + 1
        <3>1. Flagged' = Flagged \union {row}
            BY <2>1, <2>2, <2>5 DEF Flagged
        <3>2. Cardinality(Flagged \union {row}) = Cardinality(Flagged) + 1
            BY <2>3, FlaggedFinite, FS_AddElement
        <3> QED
            BY <2>3, <2>5, <3>1, <3>2 DEF MatchInv
    <2> QED
        BY <1>6, <2>4, <2>5 DEF FilterRow
<1>7. CASE EndFilter \/ TotalRow \/ EndTotals \/ OffsetRank \/ EndOffsets \/ PlaceRow \/ EndPlace
    <2>1. pc \in {"filter", "totals", "slices", "place"} /\ UNCHANGED <<match_count, left_has_match>>
        BY <1>7 DEF EndFilter, TotalRow, EndTotals, OffsetRank, EndOffsets, PlaceRow, EndPlace,
            Sweeping, Swept
    <2> QED
        BY <1>1, <2>1 DEF Unlaid
<1>8. CASE AllNext \/ FirstLastNext \/ ResidualNext
    <2>1. pc \in Filtered /\ UNCHANGED <<match_count, left_has_match>>
        BY <1>8 DEF AllNext, CountRow, CountRank, EndCountRanks, EndCount, OffsetRow,
            EndOffsetRows, EmitRow, EmitRank, EndEmitRanks, EndEmit, Translate,
            FinishAll, FirstLastNext, EmitBest, FinishBest, ResidualNext, AskRow, EndAsk,
            EmitSelected, FinishSelected, AskAgainRow, FinishAsk, Sweeping, Swept, Filtered
    <2> QED
        BY <1>1, <2>1
<1>9. CASE UNCHANGED vars
    BY <1>1, <1>9
<1> QED
    BY <1>2, <1>3, <1>4, <1>5, <1>6, <1>7, <1>8, <1>9 DEF Next, AnyNext, LayoutNext

-----------------------------------------------------------------------------
\* keep="first" and "last".

LEMMA BestInit == Init => BestInv
    BY DEF Init, BestInv, Unlaid, Preparing

\* A rank has an extreme exactly when one of its rows is open.
LEMMA UpdatedIsExact ==
    ASSUME PathInv, SweepInv, OpenInv, BestInv, pc = "best", row < LeftLen, ~Inactive
    PROVE  /\ Updated \in [Right -> Values \union {None}]
           /\ \A r \in Right : Updated[r] = None <=> OfRank(OpenBy(row + 1), r) = {}
<1>1. /\ Opened \in SUBSET Right /\ OpenBy(row + 1) = Open \union Opened
    BY OpeningAdds DEF Sweeps
<1>2. /\ active_best \in [Right -> Values \union {None}]
      /\ \A r \in Right : active_best[r] = None <=> OfRank(Open, r) = {}
    BY DEF BestInv
<1>3. ASSUME NEW r \in Right
      PROVE  /\ Updated[r] \in Values \union {None}
             /\ Updated[r] = None <=> OfRank(OpenBy(row + 1), r) = {}
    <2> DEFINE new == {call.right_index[j] : j \in OfRank(Opened, r)}
               all == ({active_best[r]} \ {None}) \union new
    <2>1. Updated[r] = Best(all)
        BY DEF Updated
    <2>2. all \in SUBSET Values
        BY <1>1, <1>2 DEF Values, OfRank
    <2>3. /\ Best(all) \in Values \union {None}
          /\ Best(all) = None <=> all = {}
        BY <2>2, BestIsMember
    <2>4. new = {} <=> OfRank(Opened, r) = {}
        OBVIOUS
    <2>5. all = {} <=> active_best[r] = None /\ new = {}
        OBVIOUS
    <2>6. OfRank(OpenBy(row + 1), r) = OfRank(Open, r) \union OfRank(Opened, r)
        BY <1>1 DEF OfRank
    <2> HIDE DEF all, new
    <2> QED
        BY <1>2, <2>1, <2>3, <2>4, <2>5, <2>6
<1> QED
    BY <1>3 DEF Updated

\* A right row that matches has a rank that the left row's own rank reaches.
LEMMA MatchHasRank ==
    ASSUME PathInv, Ordered, Windowed, NEW k \in Left, NEW j \in Right,
           Matches(left_order[k], j)
    PROVE  /\ second.left[k] # 0 /\ starts[k] <= j /\ j \in OpenBy(k + 1)
           /\ Rank(j) \in RankFrom(k) .. RankCount - 1
<1>1. /\ starts[k] <= j
      /\ second.left[k] # 0 /\ second.left[k] <= second.right[j]
    BY WindowsDecide
<1>2. second.left[k] \in Nat /\ second.right[j] \in Nat
    BY OrderedTypes
<1>3. second.right[j] # 0
    BY <1>1, <1>2
<1>4. /\ RankOf(second.left[k]) <= RankOf(second.right[j])
      /\ RankOf(second.left[k]) \in 0 .. RankCount
    BY <1>1, <1>2, RankTypes
<1>5. Rank(j) = RankOf(second.right[j])
    BY <1>3 DEF Rank
<1>6. RankOf(second.right[j]) \in 0 .. RankCount /\ RankCount \in Nat
    BY <1>2, RankTypes, LengthsAssumption
<1>7. Rank(j) # NoRank
    BY <1>5, <1>6 DEF NoRank
<1>8. Rank(j) \in 0 .. RankCount - 1
    BY <1>7, RankTypes
<1>9. j \in OpenBy(k + 1)
    BY <1>1 DEF OpenBy, Left
<1> QED
    BY <1>1, <1>4, <1>5, <1>6, <1>8, <1>9 DEF RankFrom

\* A flagged row finds an extreme.
LEMMA FlaggedFindsBest ==
    ASSUME PathInv, SweepInv, OpenInv, FilterInv, BestInv, pc = "best", row < LeftLen, ~Inactive
    PROVE  /\ row \in Left
           /\ SuffixBest(Updated) \in Values \union {None}
           /\ left_has_match[row] => second.left[row] # 0 /\ SuffixBest(Updated) # None
<1>1. row \in Left /\ Ordered /\ Windowed
    BY OpeningKeepsOrder DEF Sweeps, PathInv, Preparing
<1>2. FirstRank = RankFrom(row)
    BY DEF FirstRank, RankFrom
<1>3. RankFrom(row) \in 0 .. RankCount /\ RankCount \in 0 .. RightLen
    <2>1. second.left[row] \in Nat
        BY <1>1, OrderedTypes
    <2> QED
        BY <1>1, <2>1, RankTypes DEF RankFrom
<1>4. RankFrom(row) .. RankCount - 1 \in SUBSET Right
    BY <1>3, LengthsAssumption DEF Right
<1>5. Updated \in [Right -> Values \union {None}]
    BY UpdatedIsExact
<1> DEFINE S == {Updated[r] : r \in RankFrom(row) .. RankCount - 1} \ {None}
<1>6. S \in SUBSET Values /\ SuffixBest(Updated) = Best(S)
    BY <1>2, <1>4, <1>5 DEF SuffixBest
<1>7. ASSUME left_has_match[row] PROVE second.left[row] # 0 /\ S # {}
    <2>1. Reaches(row)
        BY <1>1, <1>7 DEF FilterInv, Filtered
    <2>2. PICK j \in Right : Matches(left_order[row], j)
        BY <2>1 DEF Reaches
    <2>3. /\ second.left[row] # 0 /\ j \in OpenBy(row + 1)
          /\ Rank(j) \in RankFrom(row) .. RankCount - 1
        BY <1>1, <2>2, MatchHasRank
    <2>4. Updated[Rank(j)] # None
        BY <1>4, <2>3, UpdatedIsExact DEF OfRank
    <2> QED
        BY <2>3, <2>4
<1> HIDE DEF S
<1> QED
    BY <1>1, <1>6, <1>7, BestIsMember

LEMMA EmitBestKeeps ==
    ASSUME PathInv, SweepInv, OpenInv, FilterInv, BestInv, EmitBest,
           left_output \in Seq(Left), right_output \in Seq(Values)
    PROVE  /\ BestInv'
           /\ left_output' \in Seq(Left) /\ right_output' \in Seq(Values)
<1>1. /\ pc = "best" /\ row < LeftLen /\ ~Inactive /\ active_best' = Updated
      /\ row' = row + 1 /\ UNCHANGED pathVars /\ previous_end' = starts[row]
      /\ left_has_match' = left_has_match
    BY DEF EmitBest, Sweeping, Advance
<1>2. pc' = "best"
    BY AdvanceKeepsSweep DEF EmitBest, Sweeps, Scanning
<1>3. /\ row \in Left /\ SuffixBest(Updated) \in Values \union {None}
      /\ left_has_match[row] => second.left[row] # 0 /\ SuffixBest(Updated) # None
    BY <1>1, FlaggedFindsBest
<1>4. Open' = OpenBy(row + 1)
    BY <1>1, OpeningAdds DEF Open, Sweeps
<1>5. \A r : OfRank(Open, r)' = OfRank(OpenBy(row + 1), r)
    BY <1>1, <1>4, OpenIsStable DEF OfRank
<1>6. /\ active_best' \in [Right -> Values' \union {None}]
      /\ \A r \in Right : active_best'[r] = None <=> OfRank(Open, r)' = {}
    <2>1. Values' = Values
        BY <1>1 DEF Values
    <2> QED
        BY <1>1, <1>5, <2>1, UpdatedIsExact
<1>7. Len(left_output) = Cardinality({k \in Flagged : k < row})
    BY <1>1 DEF BestInv
<1>8. {k \in Flagged : k < row}' = {k \in Flagged : k < row + 1}
    BY <1>1 DEF Flagged
<1>9. SuffixBest(active_best') = SuffixBest(Updated)
    BY <1>1
<1>10. CASE left_has_match[row]
    <2>1. /\ left_output' = Append(left_output, left_order[row])
          /\ right_output' = Append(right_output, SuffixBest(active_best'))
        BY <1>3, <1>9, <1>10 DEF EmitBest
    <2>2. left_order[row] \in Left
        BY <1>1, <1>3, OrderedTypes DEF PathInv, Preparing
    <2>3. /\ left_output' \in Seq(Left) /\ right_output' \in Seq(Values)
          /\ Len(left_output') = Len(left_output) + 1
        BY <1>3, <1>9, <1>10, <2>1, <2>2
    <2>4. Len(left_output') = Cardinality({k \in Flagged : k < row + 1})
        BY <1>3, <1>7, <1>10, <2>3, FlaggedBefore
    <2> QED
        BY <1>2, <1>6, <1>8, <2>3, <2>4 DEF BestInv, Unlaid, Preparing
<1>11. CASE ~left_has_match[row]
    <2>1. left_output' = left_output /\ right_output' = right_output
        BY <1>11 DEF EmitBest
    <2>2. Cardinality({k \in Flagged : k < row + 1}) = Cardinality({k \in Flagged : k < row}) + 0
        BY <1>3, <1>11, FlaggedBefore
    <2>3. Len(left_output) \in Nat
        BY LenProperties
    <2>4. Len(left_output') = Cardinality({k \in Flagged : k < row + 1})
        BY <1>7, <2>1, <2>2, <2>3
    <2> QED
        BY <1>2, <1>6, <1>8, <2>1, <2>4 DEF BestInv, Unlaid, Preparing
<1> QED
    BY <1>10, <1>11

\* The second pass has emitted one row for every flagged one.
LEMMA FinishBestAgrees ==
    ASSUME PathInv, SweepInv, MatchInv, BestInv, FinishBest
    PROVE  pc' = "done"
<1>1. pc = "best" /\ row = LeftLen
    BY DEF FinishBest, Swept
<1>2. {k \in Flagged : k < row} = Flagged
    BY <1>1, LengthsAssumption DEF Flagged, Left
<1> QED
    BY <1>1, <1>2 DEF BestInv, MatchInv, Filtered, FinishBest, Compare

LEMMA BestNext ==
    ASSUME PathInv, SweepInv, OpenInv, FilterInv, BestInv, OtherTypes, [Next]_vars
    PROVE  BestInv'
<1>1. CASE PathsNext
    <2>1. CASE BuildFirst \/ BuildSecond \/ OrderLeft \/ ReturnNone
        BY <2>1 DEF BuildFirst, BuildSecond, OrderLeft, ReturnNone, BestInv, Unlaid, Preparing
    <2>2. CASE FindStarts
        BY <2>2 DEF FindStarts, FirstPass, BestInv, Unlaid, Preparing
    <2> QED
        BY <1>1, <2>1, <2>2 DEF PathsNext
<1>2. CASE SkipInactive
    <2>1. UNCHANGED <<pc, active_best, outVars, previous_end>> /\ UNCHANGED pathVars
        BY <1>2, SkippedRow
    <2>2. CASE pc # "best"
        BY <2>1, <2>2 DEF BestInv
    <2>3. CASE pc = "best"
        <3>1. row \in Left /\ ~left_has_match[row] /\ row' = row + 1
            BY <1>2, <2>3, SkippedRow DEF FilterInv, Filtered
        <3>2. Cardinality({k \in Flagged : k < row + 1}) = Cardinality({k \in Flagged : k < row}) + 0
            BY <3>1, FlaggedBefore
        <3>3. Cardinality({k \in Flagged : k < row}) \in Nat
            <4>1. {k \in Flagged : k < row} \in SUBSET Left
                BY DEF Flagged
            <4> QED
                BY <4>1, FlaggedFinite, LengthsAssumption
        <3>4. {k \in Flagged : k < row}' = {k \in Flagged : k < row + 1}
            BY <1>2, <3>1, SkippedRow DEF Flagged
        <3>5. \A r : OfRank(Open, r)' = OfRank(Open, r)
            BY <2>1, OpenIsStable DEF OfRank, Open
        <3>6. Values' = Values
            BY <2>1 DEF Values
        <3>7. Len(left_output') = Cardinality({k \in Flagged : k < row}')
            <4>1. Len(left_output) = Cardinality({k \in Flagged : k < row})
                BY <2>3 DEF BestInv
            <4>2. left_output' = left_output
                BY <2>1
            <4>3. Cardinality({k \in Flagged : k < row + 1}) = Cardinality({k \in Flagged : k < row})
                BY <3>2, <3>3
            <4> QED
                BY <3>4, <4>1, <4>2, <4>3
        <3>8. /\ active_best' \in [Right -> Values' \union {None}]
              /\ \A r \in Right : active_best'[r] = None <=> OfRank(Open, r)' = {}
            BY <2>1, <2>3, <3>5, <3>6 DEF BestInv
        <3> QED
            BY <2>1, <2>3, <3>7, <3>8 DEF BestInv, Unlaid, Preparing
    <2> QED
        BY <2>2, <2>3
<1>3. CASE AnyNext
    <2>1. pc' \in {"any", "none", "emit_any", "done", "error"}
        BY <1>3 DEF AnyNext, CountAny, EndAny, EmitAny, FinishAny, Advance, Compare
    <2> QED
        BY <2>1 DEF BestInv, Unlaid, Preparing
<1>4. CASE LayoutNext
    <2>1. CASE EndPlace
        <3>1. /\ pc = "place" /\ pc' \in {"error", "ask", "count", "best"} /\ row' = 0
              /\ previous_end' = RightLen /\ UNCHANGED <<pathVars, active_best, outVars>>
            BY <2>1 DEF EndPlace, Swept, Rewind
        <3>2. active_best = [r \in Right |-> None] /\ left_output = <<>> /\ right_output = <<>>
            BY <3>1 DEF BestInv, Unlaid
        <3>3. \A r : OfRank(Open, r)' = {}
            BY <3>1, NothingOpen DEF OfRank, Open
        <3>4. {k \in Flagged : k < row}' = {}
            BY <3>1, LengthsAssumption DEF Flagged, Left
        <3> QED
            BY <3>1, <3>2, <3>3, <3>4, FS_EmptySet DEF BestInv, Unlaid, Preparing
    <2>2. CASE ~EndPlace
        <3>1. /\ pc \in Unlaid /\ pc' \in {"error", "filter", "none", "totals", "slices", "place"}
              /\ UNCHANGED <<active_best, outVars>>
            BY <1>4, <2>2 DEF LayoutNext, FilterRow, EndFilter, TotalRow, EndTotals, OffsetRank,
                EndOffsets, PlaceRow, Sweeping, Swept, Advance, Unlaid
        <3> QED
            BY <3>1 DEF BestInv, Unlaid
    <2> QED
        BY <2>1, <2>2
<1>5. CASE AllNext
    <2>1. \/ pc' \in {"translate", "done", "none", "error"}
          \/ /\ pc \in Counting \union {"offsets", "emit", "emit_ranks"}
             /\ pc' \in Counting \union {"offsets", "emit", "emit_ranks"}
             /\ UNCHANGED outVars
        BY <1>5 DEF AllNext, CountRow, CountRank, EndCountRanks, EndCount, OffsetRow,
            EndOffsetRows, EmitRow, EmitRank, EndEmitRanks, EndEmit, Translate, FinishAll,
            Sweeping, Swept, Advance
    <2> QED
        BY <2>1 DEF BestInv, Unlaid, Preparing
<1>6. CASE EmitBest
    BY <1>6, EmitBestKeeps DEF OtherTypes, OutputTypeOK, Values
<1>7. CASE FinishBest
    BY <1>7 DEF FinishBest, Compare, BestInv, Unlaid, Preparing
<1>8. CASE ResidualNext
    <2>1. \/ pc' \in {"none", "emit_selected", "ask_again", "done", "error"}
          \/ pc = "ask" /\ pc' = "ask" /\ UNCHANGED outVars
        BY <1>8 DEF ResidualNext, AskRow, EndAsk, EmitSelected, FinishSelected, AskAgainRow,
            FinishAsk, Sweeping, Swept, Advance, Compare
    <2> QED
        BY <2>1 DEF BestInv, Unlaid, Preparing
<1>9. CASE UNCHANGED vars
    <2>1. \A r : OfRank(Open, r)' = OfRank(Open, r)
        BY <1>9, OpenIsStable DEF OfRank, Open
    <2>2. Values' = Values /\ {k \in Flagged : k < row}' = {k \in Flagged : k < row}
        BY <1>9 DEF Values, Flagged
    <2> QED
        BY <1>9, <2>1, <2>2 DEF BestInv
<1> QED
    BY <1>1, <1>2, <1>3, <1>4, <1>5, <1>6, <1>7, <1>8, <1>9 DEF Next, FirstLastNext

-----------------------------------------------------------------------------
\* keep="all": the counts.

LEMMA CandidatesFinite ==
    \A i, n : /\ Candidates(i, n) \in SUBSET Right
              /\ IsFiniteSet(Candidates(i, n))
              /\ Cardinality(Candidates(i, n)) \in 0 .. RightLen
<1>1. \A i, n : Candidates(i, n) \in SUBSET Right
    BY DEF Candidates, OpenBy
<1> QED
    BY <1>1, RightFinite

LEMMA FromTypes ==
    ASSUME PathInv, Ordered, NEW i \in Left
    PROVE  RankFrom(i) \in 0 .. RankCount /\ RankCount \in 0 .. RightLen
<1>1. second.left[i] \in Nat
    BY OrderedTypes
<1> QED
    BY <1>1, RankTypes DEF RankFrom

\* Before its first rank the inner loop has met nothing; a rank adds its open rows.
LEMMA CandidatesGrow ==
    ASSUME PathInv, Ordered, NEW i \in Left
    PROVE  /\ Cardinality(Candidates(i, RankFrom(i))) = 0
           /\ \A n \in RankFrom(i) .. RankCount :
                Cardinality(Candidates(i, n + 1))
                    = Cardinality(Candidates(i, n)) + Cardinality(OfRank(OpenBy(i + 1), n))
<1>1. RankFrom(i) \in Int /\ \A j \in OpenBy(i + 1) : Rank(j) \in Int
    BY FromTypes, RankTypes DEF OpenBy
<1>2. Candidates(i, RankFrom(i)) = {}
    BY <1>1 DEF Candidates
<1>3. ASSUME NEW n \in RankFrom(i) .. RankCount
      PROVE  Cardinality(Candidates(i, n + 1))
                = Cardinality(Candidates(i, n)) + Cardinality(OfRank(OpenBy(i + 1), n))
    <2>1. n \in Int /\ RankFrom(i) <= n
        BY <1>1
    <2>2. \A j \in OpenBy(i + 1) :
            RankFrom(i) <= Rank(j) /\ Rank(j) < n + 1
                <=> (RankFrom(i) <= Rank(j) /\ Rank(j) < n) \/ Rank(j) = n
        BY <1>1, <2>1
    <2>3. Candidates(i, n + 1) = Candidates(i, n) \union OfRank(OpenBy(i + 1), n)
        BY <2>2 DEF Candidates, OfRank
    <2>4. Candidates(i, n) \cap OfRank(OpenBy(i + 1), n) = {}
        BY <2>1 DEF Candidates, OfRank
    <2>5. IsFiniteSet(Candidates(i, n)) /\ IsFiniteSet(OfRank(OpenBy(i + 1), n))
        BY CandidatesFinite, OfRankFinite DEF OpenBy
    <2> QED
        BY <2>3, <2>4, <2>5, DisjointUnion
<1> QED
    BY <1>2, <1>3, FS_EmptySet

\* The active count of the rank that an inner loop visits.
LEMMA ActiveOfRank ==
    ASSUME PathInv, SweepInv, OpenInv, LayoutInv, pc \in InRanks, rank \in RankFrom(row) .. RankCount - 1
    PROVE  /\ row \in Left /\ rank \in 0 .. RankCount - 1 /\ rank \in Right
           /\ active_counts[rank] = Cardinality(OfRank(OpenBy(row + 1), rank))
           /\ Cardinality(Candidates(row, rank + 1))
                = Cardinality(Candidates(row, rank)) + active_counts[rank]
<1>1. row \in Left /\ Ordered
    BY LengthsAssumption DEF InRanks, SweepInv, Left, PathInv, Preparing
<1>2. rank \in 0 .. RankCount - 1 /\ rank \in Right /\ rank \in RankFrom(row) .. RankCount
    BY <1>1, FromTypes, LengthsAssumption DEF Right
<1>3. Tallied(active_counts, Open) /\ Open = OpenBy(row + 1)
    BY DEF InRanks, LayoutInv, OpenInv
<1>4. active_counts[rank] = Cardinality(OfRank(OpenBy(row + 1), rank))
    BY <1>2, <1>3 DEF Tallied
<1> QED
    BY <1>1, <1>2, <1>4, CandidatesGrow

LEMMA CountIsStable ==
    ASSUME UNCHANGED pathVars, UNCHANGED left_has_match
    PROVE  /\ \A i : RankFrom(i)' = RankFrom(i) /\ CountOf(i)' = CountOf(i)
           /\ \A i, n : Candidates(i, n)' = Candidates(i, n)
<1>1. \A i : RankFrom(i)' = RankFrom(i)
    BY DEF RankFrom, RankOf, Labels
<1>2. \A i, n : Candidates(i, n)' = Candidates(i, n)
    BY <1>1, OpenIsStable DEF Candidates
<1> QED
    BY <1>1, <1>2, OpenIsStable DEF CountOf

LEMMA CountInit == Init => CountInv
    BY DEF Init, CountInv, Unlaid, Reserved, Copying, Preparing, Zero

LEMMA CountRowKeeps ==
    ASSUME PathInv, SweepInv, FilterInv, CountInv, CountRow
    PROVE  CountInv'
<1>1. /\ pc = "count" /\ row < LeftLen /\ ~Inactive /\ UNCHANGED pathVars
      /\ UNCHANGED <<left_has_match, left_match_counts>>
    BY DEF CountRow, Sweeping
<1>2. row \in Left /\ Ordered /\ left_has_match \in [Left -> BOOLEAN]
    BY <1>1, OpeningKeepsOrder DEF Sweeps, PathInv, Preparing, FilterInv
<1>3. \A i \in Left : left_match_counts[i] = IF i < row THEN CountOf(i) ELSE 0
    BY <1>1 DEF CountInv
<1>4. CASE left_has_match[row]
    <2>1. row' = row /\ rank' = FirstRank /\ matches' = 0
        BY <1>4 DEF CountRow
    <2>2. pc' = "count_ranks"
        BY <1>1, <1>4, AdvanceKeepsSweep DEF CountRow, Sweeps, Scanning
    <2>3. rank' = RankFrom(row) /\ Cardinality(Candidates(row, RankFrom(row))) = 0
        BY <1>2, <2>1, CandidatesGrow DEF FirstRank, RankFrom
    <2>4. Candidates(row, rank)' = Candidates(row, RankFrom(row))
        BY <1>1, <2>1, <2>3, CountIsStable DEF Candidates
    <2>5. RankFrom(row)' = RankFrom(row) /\ RankCount' = RankCount
        BY <1>1, <2>1, CountIsStable, OpenIsStable DEF RankFrom
    <2>6. rank' \in (RankFrom(row) .. RankCount)' /\ matches' = Cardinality(Candidates(row, rank)')
        BY <1>2, <2>1, <2>3, <2>4, <2>5, FromTypes
    <2>7. \A i \in Left : left_match_counts'[i] = IF i < row' THEN CountOf(i)' ELSE 0
        BY <1>1, <1>3, <2>1, CountIsStable
    <2> QED
        BY <1>1, <1>4, <2>1, <2>2, <2>6, <2>7 DEF CountInv, Unlaid, Reserved, Copying, Preparing
<1>5. CASE ~left_has_match[row]
    <2>1. row' = row + 1
        BY <1>5 DEF CountRow
    <2>2. pc' = "count"
        BY <1>1, <1>5, AdvanceKeepsSweep DEF CountRow, Sweeps, Scanning
    <2>3. CountOf(row) = 0
        BY <1>5 DEF CountOf
    <2>4. \A i \in Left : i < row + 1 <=> i < row \/ i = row
        BY <1>2 DEF Left
    <2>5. \A i \in Left : left_match_counts'[i] = IF i < row' THEN CountOf(i)' ELSE 0
        BY <1>1, <1>3, <2>1, <2>3, <2>4, CountIsStable
    <2> QED
        BY <2>2, <2>5 DEF CountInv, Unlaid, Reserved, Copying, Preparing
<1> QED
    BY <1>4, <1>5

LEMMA CountRankKeeps ==
    ASSUME PathInv, SweepInv, OpenInv, LayoutInv, CountInv, CountRank
    PROVE  CountInv'
<1>1. /\ pc = "count_ranks" /\ pc' = pc /\ row' = row /\ UNCHANGED pathVars
      /\ rank < RankCount /\ rank' = rank + 1 /\ matches' = matches + active_counts[rank]
      /\ UNCHANGED <<left_has_match, left_match_counts>>
    BY DEF CountRank
<1>2. /\ \A i \in Left : left_match_counts[i] = IF i < row THEN CountOf(i) ELSE 0
      /\ left_has_match[row] /\ rank \in RankFrom(row) .. RankCount
      /\ matches = Cardinality(Candidates(row, rank))
    BY <1>1 DEF CountInv
<1>3. row \in Left /\ Ordered
    BY <1>1, LengthsAssumption DEF SweepInv, Left, PathInv, Preparing
<1>4. RankFrom(row) \in Int /\ RankCount \in Int /\ rank \in RankFrom(row) .. RankCount - 1
    BY <1>1, <1>2, <1>3, FromTypes
<1>5. matches' = Cardinality(Candidates(row, rank + 1))
    BY <1>1, <1>2, <1>4, ActiveOfRank DEF InRanks
<1>6. Candidates(row, rank)' = Candidates(row, rank + 1)
    BY <1>1, CountIsStable DEF Candidates
<1>7. RankFrom(row)' = RankFrom(row) /\ RankCount' = RankCount
    BY <1>1, CountIsStable, OpenIsStable DEF RankFrom
<1>8. rank' \in (RankFrom(row) .. RankCount)'
    BY <1>1, <1>4, <1>7
<1>9. \A i \in Left : left_match_counts'[i] = IF i < row' THEN CountOf(i)' ELSE 0
    BY <1>1, <1>2, CountIsStable
<1> QED
    BY <1>1, <1>2, <1>5, <1>6, <1>8, <1>9 DEF CountInv, Unlaid, Reserved, Copying, Preparing

LEMMA EndCountRanksKeeps ==
    ASSUME PathInv, SweepInv, SumInv, CountInv, EndCountRanks
    PROVE  /\ CountInv'
           /\ row \in Left /\ matches = CountOf(row) /\ CountOf(row) \in Nat
<1>1. /\ pc = "count_ranks" /\ pc' = "count" /\ row' = row + 1 /\ UNCHANGED pathVars
      /\ rank = RankCount /\ left_has_match' = left_has_match
      /\ left_match_counts' = [left_match_counts EXCEPT ![row] = matches]
    BY DEF EndCountRanks
<1>2. /\ \A i \in Left : left_match_counts[i] = IF i < row THEN CountOf(i) ELSE 0
      /\ left_has_match[row] /\ matches = Cardinality(Candidates(row, rank))
    BY <1>1 DEF CountInv
<1>3. row \in Left
    BY <1>1, LengthsAssumption DEF SweepInv, Left
<1>4. matches = CountOf(row) /\ matches \in Nat
    BY <1>1, <1>2, CandidatesFinite, LengthsAssumption DEF CountOf
<1>5. \A i \in Left : i < row + 1 <=> i < row \/ i = row
    BY <1>3 DEF Left
<1>6. left_match_counts \in [Left -> Nat]
    BY DEF SumInv
<1>7. \A i \in Left : left_match_counts'[i] = IF i < row' THEN CountOf(i)' ELSE 0
    BY <1>1, <1>2, <1>3, <1>4, <1>5, <1>6, CountIsStable
<1> QED
    BY <1>1, <1>3, <1>4, <1>7 DEF CountInv, Unlaid, Reserved, Copying, Preparing

LEMMA EmitRowKeeps ==
    ASSUME PathInv, SweepInv, CountInv, SumInv, EmitRow
    PROVE  CountInv'
<1>1. /\ pc = "emit" /\ row < LeftLen /\ ~Inactive /\ UNCHANGED pathVars
      /\ UNCHANGED <<left_has_match, left_match_counts, offsets>>
    BY DEF EmitRow, Sweeping
<1>2. row \in Left /\ Ordered
    BY <1>1, OpeningKeepsOrder DEF Sweeps, PathInv, Preparing
<1>3. \A i \in Left : left_match_counts[i] = CountOf(i)
    BY <1>1 DEF CountInv, Reserved, Copying
<1>4. \A i \in Left : left_match_counts'[i] = CountOf(i)'
    BY <1>1, <1>3, CountIsStable
<1>5. CASE left_match_counts[row] = 0
    <2>1. pc' = "emit"
        BY <1>1, <1>5, AdvanceKeepsSweep DEF EmitRow, Sweeps, Scanning
    <2> QED
        BY <1>4, <2>1 DEF CountInv, Unlaid, Preparing
<1>6. CASE left_match_counts[row] # 0
    <2>1. row' = row /\ rank' = FirstRank /\ output_position' = offsets[row]
        BY <1>6 DEF EmitRow
    <2>2. pc' = "emit_ranks"
        BY <1>1, <1>6, AdvanceKeepsSweep DEF EmitRow, Sweeps, Scanning
    <2>3. rank' = RankFrom(row) /\ Cardinality(Candidates(row, RankFrom(row))) = 0
        BY <1>2, <2>1, CandidatesGrow DEF FirstRank, RankFrom
    <2>4. Candidates(row, rank)' = Candidates(row, RankFrom(row))
        BY <1>1, <2>1, <2>3, CountIsStable DEF Candidates
    <2>5. RankFrom(row)' = RankFrom(row) /\ RankCount' = RankCount
        BY <1>1, <2>1, CountIsStable, OpenIsStable DEF RankFrom
    <2>6. rank' \in (RankFrom(row) .. RankCount)'
        BY <1>2, <2>1, <2>3, <2>5, FromTypes
    <2>7. offsets[row] \in Nat
        BY <1>2 DEF SumInv
    <2>8. output_position' = offsets'[row'] + Cardinality(Candidates(row, rank)')
        BY <1>1, <2>1, <2>3, <2>4, <2>7
    <2> QED
        BY <1>1, <1>4, <1>6, <2>1, <2>2, <2>6, <2>8 DEF CountInv, Unlaid, Preparing
<1> QED
    BY <1>5, <1>6

LEMMA EmitRankKeeps ==
    ASSUME PathInv, SweepInv, OpenInv, LayoutInv, CountInv, SumInv, EmitRank
    PROVE  CountInv'
<1>1. /\ pc = "emit_ranks" /\ pc' = pc /\ row' = row /\ UNCHANGED pathVars
      /\ rank < RankCount /\ rank' = rank + 1
      /\ output_position' = output_position + active_counts[rank]
      /\ UNCHANGED <<left_has_match, left_match_counts, offsets>>
    BY DEF EmitRank
<1>2. /\ \A i \in Left : left_match_counts[i] = CountOf(i)
      /\ left_match_counts[row] # 0 /\ rank \in RankFrom(row) .. RankCount
      /\ output_position = offsets[row] + Cardinality(Candidates(row, rank))
    BY <1>1 DEF CountInv, Reserved, Copying
<1>3. row \in Left /\ Ordered
    BY <1>1, LengthsAssumption DEF SweepInv, Left, PathInv, Preparing
<1>4. RankFrom(row) \in Int /\ RankCount \in Int /\ rank \in RankFrom(row) .. RankCount - 1
    BY <1>1, <1>2, <1>3, FromTypes
<1>5. Cardinality(Candidates(row, rank + 1)) = Cardinality(Candidates(row, rank)) + active_counts[rank]
    BY <1>1, <1>4, ActiveOfRank DEF InRanks
<1>6. /\ offsets[row] \in Nat /\ Cardinality(Candidates(row, rank)) \in Nat
      /\ active_counts[rank] \in Nat
    <2>1. rank \in Right
        BY <1>1, <1>4, ActiveOfRank DEF InRanks
    <2> QED
        BY <1>1, <1>3, <2>1, CandidatesFinite, LengthsAssumption DEF SumInv, LayoutInv, Tallied
<1>7. Candidates(row, rank)' = Candidates(row, rank + 1)
    BY <1>1, CountIsStable DEF Candidates
<1>8. output_position' = offsets'[row'] + Cardinality(Candidates(row, rank)')
    BY <1>1, <1>2, <1>5, <1>6, <1>7
<1>9. RankFrom(row)' = RankFrom(row) /\ RankCount' = RankCount
    BY <1>1, CountIsStable, OpenIsStable DEF RankFrom
<1>10. rank' \in (RankFrom(row) .. RankCount)'
    BY <1>1, <1>4, <1>9
<1>11. \A i \in Left : left_match_counts'[i] = CountOf(i)'
    BY <1>1, <1>2, CountIsStable
<1> QED
    BY <1>1, <1>2, <1>8, <1>10, <1>11 DEF CountInv, Unlaid, Preparing

\* A row's copies end where its count says.
LEMMA EmitRanksAgree ==
    ASSUME PathInv, SweepInv, CountInv, EndEmitRanks
    PROVE  pc' = "emit"
<1>1. pc = "emit_ranks" /\ rank = RankCount
    BY DEF EndEmitRanks
<1>2. /\ left_match_counts[row] # 0
      /\ output_position = offsets[row] + Cardinality(Candidates(row, rank))
      /\ \A i \in Left : left_match_counts[i] = CountOf(i)
    BY <1>1 DEF CountInv, Reserved, Copying
<1>3. row \in Left
    BY <1>1, LengthsAssumption DEF SweepInv, Left
<1>4. left_match_counts[row] = Cardinality(Candidates(row, rank))
    BY <1>1, <1>2, <1>3 DEF CountOf
<1> QED
    BY <1>2, <1>4 DEF EndEmitRanks

LEMMA CountNext ==
    ASSUME PathInv, SweepInv, OpenInv, LayoutInv, FilterInv, CountInv, SumInv, [Next]_vars
    PROVE  CountInv'
<1>1. CASE PathsNext
    <2>1. pc \in Unlaid /\ left_match_counts' = left_match_counts
        BY <1>1 DEF PathsNext, BuildFirst, BuildSecond, OrderLeft, FindStarts, ReturnNone,
            Unlaid, Preparing
    <2>2. pc' \in Preparing \union {"any", "filter", "none"}
        BY <1>1 DEF PathsNext, BuildFirst, BuildSecond, OrderLeft, FindStarts, FirstPass,
            ReturnNone, Preparing
    <2> QED
        BY <2>1, <2>2 DEF CountInv, Unlaid, Reserved, Copying, Preparing
<1>2. CASE SkipInactive
    <2>1. /\ row \in Left /\ row' = row + 1 /\ pc' = pc /\ pc \in Sweeps
          /\ UNCHANGED pathVars /\ UNCHANGED <<left_has_match, left_match_counts>>
        BY <1>2, SkippedRow DEF SkipInactive
    <2>2. CASE pc = "count"
        <3>1. CountOf(row) = 0
            BY <1>2, <2>1, <2>2, SkippedRow DEF FilterInv, Filtered, CountOf
        <3>2. \A i \in Left : i < row + 1 <=> i < row \/ i = row
            BY <2>1 DEF Left
        <3>3. \A i \in Left : left_match_counts[i] = IF i < row THEN CountOf(i) ELSE 0
            BY <2>2 DEF CountInv
        <3>4. \A i \in Left : left_match_counts'[i] = IF i < row' THEN CountOf(i)' ELSE 0
            BY <2>1, <3>1, <3>2, <3>3, CountIsStable
        <3> QED
            BY <2>1, <2>2, <3>4 DEF CountInv, Unlaid, Reserved, Copying, Preparing
    <2>3. CASE pc # "count"
        <3>1. pc \in Reserved => \A i \in Left : left_match_counts'[i] = CountOf(i)'
            BY <2>1, CountIsStable DEF CountInv
        <3> QED
            BY <2>1, <2>3, <3>1 DEF CountInv, Sweeps
    <2> QED
        BY <2>2, <2>3
<1>3. CASE AnyNext
    <2>1. pc' \in {"any", "none", "emit_any", "done", "error"}
        BY <1>3 DEF AnyNext, CountAny, EndAny, EmitAny, FinishAny, Advance, Compare
    <2> QED
        BY <2>1 DEF CountInv, Unlaid, Reserved, Copying, Preparing
<1>4. CASE LayoutNext
    <2>1. CASE EndPlace
        <3>1. /\ pc = "place" /\ pc' \in {"error", "ask", "count", "best"} /\ row' = 0
              /\ left_match_counts' = left_match_counts
            BY <2>1 DEF EndPlace, Swept, Rewind
        <3>2. \A i \in Left : left_match_counts[i] = 0 /\ ~(i < 0)
            BY <3>1, LengthsAssumption DEF CountInv, Unlaid, Left
        <3> QED
            BY <3>1, <3>2 DEF CountInv, Unlaid, Reserved, Copying, Preparing
    <2>2. CASE ~EndPlace
        <3>1. /\ pc \in Unlaid /\ pc' \in {"error", "filter", "none", "totals", "slices", "place"}
              /\ left_match_counts' = left_match_counts
            BY <1>4, <2>2 DEF LayoutNext, FilterRow, EndFilter, TotalRow, EndTotals, OffsetRank,
                EndOffsets, PlaceRow, Sweeping, Swept, Advance, Unlaid
        <3> QED
            BY <3>1 DEF CountInv, Unlaid, Reserved, Copying
    <2> QED
        BY <2>1, <2>2
<1>5. CASE EndCount
    <2>1. /\ pc = "count" /\ row = LeftLen /\ pc' \in {"none", "offsets"}
          /\ UNCHANGED pathVars /\ UNCHANGED <<left_has_match, left_match_counts>>
        BY <1>5 DEF EndCount, Swept
    <2>2. \A i \in Left : i < row
        BY <2>1, LengthsAssumption DEF Left
    <2>3. \A i \in Left : left_match_counts[i] = CountOf(i)
        BY <2>1, <2>2 DEF CountInv
    <2>4. \A i \in Left : left_match_counts'[i] = CountOf(i)'
        BY <2>1, <2>3, CountIsStable
    <2> QED
        BY <2>1, <2>4 DEF CountInv, Unlaid, Reserved, Copying, Preparing
<1>6. CASE OffsetRow \/ EndOffsetRows \/ EndEmitRanks \/ EndEmit \/ Translate \/ FinishAll
    <2>1. /\ pc \in Reserved /\ pc' \in {"offsets", "emit", "translate", "done", "error"}
          /\ UNCHANGED pathVars /\ UNCHANGED <<left_has_match, left_match_counts>>
        BY <1>6 DEF OffsetRow, EndOffsetRows, EndEmitRanks, EndEmit, Translate, FinishAll,
            Swept, Reserved, Copying
    <2>2. \A i \in Left : left_match_counts'[i] = CountOf(i)'
        BY <2>1, CountIsStable DEF CountInv
    <2> QED
        BY <2>1, <2>2 DEF CountInv, Unlaid, Preparing
<1>7. CASE FirstLastNext \/ ResidualNext
    <2>1. pc' \in {"best", "ask", "none", "emit_selected", "ask_again", "done", "error"}
        BY <1>7 DEF FirstLastNext, EmitBest, FinishBest, ResidualNext, AskRow, EndAsk,
            EmitSelected, FinishSelected, AskAgainRow, FinishAsk, Swept, Advance, Compare
    <2> QED
        BY <2>1 DEF CountInv, Unlaid, Reserved, Copying, Preparing
<1>8. CASE UNCHANGED vars
    <2>1. /\ \A i \in Left : CountOf(i)' = CountOf(i)
          /\ RankFrom(row)' = RankFrom(row) /\ RankCount' = RankCount
          /\ Candidates(row, rank)' = Candidates(row, rank)
        BY <1>8, CountIsStable, OpenIsStable DEF RankFrom, Candidates
    <2> QED
        BY <1>8, <2>1 DEF CountInv
<1> QED
    BY <1>1, <1>2, <1>3, <1>4, <1>5, <1>6, <1>7, <1>8, CountRowKeeps, CountRankKeeps,
        EndCountRanksKeeps, EmitRowKeeps, EmitRankKeeps DEF Next, AllNext

-----------------------------------------------------------------------------
\* The residual walks.

\* The slots of a row are slots of the layout, which hold right rows.
LEMMA SlotsFit ==
    ASSUME PathInv, SweepInv, LayoutInv, pc \in LaidOut, NEW i \in Left
    PROVE  /\ SlotsOf(i) \in SUBSET Right
           /\ \A s \in SlotsOf(i) : layout_positions[s] \in Right
<1>1. Ordered /\ Sliced(RankCount) /\ Placed(LeftLen) /\ layout_offsets \in [Right -> Nat]
    BY DEF PathInv, Preparing, LayoutInv
<1>2. /\ OpenBy(i + 1) \in SUBSET Whole /\ OpenBy(i + 1) \in SUBSET Right /\ Whole \in SUBSET Right
      /\ i + 1 \in 0 .. LeftLen
    BY OpenTypes, LengthsAssumption DEF Whole, Left
<1>3. ASSUME NEW s \in SlotsOf(i) PROVE s \in Right /\ layout_positions[s] \in Right
    <2> DEFINE size(r) == Cardinality(OfRank(OpenBy(i + 1), r))
    <2>1. PICK r \in RankFrom(i) .. RankCount - 1 : s \in layout_offsets[r] .. layout_offsets[r] + size(r) - 1
        BY DEF SlotsOf
    <2>2. r \in 0 .. RankCount - 1 /\ r \in Right
        BY <1>1, FromTypes, LengthsAssumption DEF Right
    <2>3. OfRank(OpenBy(i + 1), r) \in SUBSET OfRank(Whole, r)
        BY <1>2 DEF OfRank
    <2>4. size(r) \in Nat /\ size(r) <= Cardinality(OfRank(Whole, r)) /\ Cardinality(OfRank(Whole, r)) \in Nat
        BY <1>2, <2>3, OfRankFinite, FS_Subset
    <2> HIDE DEF size
    <2>5. layout_offsets[r] \in Nat
        BY <1>1, <2>2
    <2>6. PICK m \in 0 .. size(r) - 1 : s = layout_offsets[r] + m
        <3>1. s - layout_offsets[r] \in 0 .. size(r) - 1 /\ s = layout_offsets[r] + (s - layout_offsets[r])
            BY <2>1, <2>4, <2>5
        <3> QED
            BY <3>1
    <2>7. m \in 0 .. Cardinality(OfRank(Whole, r)) - 1
        BY <2>4
    <2>8. s \in AllSlots
        BY <1>1, <2>2, <2>6, <2>7, SlicesFit
    <2>9. s \in Right
        BY <2>8, BelowFinite, LengthsAssumption DEF AllSlots, Right
    <2>10. layout_positions[s] \in Prefix(r, size(r))
        BY <2>6 DEF Prefix
    <2>11. Prefix(r, size(r)) = OfRank(OpenBy(i + 1), r)
        BY <1>1, <1>2, <2>2 DEF Placed, size
    <2> QED
        BY <1>2, <2>9, <2>10, <2>11 DEF OfRank
<1> QED
    BY <1>3

\* Both walks visit the same slots, though each has active counts of its own.
LEMMA WalksAgree ==
    ASSUME PathInv, SweepInv, OpenInv, LayoutInv, pc \in {"ask", "ask_again"},
           row < LeftLen, ~Inactive
    PROVE  row \in Left /\ Passing(Activated) = PassingOf(row)
<1>1. row \in Left /\ Ordered
    BY OpeningKeepsOrder DEF Sweeps, PathInv, Preparing
<1>2. Tallied(active_counts, Open)
    BY DEF LayoutInv
<1>3. /\ Opened \in SUBSET Right /\ Open \in SUBSET Right /\ Open \cap Opened = {}
      /\ OpenBy(row + 1) = Open \union Opened
    BY OpeningAdds DEF Sweeps
<1>4. Tallied(Activated, OpenBy(row + 1))
    BY <1>2, <1>3, TallyGrows DEF Activated
<1>5. \A r \in RankFrom(row) .. RankCount - 1 : r \in Right
    BY <1>1, FromTypes, LengthsAssumption DEF Right
<1>6. \A r \in RankFrom(row) .. RankCount - 1 :
        Activated[r] = Cardinality(OfRank(OpenBy(row + 1), r))
    BY <1>4, <1>5 DEF Tallied
<1>7. FirstRank = RankFrom(row)
    BY DEF FirstRank, RankFrom
<1>8. Slots(Activated) = SlotsOf(row)
    BY <1>6, <1>7 DEF Slots, SlotsOf
<1> QED
    BY <1>1, <1>8 DEF Passing, PassingOf, AcceptsResidual

LEMMA MetCounts ==
    ASSUME NEW S \in SUBSET Right
    PROVE  /\ Met(S) \in SUBSET S
           /\ IsFiniteSet(Met(S)) /\ Cardinality(Met(S)) \in 0 .. RightLen
           /\ call.keep = "all" \/ S = {} => Met(S) = S
           /\ call.keep # "all" /\ S # {} => Cardinality(Met(S)) = 1
<1>1. Met(S) \in SUBSET S
    BY DEF Met
<1>2. IsFiniteSet(Met(S)) /\ Cardinality(Met(S)) \in 0 .. RightLen
    BY <1>1, RightFinite
<1>3. call.keep = "all" \/ S = {} => Met(S) = S
    BY DEF Met
<1>4. ASSUME call.keep # "all", S # {} PROVE Cardinality(Met(S)) = 1
    <2>1. S \in SUBSET Int /\ IsFiniteSet(S)
        BY RightFinite, LengthsAssumption DEF Right
    <2>2. PICK m \in S : \A t \in S : m <= t
        BY <1>4, <2>1, FiniteExtremes
    <2>3. \A s \in S : (\A t \in S : s <= t) <=> s = m
        BY <2>1, <2>2
    <2>4. Met(S) = {m}
        BY <1>4, <2>3 DEF Met
    <2> QED
        BY <2>4, FS_Singleton
<1> QED
    BY <1>1, <1>2, <1>3, <1>4

\* A finite set of slots has as many members as the walk over it has steps.
LEMMA NthIsMember ==
    ASSUME NEW S \in SUBSET Right, NEW n \in 1 .. Cardinality(S)
    PROVE  Nth(S, n) \in S
<1>1. S \in SUBSET Int /\ IsFiniteSet(S) /\ Cardinality(S) \in Nat
    BY RightFinite, LengthsAssumption DEF Right
<1>2. n - 1 \in 0 .. Cardinality(S) - 1
    BY <1>1
<1>3. PICK s \in S : Cardinality({t \in S : t < s}) = n - 1
    BY <1>1, <1>2, SmallerNumber
<1>4. {t \in S : t <= s} = {t \in S : t < s} \union {s} /\ s \notin {t \in S : t < s}
    <2>1. \A t \in S : (t <= s <=> t < s \/ t = s) /\ ~(s < s)
        BY <1>1
    <2> QED
        BY <2>1
<1>5. IsFiniteSet({t \in S : t < s})
    BY <1>1, FS_Subset
<1>6. Cardinality({t \in S : t <= s}) = (n - 1) + 1
    BY <1>3, <1>4, <1>5, FS_AddElement
<1>7. Cardinality({t \in S : t <= s}) = n
    BY <1>1, <1>6
<1> QED
    BY <1>7 DEF Nth

LEMMA ChosenCounts ==
    ASSUME PathInv, NEW S \in SUBSET Right, \A s \in S : layout_positions[s] \in Right
    PROVE  Chosen(S) \in Seq(Values) /\ Len(Chosen(S)) = Cardinality(Met(S))
<1>1. \A s \in S : LabelOf(s) \in Values
    BY DEF LabelOf, Values
<1>2. Cardinality(S) \in Nat
    BY RightFinite, LengthsAssumption
<1>3. CASE call.keep = "all" \/ S = {}
    <2>1. Chosen(S) = [n \in 1 .. Cardinality(S) |-> LabelOf(Nth(S, n))]
        BY <1>3 DEF Chosen
    <2>2. \A n \in 1 .. Cardinality(S) : LabelOf(Nth(S, n)) \in Values
        BY <1>1, NthIsMember
    <2>3. Chosen(S) \in Seq(Values) /\ Len(Chosen(S)) = Cardinality(S)
        BY <1>2, <2>1, <2>2, IsASeq, LenProperties
    <2> QED
        BY <1>3, <2>3, MetCounts
<1>4. CASE ~(call.keep = "all" \/ S = {})
    <2>1. {LabelOf(s) : s \in S} \in SUBSET Values /\ {LabelOf(s) : s \in S} # {}
        BY <1>1, <1>4
    <2>2. Best({LabelOf(s) : s \in S}) \in Values
        BY <2>1, BestIsMember
    <2>3. Chosen(S) = <<Best({LabelOf(s) : s \in S})>>
        BY <1>4 DEF Chosen
    <2>4. Chosen(S) \in Seq(Values) /\ Len(Chosen(S)) = 1
        BY <2>2, <2>3
    <2> QED
        BY <1>4, <2>4, MetCounts
<1> QED
    BY <1>3, <1>4

LEMMA FoundIsStable ==
    ASSUME UNCHANGED pathVars, UNCHANGED <<layoutVars, left_has_match>>
    PROVE  \A i : FoundOf(i)' = FoundOf(i)
<1>1. \A i, r : OfRank(OpenBy(i + 1), r)' = OfRank(OpenBy(i + 1), r)
    BY OpenIsStable DEF OfRank
<1>2. \A i : SlotsOf(i)' = SlotsOf(i)
    BY <1>1, CountIsStable, OpenIsStable DEF SlotsOf
<1>3. \A i : PassingOf(i)' = PassingOf(i)
    BY <1>2 DEF PassingOf
<1> QED
    BY <1>3 DEF FoundOf, Met

\* What a row of a walk finds is finite, and so is counted.
LEMMA FoundFinite ==
    ASSUME PathInv, SweepInv, LayoutInv, pc \in LaidOut, NEW i \in Left
    PROVE  /\ PassingOf(i) \in SUBSET Right
           /\ \A s \in PassingOf(i) : layout_positions[s] \in Right
           /\ FoundOf(i) \in SUBSET PassingOf(i)
           /\ Cardinality(FoundOf(i)) \in 0 .. RightLen
<1>1. /\ PassingOf(i) \in SUBSET Right
      /\ \A s \in PassingOf(i) : layout_positions[s] \in Right
    BY SlotsFit DEF PassingOf
<1>2. FoundOf(i) \in SUBSET PassingOf(i)
    BY <1>1, MetCounts DEF FoundOf
<1>3. FoundOf(i) \in SUBSET Right
    BY <1>1, <1>2
<1> QED
    BY <1>1, <1>2, <1>3, RightFinite

\* A row of the first walk stores the count of what it finds.
LEMMA AskRowFinds ==
    ASSUME PathInv, SweepInv, OpenInv, LayoutInv, AskRow
    PROVE  /\ pc = "ask" /\ pc' = "ask" /\ row \in Left /\ row' = row + 1
           /\ left_match_counts' = [left_match_counts EXCEPT ![row] = Cardinality(FoundOf(row))]
           /\ total_size' = total_size + Cardinality(FoundOf(row))
           /\ UNCHANGED pathVars /\ UNCHANGED <<layoutVars, filterVars, max_right_position>>
           /\ selected \in [Left -> Right \union {None}] => selected' \in [Left -> Right \union {None}]
           /\ \/ (call.keep = "all" \/ FoundOf(row) = {}) /\ UNCHANGED selected
              \/ \E s \in FoundOf(row) : selected' = [selected EXCEPT ![row] = layout_positions[s]]
<1>1. /\ pc = "ask" /\ row < LeftLen /\ ~Inactive /\ row' = row + 1 /\ UNCHANGED pathVars
      /\ UNCHANGED <<layoutVars, filterVars, max_right_position>> /\ active_counts' = Activated
    BY DEF AskRow, Sweeping
<1>2. pc' = "ask"
    BY AdvanceKeepsSweep DEF AskRow, Sweeps, Scanning
<1>3. row \in Left /\ Passing(Activated) = PassingOf(row)
    BY <1>1, WalksAgree
<1>4. Passing(active_counts') = Passing(Activated)
    BY <1>1
<1>5. (IF left_has_match[row] /\ second.left[row] # 0
       THEN Met(Passing(active_counts')) ELSE {}) = FoundOf(row)
    BY <1>3, <1>4 DEF FoundOf
<1>6. /\ left_match_counts' = [left_match_counts EXCEPT ![row] = Cardinality(FoundOf(row))]
      /\ total_size' = total_size + Cardinality(FoundOf(row))
      /\ \/ (call.keep = "all" \/ FoundOf(row) = {}) /\ UNCHANGED selected
         \/ \E s \in FoundOf(row) : selected' = [selected EXCEPT ![row] = layout_positions[s]]
    <2>1. PICK found \in {IF left_has_match[row] /\ second.left[row] # 0
                          THEN Met(Passing(active_counts')) ELSE {}} :
            /\ left_match_counts' = [left_match_counts EXCEPT ![row] = Cardinality(found)]
            /\ total_size' = total_size + Cardinality(found)
            /\ \/ (call.keep = "all" \/ found = {}) /\ UNCHANGED selected
               \/ /\ call.keep # "all"
                  /\ \E s \in found : selected' = [selected EXCEPT ![row] = layout_positions[s]]
        BY Zenon DEF AskRow
    <2>2. found = FoundOf(row)
        BY <1>5, <2>1
    <2> QED
        BY <2>1, <2>2, Zenon
<1>7. \A s \in FoundOf(row) : layout_positions[s] \in Right
    BY <1>1, <1>3, FoundFinite
<1> QED
    BY <1>1, <1>2, <1>3, <1>6, <1>7

\* A row of the second walk puts out as many labels as the first walk counted.
LEMMA AskAgainFinds ==
    ASSUME PathInv, SweepInv, OpenInv, LayoutInv, AskInv, AskAgainRow
    PROVE  /\ pc = "ask_again" /\ pc' = "ask_again" /\ row \in Left /\ row' = row + 1
           /\ UNCHANGED pathVars /\ UNCHANGED <<layoutVars, filterVars, anyVars, countVars, offsets>>
           /\ \E labels \in Seq(Values) :
                /\ labels = Chosen(IF left_match_counts[row] = 0 THEN {} ELSE PassingOf(row))
                /\ Len(labels) = left_match_counts[row]
                /\ left_output' = left_output \o [n \in 1 .. Len(labels) |-> left_order[row]]
                /\ right_output' = right_output \o labels
<1>1. /\ pc = "ask_again" /\ row < LeftLen /\ ~Inactive /\ row' = row + 1 /\ UNCHANGED pathVars
      /\ UNCHANGED <<layoutVars, filterVars, anyVars, countVars, offsets>>
      /\ active_counts' = Activated
    BY DEF AskAgainRow, Sweeping
<1>2. pc' = "ask_again"
    BY AdvanceKeepsSweep DEF AskAgainRow, Sweeps, Scanning
<1>3. row \in Left /\ Passing(active_counts') = PassingOf(row)
    BY <1>1, WalksAgree
<1>4. left_match_counts[row] = Cardinality(FoundOf(row))
    BY <1>1, <1>3 DEF AskInv
<1> DEFINE found == IF second.left[row] # 0 /\ left_match_counts[row] # 0
                    THEN PassingOf(row) ELSE {}
<1>5. found \in SUBSET Right /\ \A s \in found : layout_positions[s] \in Right
    BY <1>1, <1>3, FoundFinite
<1>6. Cardinality(Met(found)) = left_match_counts[row]
    <2>1. CASE second.left[row] # 0 /\ left_match_counts[row] # 0
        <3>1. FoundOf(row) # {}
            BY <1>4, <2>1, FS_EmptySet
        <3> QED
            BY <1>4, <2>1, <3>1 DEF FoundOf
    <2>2. CASE ~(second.left[row] # 0 /\ left_match_counts[row] # 0)
        <3>1. left_match_counts[row] = 0
            BY <1>4, <2>2, FS_EmptySet DEF FoundOf
        <3>2. Met(found) = {}
            BY <2>2 DEF Met
        <3> QED
            BY <3>1, <3>2, FS_EmptySet
    <2> QED
        BY <2>1, <2>2
<1>7. Chosen(found) \in Seq(Values) /\ Len(Chosen(found)) = left_match_counts[row]
    BY <1>5, <1>6, ChosenCounts
<1>8. DOMAIN Chosen(found) = 1 .. Len(Chosen(found))
    BY <1>7, LenProperties
<1>9. found = IF left_match_counts[row] = 0 THEN {} ELSE PassingOf(row)
    <2>1. left_match_counts[row] # 0 => second.left[row] # 0
        BY <1>4, FS_EmptySet DEF FoundOf
    <2> QED
        BY <2>1
<1>10. /\ left_output' = left_output \o [n \in DOMAIN Chosen(found) |-> left_order[row]]
      /\ right_output' = right_output \o Chosen(found)
    BY <1>3 DEF AskAgainRow
<1> HIDE DEF found
<1> QED
    BY <1>1, <1>2, <1>3, <1>7, <1>8, <1>9, <1>10

LEMMA AskInit == Init => AskInv
    BY DEF Init, AskInv

LEMMA AskNext ==
    ASSUME PathInv, SweepInv, OpenInv, LayoutInv, FilterInv, CountInv, AskInv, SumInv, [Next]_vars
    PROVE  AskInv'
<1>1. CASE SkipInactive
    <2>1. /\ row \in Left /\ row' = row + 1 /\ pc' = pc /\ ~Reaches(row)
          /\ UNCHANGED pathVars /\ UNCHANGED <<layoutVars, left_has_match, left_match_counts>>
        BY <1>1, SkippedRow
    <2>2. \A i : FoundOf(i)' = FoundOf(i)
        BY <2>1, FoundIsStable
    <2>3. \A i \in Left : i < row + 1 <=> i < row \/ i = row
        BY <2>1 DEF Left
    <2>4. CASE pc = "ask"
        <3>1. FoundOf(row) = {}
            BY <2>1, <2>4 DEF FilterInv, Filtered, FoundOf
        <3>2. \A i \in Left : left_match_counts'[i] = IF i < row' THEN Cardinality(FoundOf(i)') ELSE 0
            BY <2>1, <2>2, <2>3, <2>4, <3>1, FS_EmptySet DEF AskInv
        <3> QED
            BY <2>1, <2>4, <3>2 DEF AskInv
    <2>5. CASE pc # "ask"
        BY <2>1, <2>2, <2>5 DEF AskInv
    <2> QED
        BY <2>4, <2>5
<1>2. CASE EndPlace
    <2>1. /\ pc = "place" /\ pc' # "ask_again" /\ row' = 0 /\ left_match_counts' = left_match_counts
        BY <1>2 DEF EndPlace, Swept, Rewind
    <2>2. \A i \in Left : left_match_counts[i] = 0 /\ ~(i < 0)
        BY <2>1, LengthsAssumption DEF CountInv, Unlaid, Left
    <2> QED
        BY <2>1, <2>2 DEF AskInv
<1>3. CASE AskRow
    <2>1. /\ pc = "ask" /\ pc' = "ask" /\ row \in Left /\ row' = row + 1
          /\ left_match_counts' = [left_match_counts EXCEPT ![row] = Cardinality(FoundOf(row))]
          /\ UNCHANGED pathVars /\ UNCHANGED <<layoutVars, left_has_match>>
        BY <1>3, AskRowFinds
    <2>2. \A i : FoundOf(i)' = FoundOf(i)
        BY <2>1, FoundIsStable
    <2>3. \A i \in Left : i < row + 1 <=> i < row \/ i = row
        BY <2>1 DEF Left
    <2>4. \A i \in Left : left_match_counts'[i] = IF i < row' THEN Cardinality(FoundOf(i)') ELSE 0
        BY <2>1, <2>2, <2>3 DEF AskInv, SumInv
    <2> QED
        BY <2>1, <2>4 DEF AskInv
<1>4. CASE EndAsk
    <2>1. /\ pc = "ask" /\ row = LeftLen /\ pc' # "ask"
          /\ UNCHANGED pathVars /\ UNCHANGED <<layoutVars, left_has_match, left_match_counts>>
        BY <1>4 DEF EndAsk, Swept
    <2>2. \A i \in Left : i < row
        BY <2>1, LengthsAssumption DEF Left
    <2>3. \A i \in Left : left_match_counts'[i] = Cardinality(FoundOf(i)')
        BY <2>1, <2>2, FoundIsStable DEF AskInv
    <2> QED
        BY <2>1, <2>3 DEF AskInv
<1>5. CASE AskAgainRow
    <2>1. /\ pc = "ask_again" /\ pc' = "ask_again"
          /\ UNCHANGED pathVars /\ UNCHANGED <<layoutVars, left_has_match, left_match_counts>>
        BY <1>5, AskAgainFinds
    <2>2. \A i \in Left : left_match_counts'[i] = Cardinality(FoundOf(i)')
        BY <2>1, FoundIsStable DEF AskInv
    <2> QED
        BY <2>1, <2>2 DEF AskInv
<1>6. CASE PathsNext \/ AnyNext
    <2>1. pc' \notin {"ask", "ask_again"}
        BY <1>6 DEF PathsNext, BuildFirst, BuildSecond, OrderLeft, FindStarts, FirstPass,
            ReturnNone, AnyNext, CountAny, EndAny, EmitAny, FinishAny, Advance, Compare
    <2> QED
        BY <2>1 DEF AskInv
<1>7. CASE LayoutNext /\ ~EndPlace
    <2>1. pc' \notin {"ask", "ask_again"}
        BY <1>7 DEF LayoutNext, FilterRow, EndFilter, TotalRow, EndTotals, OffsetRank,
            EndOffsets, PlaceRow, Sweeping, Swept, Advance
    <2> QED
        BY <2>1 DEF AskInv
<1>8. CASE \/ AllNext \/ FirstLastNext \/ EmitSelected \/ FinishSelected \/ FinishAsk
    <2>1. pc' \notin {"ask", "ask_again"}
        BY <1>8 DEF AllNext, CountRow, CountRank, EndCountRanks, EndCount, OffsetRow,
            EndOffsetRows, EmitRow, EmitRank, EndEmitRanks, EndEmit, Translate, FinishAll,
            FirstLastNext, EmitBest, FinishBest, EmitSelected, FinishSelected, FinishAsk,
            Sweeping, Swept, Advance, Compare
    <2> QED
        BY <2>1 DEF AskInv
<1>9. CASE UNCHANGED vars
    <2>1. \A i : FoundOf(i)' = FoundOf(i)
        BY <1>9, FoundIsStable
    <2> QED
        BY <1>9, <2>1 DEF AskInv
<1> QED
    BY <1>1, <1>2, <1>3, <1>4, <1>5, <1>6, <1>7, <1>8, <1>9 DEF Next, ResidualNext

-----------------------------------------------------------------------------
\* Sizes and places.

\* The sums go on with the count of one row more.
LEMMA SumsGrow ==
    ASSUME NEW n \in Left, NEW c \in [Left -> Nat], NEW d \in [Left -> Nat],
           \A i \in Left : i < n => d[i] = c[i],
           NEW f, Sums(f, n, c)
    PROVE  \E g : Sums(g, n + 1, d) /\ g[n + 1] = f[n] + d[n]
<1> DEFINE g == [i \in 0 .. n + 1 |-> IF i = n + 1 THEN f[n] + d[n] ELSE f[i]]
<1>1. n \in Nat /\ n < LeftLen /\ d[n] \in Nat
    BY LengthsAssumption DEF Left
<1>2. f \in [0 .. n -> Nat] /\ f[0] = 0 /\ f[n] \in Nat
    BY <1>1 DEF Sums
<1>3. \A i \in 0 .. n : g[i] = f[i]
    BY <1>1
<1>4. g[n + 1] = f[n] + d[n] /\ g[n + 1] \in Nat
    BY <1>1, <1>2
<1>5. g \in [0 .. n + 1 -> Nat] /\ g[0] = 0
    BY <1>1, <1>2, <1>3
<1>6. ASSUME NEW i \in 0 .. (n + 1) - 1 PROVE g[i + 1] = g[i] + d[i]
    <2>1. CASE i = n
        BY <1>1, <1>3, <1>4, <2>1
    <2>2. CASE i # n
        <3>1. i \in 0 .. n - 1 /\ i + 1 \in 0 .. n /\ i \in 0 .. n /\ i \in Left /\ i < n
            BY <1>1, <2>2, LengthsAssumption DEF Left
        <3>2. f[i + 1] = f[i] + c[i]
            BY <3>1 DEF Sums
        <3> HIDE DEF g
        <3> QED
            BY <1>3, <3>1, <3>2
    <2> QED
        BY <2>1, <2>2
<1>7. ASSUME NEW i \in 0 .. n + 1 PROVE g[i] <= g[n + 1]
    <2>1. CASE i = n + 1
        BY <1>4, <2>1
    <2>2. CASE i \in 0 .. n
        <3>1. g[i] = f[i] /\ f[i] <= f[n] /\ f[i] \in Nat
            BY <1>2, <1>3, <2>2 DEF Sums
        <3> HIDE DEF g
        <3> QED
            BY <1>1, <1>2, <1>4, <3>1
    <2> QED
        BY <1>1, <2>1, <2>2
<1> HIDE DEF g
<1> QED
    BY <1>4, <1>5, <1>6, <1>7 DEF Sums

LEMMA NoSums == \A c : \E f : Sums(f, 0, c) /\ f[0] = 0
<1> SUFFICES ASSUME NEW c PROVE Sums([i \in 0 .. 0 |-> 0], 0, c)
    OBVIOUS
<1> QED
    BY DEF Sums

LEMMA SumInit == Init => SumInv
    BY DEF Init, SumInv, Unlaid, Reserved, Copying, Preparing, Zero

\* A row without a window, or without a flag, has no pairs.
LEMMA SkippedHasNoPairs ==
    ASSUME PathInv, SweepInv, FilterInv, CountInv, AskInv, SkipInactive,
           pc \in {"count", "emit", "ask", "ask_again"}
    PROVE  left_match_counts[row] = 0
<1>1. row \in Left /\ ~left_has_match[row]
    BY SkippedRow DEF FilterInv, Filtered
<1>2. CountOf(row) = 0 /\ FoundOf(row) = {}
    BY <1>1 DEF CountOf, FoundOf
<1>3. ~(row < row)
    BY <1>1, LengthsAssumption DEF Left
<1> QED
    BY <1>1, <1>2, <1>3, FS_EmptySet DEF CountInv, AskInv, Reserved, Copying

\* The counting pass: a row's count is added to the size.
LEMMA CountingSums ==
    ASSUME SumInv, pc \in Counting, pc' \in Counting, row \in Left, row' = row + 1,
           left_match_counts' \in [Left -> Nat],
           \A i \in Left : i < row => left_match_counts'[i] = left_match_counts[i],
           total_size' = total_size + left_match_counts'[row], offsets' = offsets
    PROVE  SumInv'
<1>1. PICK f : Sums(f, row, left_match_counts) /\ total_size = f[row]
    BY DEF SumInv
<1>2. \E g : Sums(g, row + 1, left_match_counts') /\ g[row + 1] = f[row] + left_match_counts'[row]
    <2>1. left_match_counts \in [Left -> Nat]
        BY DEF SumInv
    <2> QED
        BY <1>1, <2>1, SumsGrow, Zenon
<1>3. \E g : Sums(g, row', left_match_counts') /\ total_size' = g[row']
    BY <1>1, <1>2
<1>4. pc' \notin Unlaid \union Reserved \union {"ask_again"}
    BY DEF Unlaid, Reserved, Copying, Preparing
<1>5. offsets' \in [Left -> Nat]
    BY DEF SumInv
<1> HIDE DEF Counting
<1> QED
    BY <1>3, <1>4, <1>5 DEF SumInv, Sums

\* A step that neither counts nor places.
LEMMA SumsKept ==
    ASSUME SumInv, UNCHANGED <<left_match_counts, offsets, total_size>>,
           pc' \in Unlaid => pc \in Unlaid,
           pc' \in Counting => pc \in Counting /\ row' = row,
           pc' \in Reserved \union {"ask_again"} => pc \in Reserved \union {"ask_again"},
           pc' = "offsets" => pc = "offsets" /\ row' = row,
           pc' \in Copying => pc \in Copying,
           pc' = "ask_again" => pc = "ask_again" /\ UNCHANGED <<row, left_output>>
    PROVE  SumInv'
<1>1. /\ left_match_counts' \in [Left -> Nat] /\ offsets' \in [Left -> Nat]
      /\ pc' \in Unlaid => total_size' = 0
    BY DEF SumInv
<1>2. pc' \in Counting => \E f : Sums(f, row, left_match_counts)' /\ total_size' = f[row']
    <2>1. SUFFICES ASSUME pc' \in Counting
                   PROVE  \E f : Sums(f, row, left_match_counts)' /\ total_size' = f[row']
        OBVIOUS
    <2>2. PICK f : Sums(f, row, left_match_counts) /\ total_size = f[row]
        BY <2>1 DEF SumInv
    <2>3. Sums(f, row, left_match_counts)' /\ total_size' = f[row']
        BY <2>1, <2>2 DEF Sums
    <2> QED
        BY <2>3
<1>3. ASSUME pc' \in Reserved \union {"ask_again"}
      PROVE  \E f : /\ Sums(f, LeftLen, left_match_counts)' /\ total_size' = f[LeftLen]
                    /\ pc' = "offsets" => \A i \in Left : i < row' => offsets'[i] = f[i]
                    /\ pc' \in Copying => \A i \in Left : offsets'[i] = f[i]
                    /\ pc' = "ask_again" => Len(left_output') = f[row']
    <2>1. PICK f : /\ Sums(f, LeftLen, left_match_counts) /\ total_size = f[LeftLen]
                   /\ pc = "offsets" => \A i \in Left : i < row => offsets[i] = f[i]
                   /\ pc \in Copying => \A i \in Left : offsets[i] = f[i]
                   /\ pc = "ask_again" => Len(left_output) = f[row]
        BY <1>3 DEF SumInv
    <2>2. Sums(f, LeftLen, left_match_counts)'
        BY <2>1 DEF Sums
    <2>3. pc' = "ask_again" => Len(left_output') = f[row']
        BY <2>1
    <2>4. pc' = "offsets" => \A i \in Left : i < row' => offsets'[i] = f[i]
        BY <2>1
    <2>5. pc' \in Copying => \A i \in Left : offsets'[i] = f[i]
        BY <2>1
    <2> QED
        BY <2>1, <2>2, <2>3, <2>4, <2>5
<1> HIDE DEF Counting
<1> QED
    BY <1>1, <1>2, <1>3 DEF SumInv

LEMMA SizeIsNatural ==
    ASSUME SumInv, pc \in Counting, row \in 0 .. LeftLen
    PROVE  total_size \in Nat
<1>1. PICK f : Sums(f, row, left_match_counts) /\ total_size = f[row]
    BY DEF SumInv
<1> QED
    BY <1>1, LengthsAssumption DEF Sums

\* The counting is over: every count has its place.
LEMMA CountedAll ==
    ASSUME SumInv, pc \in {"count", "ask"}, row = LeftLen, row' = 0,
           UNCHANGED <<left_match_counts, total_size, offsets>>,
           pc' \in {"none", "offsets", "emit_selected", "ask_again"},
           pc' = "ask_again" => Len(left_output') = 0
    PROVE  SumInv'
<1>1. PICK f : Sums(f, LeftLen, left_match_counts) /\ total_size = f[LeftLen]
    BY DEF SumInv
<1>2. f[0] = 0
    BY <1>1 DEF Sums
<1>3. \A i \in Left : ~(i < row')
    BY LengthsAssumption DEF Left
<1>4. /\ Sums(f, LeftLen, left_match_counts') /\ total_size' = f[LeftLen]
      /\ pc' = "offsets" => \A i \in Left : i < row' => offsets'[i] = f[i]
      /\ pc' = "ask_again" => Len(left_output') = f[row']
    BY <1>1, <1>2, <1>3
<1>5. pc' \notin Unlaid \union Counting \union Copying
    BY DEF Unlaid, Copying, Preparing
<1>6. left_match_counts' \in [Left -> Nat] /\ offsets' \in [Left -> Nat]
    BY DEF SumInv
<1> HIDE DEF Counting
<1> QED
    BY <1>4, <1>5, <1>6 DEF SumInv, Sums

\* A row's place is after those of the rows before it.
LEMMA OffsetRowKeeps ==
    ASSUME SweepInv, SumInv, OffsetRow
    PROVE  SumInv'
<1>1. /\ pc = "offsets" /\ pc' = pc /\ row < LeftLen /\ row' = row + 1
      /\ UNCHANGED <<left_match_counts, total_size>>
      /\ offsets' = [offsets EXCEPT ![row] =
                        IF row = 0 THEN 0 ELSE offsets[row - 1] + left_match_counts[row - 1]]
    BY DEF OffsetRow
<1>2. row \in Left /\ row \in Nat
    BY <1>1, LengthsAssumption DEF SweepInv, Left
<1>3. PICK f : /\ Sums(f, LeftLen, left_match_counts) /\ total_size = f[LeftLen]
               /\ \A i \in Left : i < row => offsets[i] = f[i]
    BY <1>1 DEF SumInv, Reserved
<1>4. (IF row = 0 THEN 0 ELSE offsets[row - 1] + left_match_counts[row - 1]) = f[row]
    <2>1. CASE row = 0
        BY <1>3, <2>1 DEF Sums
    <2>2. CASE row # 0
        <3>1. row - 1 \in 0 .. LeftLen - 1 /\ row - 1 \in Left /\ row - 1 < row /\ (row - 1) + 1 = row
            BY <1>1, <1>2, <2>2, LengthsAssumption DEF Left
        <3>2. f[(row - 1) + 1] = f[row - 1] + left_match_counts[row - 1]
            BY <1>3, <3>1 DEF Sums
        <3> QED
            BY <1>3, <2>2, <3>1, <3>2
    <2> QED
        BY <2>1, <2>2
<1>5. f[row] \in Nat
    BY <1>2, <1>3, LengthsAssumption DEF Sums, Left
<1>6. offsets \in [Left -> Nat] /\ left_match_counts \in [Left -> Nat]
    BY DEF SumInv
<1>7. offsets' \in [Left -> Nat] /\ left_match_counts' \in [Left -> Nat]
    BY <1>1, <1>4, <1>5, <1>6
<1>8. \A i \in Left : i < row' => offsets'[i] = f[i]
    <2>1. \A i \in Left : i < row + 1 <=> i < row \/ i = row
        BY <1>2 DEF Left
    <2> QED
        BY <1>1, <1>3, <1>4, <1>6, <2>1
<1>9. Sums(f, LeftLen, left_match_counts') /\ total_size' = f[LeftLen]
    BY <1>1, <1>3
<1> QED
    BY <1>1, <1>7, <1>8, <1>9 DEF SumInv, Sums, Unlaid, Copying, Preparing

LEMMA EndOffsetRowsKeeps ==
    ASSUME SumInv, EndOffsetRows
    PROVE  SumInv'
<1>1. /\ pc = "offsets" /\ pc' = "emit" /\ row = LeftLen
      /\ UNCHANGED <<left_match_counts, total_size, offsets>>
    BY DEF EndOffsetRows, Swept
<1>2. PICK f : /\ Sums(f, LeftLen, left_match_counts) /\ total_size = f[LeftLen]
               /\ \A i \in Left : i < row => offsets[i] = f[i]
    BY <1>1 DEF SumInv, Reserved
<1>3. \A i \in Left : offsets'[i] = f[i]
    BY <1>1, <1>2, LengthsAssumption DEF Left
<1>4. Sums(f, LeftLen, left_match_counts') /\ total_size' = f[LeftLen]
    BY <1>1, <1>2
<1>5. offsets' \in [Left -> Nat] /\ left_match_counts' \in [Left -> Nat]
    BY <1>1 DEF SumInv
<1> QED
    BY <1>1, <1>3, <1>4, <1>5 DEF SumInv, Sums, Unlaid, Preparing

\* The second residual walk: the output is as long as the sums say.
LEMMA AskingSums ==
    ASSUME SumInv, pc = "ask_again", pc' = "ask_again", row \in Left, row' = row + 1,
           UNCHANGED <<left_match_counts, total_size, offsets>>,
           Len(left_output') = Len(left_output) + left_match_counts[row]
    PROVE  SumInv'
<1>1. PICK f : /\ Sums(f, LeftLen, left_match_counts) /\ total_size = f[LeftLen]
               /\ Len(left_output) = f[row]
    BY DEF SumInv
<1>2. f[row + 1] = f[row] + left_match_counts[row]
    BY <1>1 DEF Sums, Left
<1>3. Sums(f, LeftLen, left_match_counts') /\ total_size' = f[LeftLen] /\ Len(left_output') = f[row']
    BY <1>1, <1>2
<1>4. offsets' \in [Left -> Nat] /\ left_match_counts' \in [Left -> Nat]
    BY DEF SumInv
<1> QED
    BY <1>3, <1>4 DEF SumInv, Sums, Unlaid, Reserved, Copying, Preparing

\* The second walk of the residual predicates puts out what the first one counted.
LEMMA FinishAskAgrees ==
    ASSUME SumInv, FinishAsk
    PROVE  pc' = "done"
<1>1. pc = "ask_again" /\ row = LeftLen
    BY DEF FinishAsk, Swept
<1> QED
    BY <1>1 DEF SumInv, FinishAsk, Compare

\* A row of pairs makes the output longer by as many.
LEMMA OutputGrows ==
    ASSUME NEW T, NEW U, NEW s \in Seq(T), NEW n \in Nat, NEW x \in T,
           NEW t \in Seq(U), NEW new \in Seq(U)
    PROVE  /\ s \o [k \in 1 .. n |-> x] \in Seq(T)
           /\ Len(s \o [k \in 1 .. n |-> x]) = Len(s) + n
           /\ t \o new \in Seq(U)
<1>1. [k \in 1 .. n |-> x] \in Seq(T) /\ Len([k \in 1 .. n |-> x]) = n
    BY IsASeq, LenProperties
<1> DEFINE more == [k \in 1 .. n |-> x]
<1> HIDE DEF more
<1>2. s \o more \in Seq(T) /\ Len(s \o more) = Len(s) + Len(more)
    BY <1>1, ConcatProperties DEF more
<1>3. t \o new \in Seq(U)
    BY ConcatProperties
<1> QED
    BY <1>1, <1>2, <1>3 DEF more

LEMMA SumNext ==
    ASSUME PathInv, SweepInv, OpenInv, LayoutInv, FilterInv, BestInv, CountInv, AskInv, SumInv,
           OtherTypes, [Next]_vars
    PROVE  SumInv'
<1>1. CASE PathsNext
    <2>1. /\ pc \in Preparing /\ pc' \in Preparing \union {"any", "filter", "none"}
          /\ UNCHANGED <<left_match_counts, offsets, total_size>>
        BY <1>1 DEF PathsNext, BuildFirst, BuildSecond, OrderLeft, FindStarts, FirstPass,
            ReturnNone, Preparing
    <2> QED
        BY <2>1, SumsKept DEF Unlaid, Reserved, Copying, Preparing
<1>2. CASE SkipInactive
    <2>1. /\ row \in Left /\ row' = row + 1 /\ pc' = pc /\ pc \in Sweeps
          /\ UNCHANGED <<left_match_counts, offsets, total_size, left_output>>
        BY <1>2, SkippedRow DEF SkipInactive
    <2>2. CASE pc \in {"count", "ask"}
        <3>1. left_match_counts[row] = 0 /\ left_match_counts' \in [Left -> Nat]
            BY <1>2, <2>1, <2>2, SkippedHasNoPairs DEF SumInv
        <3>2. total_size' = total_size + left_match_counts'[row]
            BY <2>1, <2>2, <3>1, SizeIsNatural DEF SweepInv
        <3> QED
            BY <2>1, <2>2, <3>1, <3>2, CountingSums
    <2>3. CASE pc = "ask_again"
        <3>1. left_match_counts[row] = 0
            BY <1>2, <2>1, <2>3, SkippedHasNoPairs
        <3>2. Len(left_output) \in Nat
            BY LenProperties DEF OtherTypes, OutputTypeOK
        <3> QED
            BY <2>1, <2>3, <3>1, <3>2, AskingSums
    <2>4. CASE pc \notin {"count", "ask", "ask_again"}
        <3>1. pc \notin Counting \union {"offsets", "ask_again"}
            BY <2>1, <2>4 DEF Sweeps
        <3> QED
            BY <2>1, <3>1, SumsKept
    <2> QED
        BY <2>2, <2>3, <2>4
<1>3. CASE AnyNext
    <2>1. /\ pc' \in {"any", "none", "emit_any", "done", "error"}
          /\ UNCHANGED <<left_match_counts, offsets, total_size>>
        BY <1>3 DEF AnyNext, CountAny, EndAny, EmitAny, FinishAny, Advance, Compare
    <2> QED
        BY <2>1, SumsKept DEF Unlaid, Reserved, Copying, Preparing
<1>4. CASE EndPlace
    <2>1. /\ pc = "place" /\ pc' \in {"error", "ask", "count", "best"} /\ row' = 0
          /\ UNCHANGED <<left_match_counts, offsets, total_size>>
        BY <1>4 DEF EndPlace, Swept, Rewind
    <2>2. total_size' = 0 /\ left_match_counts' \in [Left -> Nat] /\ offsets' \in [Left -> Nat]
        BY <2>1 DEF SumInv, Unlaid
    <2>3. \E f : Sums(f, row', left_match_counts') /\ total_size' = f[row']
        BY <2>1, <2>2, NoSums
    <2>4. pc' \notin Unlaid \union Reserved \union {"ask_again"}
        BY <2>1 DEF Unlaid, Reserved, Copying, Preparing
    <2> QED
        BY <2>2, <2>3, <2>4 DEF SumInv, Sums
<1>5. CASE LayoutNext /\ ~EndPlace
    <2>1. /\ pc \in Unlaid /\ pc' \in {"error", "filter", "none", "totals", "slices", "place"}
          /\ UNCHANGED <<left_match_counts, offsets, total_size>>
        BY <1>5 DEF LayoutNext, FilterRow, EndFilter, TotalRow, EndTotals, OffsetRank,
            EndOffsets, PlaceRow, Sweeping, Swept, Advance, Unlaid
    <2> QED
        BY <2>1, SumsKept DEF Reserved, Copying
<1>6. CASE CountRow
    <2>1. /\ pc = "count" /\ row < LeftLen /\ ~Inactive
          /\ UNCHANGED <<left_match_counts, offsets, total_size>>
        BY <1>6 DEF CountRow, Sweeping
    <2>2. row \in Left
        BY <2>1, OpeningKeepsOrder DEF Sweeps
    <2>3. CASE left_has_match[row]
        <3>1. row' = row /\ pc' = "count_ranks"
            BY <1>6, <2>3, AdvanceKeepsSweep DEF CountRow, Sweeps, Scanning
        <3> QED
            BY <2>1, <3>1, SumsKept DEF Unlaid, Reserved, Copying, Preparing
    <2>4. CASE ~left_has_match[row]
        <3>1. row' = row + 1 /\ pc' = "count"
            BY <1>6, <2>4, AdvanceKeepsSweep DEF CountRow, Sweeps, Scanning
        <3>2. left_match_counts[row] = 0 /\ left_match_counts' \in [Left -> Nat]
            <4>1. ~(row < row)
                BY <2>2, LengthsAssumption DEF Left
            <4> QED
                BY <2>1, <2>2, <4>1 DEF CountInv, SumInv
        <3>3. total_size' = total_size + left_match_counts'[row]
            BY <2>1, <3>2, SizeIsNatural DEF SweepInv
        <3> QED
            BY <2>1, <2>2, <3>1, <3>2, <3>3, CountingSums
    <2> QED
        BY <2>3, <2>4
<1>7. CASE CountRank
    <2>1. /\ pc = "count_ranks" /\ pc' = pc /\ row' = row
          /\ UNCHANGED <<left_match_counts, offsets, total_size>>
        BY <1>7 DEF CountRank
    <2> QED
        BY <2>1, SumsKept DEF Unlaid, Reserved, Copying, Preparing
<1>8. CASE EndCountRanks
    <2>1. row \in Left /\ matches \in Nat
        BY <1>8, EndCountRanksKeeps
    <2>2. /\ pc = "count_ranks" /\ pc' = "count" /\ row' = row + 1 /\ offsets' = offsets
          /\ left_match_counts' = [left_match_counts EXCEPT ![row] = matches]
          /\ total_size' = total_size + matches
        BY <1>8 DEF EndCountRanks
    <2>3. /\ left_match_counts' \in [Left -> Nat] /\ left_match_counts'[row] = matches
          /\ \A i \in Left : i < row => left_match_counts'[i] = left_match_counts[i]
        <3>1. ~(row < row)
            BY <2>1, LengthsAssumption DEF Left
        <3> QED
            BY <2>1, <2>2, <3>1 DEF SumInv
    <2> QED
        BY <2>1, <2>2, <2>3, CountingSums
<1>9. CASE EndCount
    <2>1. /\ pc = "count" /\ row = LeftLen /\ row' = 0 /\ pc' \in {"none", "offsets"}
          /\ UNCHANGED <<left_match_counts, offsets, total_size>>
        BY <1>9 DEF EndCount, Swept, Rewind
    <2> QED
        BY <2>1, CountedAll
<1>10. CASE EmitRow \/ EmitRank \/ EndEmitRanks \/ EndEmit \/ Translate \/ FinishAll
    <2>1. /\ pc \in Copying /\ pc' \in Copying \union {"done", "error"}
          /\ UNCHANGED <<left_match_counts, offsets, total_size>>
        BY <1>10 DEF EmitRow, EmitRank, EndEmitRanks, EndEmit, Translate, FinishAll,
            Sweeping, Swept, Advance, Copying
    <2> QED
        BY <2>1, SumsKept DEF Unlaid, Reserved, Copying, Preparing
<1>11. CASE FirstLastNext \/ EmitSelected \/ FinishSelected \/ FinishAsk
    <2>1. /\ pc' \in {"best", "emit_selected", "done", "error"}
          /\ UNCHANGED <<left_match_counts, offsets, total_size>>
        BY <1>11 DEF FirstLastNext, EmitBest, FinishBest, EmitSelected, FinishSelected,
            FinishAsk, Swept, Advance, Compare
    <2> QED
        BY <2>1, SumsKept DEF Unlaid, Reserved, Copying, Preparing
<1>12. CASE AskRow
    <2>1. /\ pc = "ask" /\ pc' = "ask" /\ row \in Left /\ row' = row + 1 /\ offsets' = offsets
          /\ left_match_counts' = [left_match_counts EXCEPT ![row] = Cardinality(FoundOf(row))]
          /\ total_size' = total_size + Cardinality(FoundOf(row))
        BY <1>12, AskRowFinds DEF AskRow
    <2>2. Cardinality(FoundOf(row)) \in Nat
        BY <2>1, FoundFinite, LengthsAssumption
    <2>3. /\ left_match_counts' \in [Left -> Nat]
          /\ left_match_counts'[row] = Cardinality(FoundOf(row))
          /\ \A i \in Left : i < row => left_match_counts'[i] = left_match_counts[i]
        <3>1. ~(row < row)
            BY <2>1, LengthsAssumption DEF Left
        <3> QED
            BY <2>1, <2>2, <3>1 DEF SumInv
    <2> QED
        BY <2>1, <2>3, CountingSums
<1>13. CASE EndAsk
    <2>1. /\ pc = "ask" /\ row = LeftLen /\ row' = 0 /\ pc' \in {"none", "emit_selected", "ask_again"}
          /\ UNCHANGED <<left_match_counts, offsets, total_size, left_output>>
        BY <1>13 DEF EndAsk, Swept, Rewind
    <2>2. left_output = <<>>
        BY <2>1 DEF BestInv
    <2> QED
        BY <2>1, <2>2, CountedAll
<1>14. CASE AskAgainRow
    <2>1. /\ pc = "ask_again" /\ pc' = "ask_again" /\ row \in Left /\ row' = row + 1
          /\ UNCHANGED <<countVars, offsets>>
        BY <1>14, AskAgainFinds
    <2>2. PICK labels \in Seq(Values) :
            /\ Len(labels) = left_match_counts[row]
            /\ left_output' = left_output \o [n \in 1 .. Len(labels) |-> left_order[row]]
        BY <1>14, AskAgainFinds
    <2>3. left_order[row] \in Left /\ left_output \in Seq(Left) /\ Len(labels) \in Nat
        BY <2>1, OrderedTypes, LenProperties DEF PathInv, Preparing, OtherTypes, OutputTypeOK
    <2>4. Len(left_output') = Len(left_output) + left_match_counts[row]
        BY <2>2, <2>3, OutputGrows
    <2> QED
        BY <2>1, <2>4, AskingSums
<1>15. CASE UNCHANGED vars
    BY <1>15, SumsKept
<1> QED
    BY <1>1, <1>2, <1>3, <1>4, <1>5, <1>6, <1>7, <1>8, <1>9, <1>10, <1>11, <1>12, <1>13,
        <1>14, <1>15, OffsetRowKeeps, EndOffsetRowsKeeps
        DEF Next, LayoutNext, AllNext, ResidualNext

-----------------------------------------------------------------------------
\* What keep="all" copies.

\* A row's places lie within the size.
LEMMA PlacesFit ==
    ASSUME SumInv, pc \in Copying, NEW i \in Left, NEW n \in 1 .. left_match_counts[i]
    PROVE  offsets[i] + n - 1 \in 0 .. total_size - 1
<1>1. PICK f : /\ Sums(f, LeftLen, left_match_counts) /\ total_size = f[LeftLen]
               /\ \A k \in Left : offsets[k] = f[k]
    BY DEF SumInv, Reserved
<1>2. i \in 0 .. LeftLen - 1 /\ i \in 0 .. LeftLen /\ i + 1 \in 0 .. LeftLen /\ LeftLen \in 0 .. LeftLen
    BY LengthsAssumption DEF Left
<1>3. /\ f[i + 1] = f[i] + left_match_counts[i] /\ f[i + 1] <= f[LeftLen]
      /\ f[i] \in Nat /\ f[LeftLen] \in Nat
    BY <1>1, <1>2 DEF Sums
<1>4. left_match_counts[i] \in Nat /\ offsets[i] = f[i]
    BY <1>1 DEF SumInv
<1> QED
    BY <1>1, <1>3, <1>4

LEMMA PositionsInit == Init => PositionsInv
    BY DEF Init, PositionsInv, Copying

\* A rank's copy is of what is open of the rank.
LEMMA EmitRankCopies ==
    ASSUME PathInv, SweepInv, OpenInv, LayoutInv, CountInv, SumInv, PositionsInv, EmitRank
    PROVE  PositionsInv'
<1>1. /\ pc = "emit_ranks" /\ rank < RankCount /\ total_size' = total_size
      /\ positions' =
            [p \in DOMAIN positions |->
                IF p \in output_position .. output_position + active_counts[rank] - 1
                THEN layout_positions[layout_offsets[rank] + p - output_position]
                ELSE positions[p]]
    BY DEF EmitRank
<1>2. row \in Left /\ Ordered
    BY <1>1, LengthsAssumption DEF SweepInv, Left, PathInv, Preparing
<1>3. /\ rank \in RankFrom(row) .. RankCount
      /\ output_position = offsets[row] + Cardinality(Candidates(row, rank))
    BY <1>1 DEF CountInv
<1>4. RankFrom(row) \in Int /\ RankCount \in Int /\ rank \in RankFrom(row) .. RankCount - 1
    BY <1>1, <1>2, <1>3, FromTypes
<1>5. /\ rank \in 0 .. RankCount - 1 /\ rank \in Right
      /\ active_counts[rank] = Cardinality(OfRank(OpenBy(row + 1), rank))
    BY <1>1, <1>4, ActiveOfRank DEF InRanks
<1>6. row + 1 \in 0 .. LeftLen /\ Placed(LeftLen) /\ layout_offsets \in [Right -> Nat]
    BY <1>1, <1>2, LengthsAssumption DEF Left, LayoutInv
<1>7. Prefix(rank, active_counts[rank]) = OfRank(OpenBy(row + 1), rank)
    BY <1>5, <1>6 DEF Placed
<1>8. OfRank(OpenBy(row + 1), rank) \in SUBSET Right /\ active_counts[rank] \in Nat
    BY <1>5, OpenTypes, OfRankFinite
<1>9. output_position \in Nat /\ layout_offsets[rank] \in Nat
    BY <1>2, <1>3, <1>5, <1>6, CandidatesFinite, LengthsAssumption DEF SumInv
<1>10. ASSUME NEW p \in output_position .. output_position + active_counts[rank] - 1
       PROVE  layout_positions[layout_offsets[rank] + p - output_position] \in Right
    <2>1. /\ p - output_position \in 0 .. active_counts[rank] - 1
          /\ layout_offsets[rank] + p - output_position = layout_offsets[rank] + (p - output_position)
        BY <1>8, <1>9
    <2>2. layout_positions[layout_offsets[rank] + (p - output_position)] \in Prefix(rank, active_counts[rank])
        BY <2>1 DEF Prefix
    <2> QED
        BY <1>7, <1>8, <2>1, <2>2
<1>11. positions \in [0 .. total_size - 1 -> Right]
    BY <1>1 DEF PositionsInv, Copying
<1>12. positions' \in [0 .. total_size - 1 -> Right]
    BY <1>1, <1>10, <1>11
<1> QED
    BY <1>1, <1>12 DEF PositionsInv

LEMMA PositionsNext ==
    ASSUME PathInv, SweepInv, OpenInv, LayoutInv, CountInv, SumInv, PositionsInv, [Next]_vars
    PROVE  PositionsInv'
<1>1. CASE EndOffsetRows
    <2>1. pc = "offsets" /\ positions' = [p \in 0 .. total_size - 1 |-> 0] /\ total_size' = total_size
        BY <1>1 DEF EndOffsetRows, Swept
    <2>2. 0 \in Right
        BY <2>1, LengthsAssumption DEF OpenInv, Preparing, Right
    <2> QED
        BY <2>1, <2>2 DEF PositionsInv
<1>2. CASE \/ SkipInactive \/ EmitRow \/ EndEmitRanks \/ EndEmit \/ Translate \/ FinishAll
           \/ UNCHANGED vars
    <2>1. UNCHANGED <<positions, total_size>> /\ (pc' \in Copying => pc \in Copying)
        BY <1>2 DEF SkipInactive, EmitRow, EndEmitRanks, EndEmit, Translate, FinishAll,
            Sweeping, Swept, Advance, Copying
    <2> QED
        BY <2>1 DEF PositionsInv
<1>3. CASE PathsNext \/ AnyNext \/ LayoutNext
    <2>1. pc' \notin Copying
        BY <1>3 DEF PathsNext, BuildFirst, BuildSecond, OrderLeft, FindStarts, FirstPass,
            ReturnNone, AnyNext, CountAny, EndAny, EmitAny, FinishAny, LayoutNext, FilterRow,
            EndFilter, TotalRow, EndTotals, OffsetRank, EndOffsets, PlaceRow, EndPlace,
            Sweeping, Swept, Advance, Compare, Copying
    <2> QED
        BY <2>1 DEF PositionsInv
<1>4. CASE CountRow \/ CountRank \/ EndCountRanks \/ EndCount \/ OffsetRow \/ FirstLastNext \/ ResidualNext
    <2>1. pc' \notin Copying
        BY <1>4 DEF CountRow, CountRank, EndCountRanks, EndCount, OffsetRow, FirstLastNext,
            EmitBest, FinishBest, ResidualNext, AskRow, EndAsk, EmitSelected, FinishSelected,
            AskAgainRow, FinishAsk, Sweeping, Swept, Advance, Compare, Copying
    <2> QED
        BY <2>1 DEF PositionsInv
<1> QED
    BY <1>1, <1>2, <1>3, <1>4, EmitRankCopies DEF Next, AllNext

-----------------------------------------------------------------------------
\* Types.

\* Which actions change a variable.
LEMMA Changes ==
    ASSUME [Next]_vars
    PROVE  /\ call' = call
           /\ CountAny \/ FilterRow \/ UNCHANGED <<match_count, max_right_region>>
           /\ CountAny \/ UNCHANGED max_right_position
           /\ CountAny \/ AskRow \/ UNCHANGED selected
           /\ \/ EndTotals \/ OffsetRank \/ CountRow \/ CountRank \/ EmitRow \/ EmitRank
              \/ UNCHANGED rank
           /\ \/ CountRow \/ EmitRow \/ EndOffsetRows \/ AskRow \/ EndAsk \/ AskAgainRow
              \/ UNCHANGED active_counts
           /\ EndCountRanks \/ AskRow \/ UNCHANGED left_match_counts
           /\ \/ EmitAny \/ Translate \/ EmitBest \/ EmitSelected \/ AskAgainRow
              \/ UNCHANGED outVars
<1>1. CASE PathsNext \/ SkipInactive \/ UNCHANGED vars
    BY <1>1 DEF PathsNext, BuildFirst, BuildSecond, OrderLeft, FindStarts, ReturnNone, SkipInactive
<1>2. CASE AnyNext
    BY <1>2 DEF AnyNext, CountAny, EndAny, EmitAny, FinishAny
<1>3. CASE LayoutNext
    BY <1>3 DEF LayoutNext, FilterRow, EndFilter, TotalRow, EndTotals, OffsetRank,
        EndOffsets, PlaceRow, EndPlace
<1>4. CASE AllNext
    BY <1>4 DEF AllNext, CountRow, CountRank, EndCountRanks, EndCount, OffsetRow,
        EndOffsetRows, EmitRow, EmitRank, EndEmitRanks, EndEmit, Translate, FinishAll
<1>5. CASE FirstLastNext
    BY <1>5 DEF FirstLastNext, EmitBest, FinishBest
<1>6. CASE ResidualNext
    BY <1>6 DEF ResidualNext, AskRow, EndAsk, EmitSelected, FinishSelected, AskAgainRow, FinishAsk
<1> QED
    BY <1>1, <1>2, <1>3, <1>4, <1>5, <1>6 DEF Next

LEMMA OtherInit == Init => OtherTypes
<1> SUFFICES ASSUME Init PROVE OtherTypes
    OBVIOUS
<1>1. SweepTypeOK
    BY LengthsAssumption DEF Init, SweepTypeOK, BelowLabels
<1>2. OutputTypeOK
    BY LengthsAssumption DEF Init, OutputTypeOK, Zero
<1> QED
    BY <1>1, <1>2 DEF OtherTypes

\* Where the largest label was first seen.
LEMMA MaximumPlaced ==
    ASSUME PathInv, SweepInv, CountAny, max_right_position \in Right \union {None}
    PROVE  max_right_position' \in Right \union {None}
<1>1. CASE NewLargest = {}
    BY <1>1 DEF CountAny, RaiseMaximum
<1>2. CASE NewLargest # {}
    <2>1. starts[row] \in 0 .. RightLen /\ previous_end \in 0 .. RightLen
        BY OpeningKeepsOrder DEF CountAny, Sweeping, Sweeps, SweepInv
    <2>2. NewLargest \in SUBSET Right
        BY <2>1, LengthsAssumption DEF NewLargest, Opened, Right
    <2>3. NewLargest \in SUBSET Int /\ IsFiniteSet(NewLargest)
        BY <2>2, RightFinite, LengthsAssumption DEF Right
    <2>4. \E j \in NewLargest : \A k \in NewLargest : j <= k
        BY <1>2, <2>3, FiniteExtremes
    <2>5. max_right_position' = CHOOSE j \in NewLargest : \A k \in NewLargest : j <= k
        BY <1>2 DEF CountAny, RaiseMaximum
    <2>6. max_right_position' \in NewLargest
        BY <2>4, <2>5
    <2> QED
        BY <2>2, <2>6
<1> QED
    BY <1>1, <1>2

LEMMA SweepTypesNext ==
    ASSUME PathInv, SweepInv, OpenInv, LayoutInv, OtherTypes, [Next]_vars,
           SweepInv', FilterInv', AnyInv', EmitInv', MatchInv'
    PROVE  SweepTypeOK'
<1>1. row' \in 0 .. LeftLen /\ previous_end' \in 0 .. RightLen /\ left_has_match' \in [Left -> BOOLEAN]
    BY DEF SweepInv, FilterInv
<1>2. CountAny => pc' = "any" /\ pc = "any"
    BY AdvanceKeepsSweep DEF CountAny, Sweeping, Sweeps, Scanning
<1>3. FilterRow => pc' = "filter"
    BY AdvanceKeepsSweep DEF FilterRow, Sweeps, Scanning
<1>4. match_count' \in 0 .. LeftLen
    <2>1. CASE CountAny
        <3>1. match_count' = Cardinality(Selected')
            BY <1>2, <2>1 DEF EmitInv
        <3>2. Selected' \in SUBSET Left
            BY DEF Selected
        <3> QED
            BY <3>1, <3>2, FlaggedFinite
    <2>2. CASE FilterRow
        <3>1. match_count' = Cardinality(Flagged')
            BY <1>3, <2>2 DEF MatchInv, Unlaid
        <3>2. Flagged' \in SUBSET Left
            BY DEF Flagged
        <3> QED
            BY <3>1, <3>2, FlaggedFinite
    <2>3. CASE UNCHANGED match_count
        BY <2>3 DEF OtherTypes, SweepTypeOK
    <2> QED
        BY <2>1, <2>2, <2>3, Changes
<1>5. max_right_region' \in BelowLabels .. LeftLen
    <2>1. CASE CountAny
        BY <1>2, <2>1 DEF AnyInv, MaximumKnown, HighestFrom
    <2>2. CASE FilterRow
        BY <1>3, <2>2 DEF FilterInv, HighestFrom
    <2>3. CASE UNCHANGED max_right_region
        BY <2>3 DEF OtherTypes, SweepTypeOK
    <2> QED
        BY <2>1, <2>2, <2>3, Changes
<1>6. max_right_position' \in Right \union {None}
    BY Changes, MaximumPlaced DEF OtherTypes, SweepTypeOK
<1>7. selected' \in [Left -> Right \union {None}]
    <2>1. CASE CountAny
        <3>1. AnyCall'
            BY <1>2, <2>1 DEF AnyInv
        <3> QED
            BY <3>1 DEF AnyInv
    <2>2. CASE AskRow
        BY <2>2, AskRowFinds DEF OtherTypes, SweepTypeOK
    <2>3. CASE UNCHANGED selected
        BY <2>3 DEF OtherTypes, SweepTypeOK
    <2> QED
        BY <2>1, <2>2, <2>3, Changes
<1> QED
    BY <1>1, <1>4, <1>5, <1>6, <1>7 DEF SweepTypeOK

LEMMA CountTypesNext ==
    ASSUME PathInv, SweepInv, OpenInv, LayoutInv, CountInv, SumInv, OtherTypes, [Next]_vars,
           SweepInv', LayoutInv'
    PROVE  /\ rank' \in 0 .. RightLen
           /\ active_counts' \in [Right -> 0 .. RightLen]
           /\ left_match_counts' \in [Left -> 0 .. RightLen]
<1>1. rank' \in 0 .. RightLen
    <2>1. CASE EndTotals
        BY <2>1, LengthsAssumption DEF EndTotals
    <2>2. CASE OffsetRank \/ CountRank \/ EmitRank
        <3>1. rank < RankCount /\ rank' = rank + 1 /\ pc \in {"slices", "count_ranks", "emit_ranks"}
            BY <2>2 DEF OffsetRank, CountRank, EmitRank
        <3>2. RankCount \in 0 .. RightLen
            BY <3>1, RankTypes DEF PathInv, Preparing
        <3> QED
            BY <3>1, <3>2, LengthsAssumption DEF OtherTypes, OutputTypeOK
    <2>3. CASE CountRow \/ EmitRow
        <3>1. pc \in Sweeps /\ row < LeftLen /\ ~Inactive /\ rank' \in {rank, FirstRank}
            BY <2>3 DEF CountRow, EmitRow, Sweeping, Sweeps
        <3>2. row \in Left /\ Ordered
            BY <3>1, OpeningKeepsOrder DEF PathInv, Sweeps, Preparing
        <3>3. FirstRank \in 0 .. RightLen
            BY <3>2, FromTypes, LengthsAssumption DEF FirstRank, RankFrom
        <3> QED
            BY <3>1, <3>3 DEF OtherTypes, OutputTypeOK
    <2>4. CASE UNCHANGED rank
        BY <2>4 DEF OtherTypes, OutputTypeOK
    <2> QED
        BY <2>1, <2>2, <2>3, <2>4, Changes
<1>2. active_counts' \in [Right -> 0 .. RightLen]
    <2>1. CASE CountRow \/ EmitRow \/ AskRow \/ AskAgainRow
        <3>1. pc' \in Counting \union Emitting
            <4>1. CASE CountRow
                BY <4>1, AdvanceKeepsSweep DEF CountRow, Sweeps, Scanning
            <4>2. CASE EmitRow
                BY <4>2, AdvanceKeepsSweep DEF EmitRow, Sweeps, Scanning
            <4>3. CASE AskRow
                BY <4>3, AdvanceKeepsSweep DEF AskRow, Sweeps, Scanning
            <4>4. CASE AskAgainRow
                BY <4>4, AdvanceKeepsSweep DEF AskAgainRow, Sweeps, Scanning
            <4> QED
                BY <2>1, <4>1, <4>2, <4>3, <4>4
        <3>2. Tallied(active_counts, Open)'
            BY <3>1 DEF LayoutInv
        <3>3. \A r \in Right : active_counts'[r] = Cardinality(OfRank(Open, r)')
            BY <3>2 DEF Tallied
        <3>4. Open' \in SUBSET Right
            BY LengthsAssumption DEF SweepInv, Open, Right
        <3>5. \A r : OfRank(Open, r)' \in SUBSET Right
            BY <3>4 DEF OfRank
        <3>6. \A r \in Right : active_counts'[r] \in 0 .. RightLen
            BY <3>3, <3>5, RightFinite
        <3> QED
            BY <3>2, <3>6 DEF Tallied
    <2>2. CASE EndOffsetRows \/ EndAsk
        BY <2>2, LengthsAssumption DEF EndOffsetRows, EndAsk, NoneActive
    <2>3. CASE UNCHANGED active_counts
        BY <2>3 DEF OtherTypes, OutputTypeOK
    <2> QED
        BY <2>1, <2>2, <2>3, Changes
<1>3. left_match_counts' \in [Left -> 0 .. RightLen]
    <2>1. CASE EndCountRanks
        <3>1. /\ matches \in 0 .. RightLen
              /\ left_match_counts' = [left_match_counts EXCEPT ![row] = matches]
            BY <2>1, CandidatesFinite DEF EndCountRanks, CountInv
        <3> QED
            BY <3>1 DEF OtherTypes, OutputTypeOK
    <2>2. CASE AskRow
        <3>1. /\ pc = "ask" /\ row \in Left
              /\ left_match_counts' = [left_match_counts EXCEPT ![row] = Cardinality(FoundOf(row))]
            BY <2>2, AskRowFinds
        <3>2. Cardinality(FoundOf(row)) \in 0 .. RightLen
            BY <3>1, FoundFinite
        <3> QED
            BY <3>1, <3>2 DEF OtherTypes, OutputTypeOK
    <2>3. CASE UNCHANGED left_match_counts
        BY <2>3 DEF OtherTypes, OutputTypeOK
    <2> QED
        BY <2>1, <2>2, <2>3, Changes
<1> QED
    BY <1>1, <1>2, <1>3

\* The output is left rows, and index values of right rows.
LEMMA OutputsNext ==
    ASSUME PathInv, SweepInv, OpenInv, LayoutInv, FilterInv, AnyInv, BestInv, AskInv, SumInv,
           PositionsInv, OtherTypes, [Next]_vars
    PROVE  left_output' \in Seq(Left) /\ right_output' \in Seq(Values)
<1>1. /\ left_output \in Seq(Left) /\ right_output \in Seq(Values)
      /\ selected \in [Left -> Right \union {None}]
    BY DEF OtherTypes, OutputTypeOK, SweepTypeOK, Values
<1>2. CASE EmitAny \/ EmitSelected
    <2>1. /\ pc \in {"emit_any", "emit_selected"} /\ row \in Left
          /\ \/ UNCHANGED outVars
             \/ /\ selected[row] # None
                /\ left_output' = Append(left_output, left_order[row])
                /\ right_output' = Append(right_output, call.right_index[selected[row]])
        BY <1>2, LengthsAssumption DEF EmitAny, EmitSelected, SweepInv, Left
    <2>2. left_order[row] \in Left
        BY <2>1, OrderedTypes DEF PathInv, Preparing
    <2>3. selected[row] # None => call.right_index[selected[row]] \in Values
        BY <1>1, <2>1 DEF Values
    <2>4. CASE UNCHANGED outVars
        BY <1>1, <2>4
    <2>5. CASE /\ selected[row] # None
               /\ left_output' = Append(left_output, left_order[row])
               /\ right_output' = Append(right_output, call.right_index[selected[row]])
        <3>1. left_output' \in Seq(Left)
            BY <1>1, <2>2, <2>5, AppendProperties
        <3>2. right_output' \in Seq(Values)
            BY <1>1, <2>3, <2>5, AppendProperties
        <3> QED
            BY <3>1, <3>2
    <2> QED
        BY <2>1, <2>4, <2>5
<1>3. CASE EmitBest
    BY <1>1, <1>3, EmitBestKeeps
<1>4. CASE Translate
    <2>1. /\ pc = "translate" /\ row \in Left
          /\ left_output' =
                left_output \o [n \in 1 .. left_match_counts[row] |-> left_order[row]]
          /\ right_output' =
                right_output \o [n \in 1 .. left_match_counts[row] |->
                                    call.right_index[positions[offsets[row] + n - 1]]]
        BY <1>4, LengthsAssumption DEF Translate, SweepInv, Left
    <2>2. left_order[row] \in Left /\ left_match_counts[row] \in Nat
        BY <2>1, OrderedTypes DEF PathInv, Preparing, SumInv
    <2>3. positions \in [0 .. total_size - 1 -> Right]
        BY <2>1 DEF PositionsInv, Copying
    <2>4. ASSUME NEW n \in 1 .. left_match_counts[row]
          PROVE  call.right_index[positions[offsets[row] + n - 1]] \in Values
        <3>1. offsets[row] + n - 1 \in 0 .. total_size - 1
            BY <2>1, PlacesFit DEF Copying
        <3> QED
            BY <2>3, <3>1 DEF Values
    <2> DEFINE new == [n \in 1 .. left_match_counts[row] |->
                        call.right_index[positions[offsets[row] + n - 1]]]
    <2>5. new \in Seq(Values)
        BY <2>2, <2>4, IsASeq
    <2> QED
        BY <1>1, <2>1, <2>2, <2>5, OutputGrows
<1>5. CASE AskAgainRow
    <2>1. pc = "ask_again" /\ row \in Left
        BY <1>5, AskAgainFinds
    <2>2. PICK labels \in Seq(Values) :
            /\ left_output' = left_output \o [n \in 1 .. Len(labels) |-> left_order[row]]
            /\ right_output' = right_output \o labels
        BY <1>5, AskAgainFinds
    <2>3. left_order[row] \in Left /\ Len(labels) \in Nat
        BY <2>1, OrderedTypes, LenProperties DEF PathInv, Preparing
    <2> QED
        BY <1>1, <2>2, <2>3, OutputGrows
<1> QED
    BY <1>1, <1>2, <1>3, <1>4, <1>5, Changes

-----------------------------------------------------------------------------
\* The inductive invariant, and what follows.

AgreeInv ==
    /\ PathInv /\ SweepInv /\ FilterInv /\ AnyInv /\ EmitInv /\ OpenInv /\ LayoutInv
    /\ MatchInv /\ BestInv /\ CountInv /\ AskInv /\ SumInv /\ PositionsInv /\ OtherTypes

LEMMA AgreeInit == Init => AgreeInv
    BY PathInit, SweepInit, FilterInit, AnyInit, EmitInit, OpenInit, LayoutInit, MatchInit,
        BestInit, CountInit, AskInit, SumInit, PositionsInit, OtherInit DEF AgreeInv

LEMMA AgreeNext == AgreeInv /\ [Next]_vars => AgreeInv'
<1> SUFFICES ASSUME AgreeInv, [Next]_vars PROVE AgreeInv'
    OBVIOUS
<1> USE DEF AgreeInv
<1>1. PathInv' /\ SweepInv' /\ FilterInv' /\ AnyInv' /\ EmitInv' /\ OpenInv' /\ LayoutInv'
    BY PathNext, SweepNext, FilterNext, AnyInvNext, EmitNext, OpenNext, LayoutInvNext
<1>2. MatchInv' /\ BestInv' /\ CountInv' /\ AskInv' /\ SumInv' /\ PositionsInv'
    BY MatchNext, BestNext, CountNext, AskNext, SumNext, PositionsNext
<1>3. SweepTypeOK'
    BY <1>1, <1>2, SweepTypesNext
<1>4. OutputTypeOK'
    <2>1. left_output' \in Seq(Left) /\ right_output' \in Seq(Values)
        BY OutputsNext
    <2>2. Values = {call'.right_index[j] : j \in Right}
        BY Changes DEF Values
    <2> QED
        BY <1>1, <2>1, <2>2, CountTypesNext DEF OutputTypeOK
<1> QED
    BY <1>1, <1>2, <1>3, <1>4 DEF OtherTypes

\* No step of any pass ends in an internal error.
LEMMA NoStepFails ==
    ASSUME AgreeInv, [Next]_vars, pc # "error"
    PROVE  pc' # "error"
<1> USE DEF AgreeInv
<1>1. CASE PathsNext \/ SkipInactive \/ UNCHANGED vars
    BY <1>1 DEF PathsNext, BuildFirst, BuildSecond, OrderLeft, FindStarts, FirstPass,
        ReturnNone, SkipInactive
<1>2. CASE AnyNext
    <2>1. AnyCall'
        <3>1. AnyCall
            BY <1>2 DEF AnyNext, CountAny, EndAny, EmitAny, FinishAny, Sweeping, Swept, AnyInv
        <3> QED
            BY <3>1, Changes DEF AnyCall
    <2> QED
        BY <2>1, EmitNext DEF EmitInv
<1>3. CASE LayoutNext
    <2>1. CASE FilterRow \/ TotalRow \/ PlaceRow
        <3>1. {"filter", "totals", "place"} \subseteq Sweeps \cap Scanning
            BY DEF Sweeps, Scanning
        <3> QED
            BY <2>1, <3>1, AdvanceKeepsSweep DEF FilterRow, TotalRow, PlaceRow
    <2>2. CASE EndFilter \/ EndTotals \/ OffsetRank \/ EndOffsets
        BY <2>2 DEF EndFilter, EndTotals, OffsetRank, EndOffsets
    <2> QED
        BY <1>3, <2>1, <2>2, EndPlaceKeepsLayout DEF LayoutNext
<1>4. CASE CountRow \/ EmitRow
    <2>1. /\ {"count", "emit"} \subseteq Sweeps \cap Scanning
          /\ {"count_ranks", "emit_ranks"} \subseteq Scanning
        BY DEF Sweeps, Scanning
    <2> QED
        BY <1>4, <2>1, AdvanceKeepsSweep DEF CountRow, EmitRow
<1>5. CASE EmitBest \/ AskRow \/ AskAgainRow
    <2>1. {"best", "ask", "ask_again"} \subseteq Sweeps \cap Scanning
        BY DEF Sweeps, Scanning
    <2> QED
        BY <1>5, <2>1, AdvanceKeepsSweep DEF EmitBest, AskRow, AskAgainRow
<1>6. CASE \/ CountRank \/ EndCountRanks \/ EndCount \/ OffsetRow \/ EndOffsetRows
           \/ EmitRank \/ EndEmit \/ Translate \/ FinishAll
           \/ EndAsk \/ EmitSelected \/ FinishSelected
    BY <1>6 DEF CountRank, EndCountRanks, EndCount, OffsetRow, EndOffsetRows, EmitRank,
        EndEmit, Translate, FinishAll, EndAsk, EmitSelected, FinishSelected
<1>7. CASE EndEmitRanks
    BY <1>7, EmitRanksAgree
<1>8. CASE FinishBest
    BY <1>8, FinishBestAgrees
<1>9. CASE FinishAsk
    BY <1>9, FinishAskAgrees
<1> QED
    BY <1>1, <1>2, <1>3, <1>4, <1>5, <1>6, <1>7, <1>8, <1>9
        DEF Next, AllNext, FirstLastNext, ResidualNext

\* The later pass of every policy yields exactly what its earlier pass counted, the
\* layout is filled as it was sized and windows only grow: for every call, every
\* column length and every order the sort may give, no internal error is returned.
THEOREM PassesAgreeTheorem == Spec => []PassesAgree
<1>1. Init => AgreeInv /\ PassesAgree
    BY AgreeInit DEF Init, PassesAgree
<1>2. AgreeInv /\ PassesAgree /\ [Next]_vars => AgreeInv' /\ PassesAgree'
    BY AgreeNext, NoStepFails DEF PassesAgree
<1> QED
    BY <1>1, <1>2, PTL DEF Spec

\* Every variable keeps its type; among them, that what the join emits are rows of
\* its columns (OutputTypeOK) rests on the places fitting the size that was reserved.
THEOREM TypeOKTheorem == Spec => []TypeOK
<1>1. Init => AgreeInv /\ PathsTypeOK
    BY AgreeInit, TypeInit
<1>2. AgreeInv /\ PathsTypeOK /\ [Next]_vars => AgreeInv' /\ PathsTypeOK'
    BY AgreeNext, TypeNext DEF AgreeInv
<1>3. AgreeInv /\ PathsTypeOK => TypeOK
    BY DEF AgreeInv, OtherTypes, TypeOK
<1> QED
    BY <1>1, <1>2, <1>3, PTL DEF Spec
-----------------------------------------------------------------------------
\* The join implements RangeJoin.  What a pass puts out for a row is, whatever
\* the policy, taken from the row's candidates, and those are its matches; so
\* the invariant says how far each pass has got with them: copied (CopyInv),
\* reduced to extremes (ExtremeInv), or picked (SelectInv).

LabelsOf(S) == {call.right_index[j] : j \in S}

\* The right rows that a search position matches, and joins.
Matched(k) == {j \in Right : Matches(left_order[k], j)}
JoinedOf(k) == {j \in Right : Joined(left_order[k], j)}

-----------------------------------------------------------------------------
\* Candidates are matches.

\* A label that does not reach the row's has a lower rank.
LEMMA RanksDecide ==
    ASSUME PathInv, Ordered, NEW i \in Left, NEW j \in Right,
           second.left[i] # 0, RankFrom(i) <= Rank(j)
    PROVE  second.left[i] <= second.right[j]
<1>1. /\ second.left[i] \in Nat /\ second.right[j] \in Nat /\ second.right \in [Right -> Nat]
      /\ RankFrom(i) \in Nat
    <2>1. RankFrom(i) \in 0 .. RankCount /\ RankCount \in 0 .. RightLen
        BY FromTypes
    <2> QED
        BY <2>1, OrderedTypes
<1>2. second.right[j] # 0 /\ Rank(j) = RankOf(second.right[j])
    BY <1>1 DEF Rank, NoRank
<1>3. SUFFICES ASSUME second.right[j] < second.left[i] PROVE FALSE
    BY <1>1
<1> DEFINE low == {l \in Labels : l < second.right[j]}
           high == {l \in Labels : l < second.left[i]}
<1>4. second.right[j] \in Labels /\ Labels \in SUBSET Nat /\ IsFiniteSet(Labels)
    <2>1. second.right \in Surjection(Right, {second.right[k] : k \in Right})
        BY <1>1 DEF Surjection
    <2>2. IsFiniteSet({second.right[k] : k \in Right})
        BY <2>1, RightFinite, FS_Surjection
    <2>3. Labels \in SUBSET {second.right[k] : k \in Right}
        BY DEF Labels
    <2>4. IsFiniteSet(Labels)
        BY <2>2, <2>3, FS_Subset
    <2> QED
        BY <1>1, <1>2, <2>4 DEF Labels
<1>5. low \in SUBSET high /\ second.right[j] \in high /\ second.right[j] \notin low
    <2>1. \A l \in Labels : l < second.right[j] => l < second.left[i]
        BY <1>1, <1>3, <1>4
    <2>2. ~(second.right[j] < second.right[j])
        BY <1>1
    <2> QED
        BY <1>3, <1>4, <2>1, <2>2
<1>6. high \in SUBSET Labels
    OBVIOUS
<1>7. IsFiniteSet(high)
    BY <1>4, <1>6, FS_Subset
<1>8. /\ Cardinality(low) <= Cardinality(high)
      /\ Cardinality(low) = Cardinality(high) => low = high
    BY <1>5, <1>7, FS_Subset
<1>9. Cardinality(high) <= Cardinality(low)
    BY <1>2 DEF RankFrom, RankOf
<1>10. IsFiniteSet(low) /\ Cardinality(low) \in Nat /\ Cardinality(high) \in Nat
    <2>1. IsFiniteSet(low)
        BY <1>5, <1>7, FS_Subset
    <2> QED
        BY <1>7, <2>1, FS_CardinalityType
<1> QED
    BY <1>5, <1>8, <1>9, <1>10

LEMMA CandidatesAreMatches ==
    ASSUME PathInv, Ordered, Windowed, NEW i \in Left, starts[i] # RightLen
    PROVE  Candidates(i, RankCount) = Matched(i)
<1>1. Matched(i) \in SUBSET Candidates(i, RankCount)
    <2> SUFFICES ASSUME NEW j \in Right, Matches(left_order[i], j)
                 PROVE  j \in Candidates(i, RankCount)
        BY DEF Matched
    <2>1. j \in OpenBy(i + 1) /\ Rank(j) \in RankFrom(i) .. RankCount - 1
        BY MatchHasRank
    <2>2. RankCount \in Int /\ RankFrom(i) \in Int
        BY FromTypes, LengthsAssumption
    <2> QED
        BY <2>1, <2>2 DEF Candidates
<1>2. Candidates(i, RankCount) \in SUBSET Matched(i)
    <2> SUFFICES ASSUME NEW j \in Candidates(i, RankCount) PROVE j \in Matched(i)
        OBVIOUS
    <2>1. j \in Right /\ RankFrom(i) <= Rank(j)
        BY DEF Candidates, OpenBy
    <2>2. PICK k \in Left : k < i + 1 /\ starts[k] <= j
        BY DEF Candidates, OpenBy
    <2>3. starts \in Boundaries /\ starts[i] \in 0 .. RightLen /\ starts[k] \in 0 .. RightLen
        BY WindowsDecide DEF Boundaries
    <2>4. starts[k] # RightLen
        BY <2>1, <2>2, <2>3, LengthsAssumption DEF Right
    <2>5. starts[i] <= starts[k]
        <3>1. CASE k = i
            BY <2>3, <3>1, LengthsAssumption
        <3>2. CASE k < i
            BY <2>4, <3>2, WindowsDecide
        <3> QED
            BY <2>2, <3>1, <3>2 DEF Left
    <2>6. starts[i] <= j
        BY <2>1, <2>2, <2>3, <2>5, LengthsAssumption DEF Right
    <2>7. second.left[i] # 0
        BY StartIsExact DEF Windowed
    <2>8. second.left[i] <= second.right[j]
        BY <2>1, <2>7, RanksDecide
    <2> QED
        BY <2>1, <2>6, <2>7, <2>8, WindowsDecide DEF Matched
<1> QED
    BY <1>1, <1>2

\* A flagged row's candidates are its matches; no other row has any.
LEMMA FlaggedCandidates ==
    ASSUME PathInv, FilterInv, pc \in Filtered, NEW i \in Left
    PROVE  /\ left_has_match[i] => Candidates(i, RankCount) = Matched(i) /\ Matched(i) # {}
           /\ ~left_has_match[i] => Matched(i) = {}
<1>1. Ordered /\ Windowed
    BY DEF PathInv, Filtered, Preparing
<1>2. left_has_match[i] <=> Reaches(i)
    BY DEF FilterInv
<1>3. Reaches(i) <=> Matched(i) # {}
    BY DEF Reaches, Matched
<1>4. Reaches(i) => starts[i] # RightLen
    BY <1>1, InactiveHasNoMatch
<1> QED
    BY <1>1, <1>2, <1>3, <1>4, CandidatesAreMatches

\* What a row joins is what it matches and the residual predicates accept.
LEMMA JoinedIsMatched ==
    ASSUME NEW k
    PROVE  /\ ~call.has_residuals => JoinedOf(k) = Matched(k)
           /\ JoinedOf(k) \in SUBSET Matched(k) /\ Matched(k) \in SUBSET Right
           /\ call.has_residuals =>
                JoinedOf(k) = {j \in Matched(k) : <<left_order[k], j>> \in call.residual}
           /\ MatchingLabels(left_order[k]) = LabelsOf(JoinedOf(k))
    BY DEF JoinedOf, Matched, Joined, MatchingLabels, LabelsOf

-----------------------------------------------------------------------------
\* What the residual walks find.

\* A row of places, of the length of a set, that holds each of its members holds
\* each once.
LEMMA HoldsOnce ==
    ASSUME NEW a \in Int, NEW c \in Nat, NEW S, Cardinality(S) = c,
           NEW f \in [a .. a + c - 1 -> S], \A x \in S : \E n \in a .. a + c - 1 : f[n] = x
    PROVE  \A m, n \in a .. a + c - 1 : f[m] = f[n] => m = n
<1> DEFINE D == a .. a + c - 1
<1>1. IsFiniteSet(D) /\ Cardinality(D) = c
    <2>1. a + c - 1 \in Int
        OBVIOUS
    <2>2. /\ IsFiniteSet(D)
          /\ Cardinality(D) = IF a > a + c - 1 THEN 0 ELSE (a + c - 1) - a + 1
        BY <2>1, FS_Interval
    <2>3. (IF a > a + c - 1 THEN 0 ELSE (a + c - 1) - a + 1) = c
        OBVIOUS
    <2> HIDE DEF D
    <2> QED
        BY <2>2, <2>3
<1>2. f \in [D -> S] /\ \A x \in S : \E n \in D : f[n] = x
    OBVIOUS
<1> HIDE DEF D
<1>3. f \in Surjection(D, S)
    BY <1>2 DEF Surjection
<1>4. f \in Injection(D, S)
    BY <1>1, <1>3, FS_SurjSameCardinalityImpliesInj
<1>5. \A m, n \in D : f[m] = f[n] => m = n
    BY <1>4 DEF Injection, IsInjective
<1> QED
    BY <1>5 DEF D

\* The slots of a row hold its candidates.
LEMMA SlotsHoldCandidates ==
    ASSUME PathInv, SweepInv, LayoutInv, pc \in LaidOut, NEW i \in Left
    PROVE  {layout_positions[s] : s \in SlotsOf(i)} = Candidates(i, RankCount)
<1>1. Ordered /\ Placed(LeftLen) /\ i + 1 \in 0 .. LeftLen
    BY LengthsAssumption DEF PathInv, Preparing, LayoutInv, Left
<1>2. RankFrom(i) \in 0 .. RankCount /\ RankCount \in 0 .. RightLen
    BY <1>1, FromTypes
<1> DEFINE open(r) == OfRank(OpenBy(i + 1), r)
           ranks == RankFrom(i) .. RankCount - 1
<1>3. ASSUME NEW r \in ranks
      PROVE  /\ {layout_positions[layout_offsets[r] + m] : m \in 0 .. Cardinality(open(r)) - 1} = open(r)
             /\ layout_offsets[r] \in Nat /\ Cardinality(open(r)) \in Nat
    <2>1. r \in 0 .. RankCount - 1 /\ r \in Right
        BY <1>2, LengthsAssumption DEF Right
    <2>2. Prefix(r, Cardinality(open(r))) = open(r)
        BY <1>1, <2>1, LengthsAssumption DEF Placed
    <2>3. Cardinality(open(r)) \in Nat
        BY OpenTypes, OfRankFinite
    <2> QED
        BY <2>1, <2>2, <2>3 DEF Prefix, LayoutInv
<1> HIDE DEF open
<1>4. ASSUME NEW r \in ranks
      PROVE  {layout_positions[s] : s \in layout_offsets[r] .. layout_offsets[r] + Cardinality(open(r)) - 1}
                = open(r)
    <2> DEFINE o == layout_offsets[r]
               c == Cardinality(open(r))
    <2>1. o \in Nat /\ c \in Nat
        BY <1>3, <1>4
    <2>2. {layout_positions[o + m] : m \in 0 .. c - 1} = open(r)
        BY <1>3, <1>4
    <2> HIDE DEF o, c
    <2>3. ASSUME NEW s \in o .. o + c - 1 PROVE layout_positions[s] \in open(r)
        <3>1. s - o \in 0 .. c - 1 /\ o + (s - o) = s
            BY <2>1, <2>3
        <3> QED
            BY <2>2, <3>1
    <2>4. ASSUME NEW j \in open(r) PROVE \E s \in o .. o + c - 1 : j = layout_positions[s]
        <3>1. PICK m \in 0 .. c - 1 : j = layout_positions[o + m]
            BY <2>2, <2>4
        <3>2. o + m \in o .. o + c - 1
            BY <2>1, <3>1
        <3> QED
            BY <3>1, <3>2
    <2>5. {layout_positions[s] : s \in o .. o + c - 1} = open(r)
        BY <2>3, <2>4
    <2> QED
        BY <2>5 DEF o, c
<1>5. SlotsOf(i) = UNION {layout_offsets[r] .. layout_offsets[r] + Cardinality(open(r)) - 1 : r \in ranks}
    BY DEF SlotsOf, open
<1>6. \A j : j \in Candidates(i, RankCount) <=> \E r \in ranks : j \in open(r)
    <2>1. \A j \in OpenBy(i + 1) : Rank(j) \in Int
        BY <1>1, RankTypes DEF OpenBy
    <2>2. \A j \in OpenBy(i + 1) :
            RankFrom(i) <= Rank(j) /\ Rank(j) < RankCount <=> Rank(j) \in ranks
        BY <1>2, <2>1, LengthsAssumption
    <2> HIDE DEF ranks
    <2> QED
        BY <2>2 DEF Candidates, open, OfRank
<1> HIDE DEF ranks
<1>7. \A s \in SlotsOf(i) : layout_positions[s] \in Candidates(i, RankCount)
    BY <1>4, <1>5, <1>6
<1>8. ASSUME NEW j \in Candidates(i, RankCount)
      PROVE  \E s \in SlotsOf(i) : j = layout_positions[s]
    <2>1. PICK r \in ranks : j \in open(r)
        BY <1>6, <1>8
    <2>2. PICK s \in layout_offsets[r] .. layout_offsets[r] + Cardinality(open(r)) - 1 :
                j = layout_positions[s]
        BY <1>4, <2>1
    <2>3. s \in SlotsOf(i)
        BY <1>5, <2>1, <2>2
    <2> QED
        BY <2>2, <2>3
<1> QED
    BY <1>7, <1>8

\* No position is in two slots of a row.
LEMMA SlotsHoldOnce ==
    ASSUME PathInv, SweepInv, LayoutInv, pc \in LaidOut, NEW i \in Left,
           NEW s \in SlotsOf(i), NEW t \in SlotsOf(i), layout_positions[s] = layout_positions[t]
    PROVE  s = t
<1>1. Ordered /\ Placed(LeftLen) /\ i + 1 \in 0 .. LeftLen
    BY LengthsAssumption DEF PathInv, Preparing, LayoutInv, Left
<1>2. RankFrom(i) \in 0 .. RankCount /\ RankCount \in 0 .. RightLen
    BY <1>1, FromTypes
<1> DEFINE open(r) == OfRank(OpenBy(i + 1), r)
           ranks == RankFrom(i) .. RankCount - 1
           slots(r) == layout_offsets[r] .. layout_offsets[r] + Cardinality(open(r)) - 1
<1>3. ASSUME NEW r \in ranks
      PROVE  /\ \A x \in slots(r) : layout_positions[x] \in open(r)
             /\ \A x, y \in slots(r) : layout_positions[x] = layout_positions[y] => x = y
    <2> DEFINE o == layout_offsets[r]
               c == Cardinality(open(r))
    <2>1. r \in 0 .. RankCount - 1 /\ r \in Right
        BY <1>2, LengthsAssumption DEF Right
    <2>2. {layout_positions[o + m] : m \in 0 .. c - 1} = open(r)
        <3>1. Prefix(r, c) = open(r)
            BY <1>1, <2>1, LengthsAssumption DEF Placed
        <3> QED
            BY <3>1 DEF Prefix
    <2>3. o \in Nat /\ c \in Nat
        BY <2>1, OpenTypes, OfRankFinite DEF LayoutInv
    <2> HIDE DEF o, c
    <2>4. \A x \in o .. o + c - 1 : x - o \in 0 .. c - 1 /\ o + (x - o) = x
        BY <2>3
    <2>5. \A m \in 0 .. c - 1 : o + m \in o .. o + c - 1
        BY <2>3
    <2>6. \A x \in o .. o + c - 1 : layout_positions[x] \in open(r)
        BY <2>2, <2>4
    <2> DEFINE f == [x \in o .. o + c - 1 |-> layout_positions[x]]
    <2>7. f \in [o .. o + c - 1 -> open(r)]
        BY <2>6
    <2>8. \A j \in open(r) : \E x \in o .. o + c - 1 : f[x] = j
        BY <2>2, <2>5
    <2>9. Cardinality(open(r)) = c
        BY DEF c
    <2>10. \A x, y \in o .. o + c - 1 : f[x] = f[y] => x = y
        <3> HIDE DEF f
        <3>1. o \in Int
            BY <2>3
        <3> QED
            BY <2>3, <2>7, <2>8, <2>9, <3>1, HoldsOnce
    <2>11. slots(r) = o .. o + c - 1
        BY DEF o, c
    <2>12. \A x \in o .. o + c - 1 : f[x] = layout_positions[x]
        OBVIOUS
    <2> HIDE DEF f, slots
    <2> QED
        BY <2>6, <2>10, <2>11, <2>12
<1>4. SlotsOf(i) = UNION {slots(r) : r \in ranks}
    BY DEF SlotsOf
<1> HIDE DEF slots, ranks
<1>5. PICK q \in ranks, r \in ranks : s \in slots(q) /\ t \in slots(r)
    BY <1>4
<1>6. layout_positions[s] \in open(q) /\ layout_positions[t] \in open(r)
    BY <1>3, <1>5
<1>7. q = r
    BY <1>6 DEF OfRank
<1> QED
    BY <1>3, <1>5, <1>7

\* What passes in a row's slots is what the row joins; and the walks stop at the
\* first of it, or take all.
LEMMA FoundIsJoined ==
    ASSUME PathInv, SweepInv, FilterInv, LayoutInv, call.has_residuals, pc \in LaidOut, NEW i \in Left
    PROVE  /\ FoundOf(i) = {} <=> JoinedOf(i) = {}
           /\ FoundOf(i) # {} =>
                {layout_positions[s] : s \in PassingOf(i)} = JoinedOf(i) /\ PassingOf(i) # {}
           /\ \A s \in FoundOf(i) : layout_positions[s] \in JoinedOf(i)
<1>1. /\ left_has_match[i] => Candidates(i, RankCount) = Matched(i)
      /\ ~left_has_match[i] => Matched(i) = {}
    <2>1. pc \in Filtered
        BY DEF Filtered
    <2> QED
        BY <2>1, FlaggedCandidates
<1>2. {layout_positions[s] : s \in SlotsOf(i)} = Candidates(i, RankCount)
    BY SlotsHoldCandidates
<1>3. JoinedOf(i) = {j \in Matched(i) : <<left_order[i], j>> \in call.residual}
    BY JoinedIsMatched
<1>4. left_has_match[i] => {layout_positions[s] : s \in PassingOf(i)} = JoinedOf(i)
    BY <1>1, <1>2, <1>3 DEF PassingOf
<1>5. ~left_has_match[i] => JoinedOf(i) = {}
    BY <1>1, <1>3
<1>6. PassingOf(i) \in SUBSET Right
    BY SlotsFit DEF PassingOf
<1>7. /\ Met(PassingOf(i)) \in SUBSET PassingOf(i)
      /\ Met(PassingOf(i)) = {} <=> PassingOf(i) = {}
    <2>1. Cardinality({}) = 0
        BY FS_EmptySet
    <2> QED
        BY <1>6, <2>1, MetCounts
<1>8. left_has_match[i] => second.left[i] # 0
    <2>1. Ordered /\ Windowed
        BY DEF PathInv, Preparing
    <2>2. left_has_match[i] => Reaches(i)
        BY DEF FilterInv, Filtered
    <2> QED
        BY <2>1, <2>2, MatchHasRank DEF Reaches
<1> QED
    BY <1>4, <1>5, <1>7, <1>8 DEF FoundOf

-----------------------------------------------------------------------------
\* What the policies permit.

Allowed(k, A) == A \in Join!Permitted(call.keep, MatchingLabels(left_order[k]))

LEMMA NothingIsAllowed ==
    ASSUME NEW k, JoinedOf(k) = {}
    PROVE  Allowed(k, {})
<1>1. MatchingLabels(left_order[k]) = {}
    BY JoinedIsMatched DEF LabelsOf
<1> QED
    BY <1>1 DEF Allowed, Join!Permitted

LEMMA AllAreAllowed ==
    ASSUME NEW k, call.keep = "all"
    PROVE  Allowed(k, LabelsOf(JoinedOf(k)))
<1>1. MatchingLabels(left_order[k]) = LabelsOf(JoinedOf(k))
    BY JoinedIsMatched
<1> QED
    BY <1>1 DEF Allowed, Join!Permitted

LEMMA AnyIsAllowed ==
    ASSUME NEW k, call.keep = "any", NEW j \in JoinedOf(k)
    PROVE  Allowed(k, {call.right_index[j]})
<1>1. MatchingLabels(left_order[k]) = LabelsOf(JoinedOf(k))
    BY JoinedIsMatched
<1>2. call.right_index[j] \in LabelsOf(JoinedOf(k))
    BY DEF LabelsOf
<1> QED
    BY <1>1, <1>2 DEF Allowed, Join!Permitted

\* x is the value of S that the policy prefers.
Preferred(x, S) == x \in S /\ \A y \in S : IF call.keep = "first" THEN x <= y ELSE x >= y

LEMMA BestIsPreferred ==
    ASSUME PathInv, NEW S \in SUBSET Values, S # {}
    PROVE  \A x : Best(S) = x <=> Preferred(x, S)
<1>1. S \in SUBSET Int
    BY ValuesFinite
<1>2. /\ \E m \in S : \A k \in S : m <= k
      /\ \E m \in S : \A k \in S : m >= k
    BY <1>1, ValuesFinite, FiniteExtremes
<1>3. \E x \in S : \A y \in S : IF call.keep = "first" THEN x <= y ELSE x >= y
    BY <1>2
<1>4. Preferred(Best(S), S)
    BY <1>3 DEF Best, Preferred
<1>5. \A x, y : Preferred(x, S) /\ Preferred(y, S) => x = y
    BY <1>1 DEF Preferred
<1> QED
    BY <1>4, <1>5

LEMMA BestIsAllowed ==
    ASSUME PathInv, NEW k, call.keep \in {"first", "last"}, JoinedOf(k) # {}
    PROVE  Allowed(k, {Best(LabelsOf(JoinedOf(k)))})
<1> DEFINE M == LabelsOf(JoinedOf(k))
<1>1. MatchingLabels(left_order[k]) = M
    BY JoinedIsMatched
<1>2. M \in SUBSET Values /\ M # {}
    BY JoinedIsMatched DEF LabelsOf, Values
<1>3. Preferred(Best(M), M)
    BY <1>2, BestIsPreferred
<1>4. M \in SUBSET Int
    BY <1>2, ValuesFinite
<1> HIDE DEF M
<1>5. {Best(M)} \in SUBSET M
    BY <1>3 DEF Preferred
<1>6. call.keep = "first" => \A m \in M : Best(M) <= m
    BY <1>3 DEF Preferred
<1>7. call.keep = "last" => \A m \in M : Best(M) >= m
    BY <1>3 DEF Preferred
<1>8. {Best(M)} \in Join!Permitted(call.keep, M)
    BY <1>2, <1>5, <1>6, <1>7 DEF Join!Permitted
<1> QED
    BY <1>1, <1>8 DEF Allowed, M

\* An extreme kept so far stands for what it was taken of.
LEMMA BestOfUnion ==
    ASSUME PathInv, NEW S \in SUBSET Values, NEW T \in SUBSET Values
    PROVE  Best(({Best(S)} \ {None}) \union T) = Best(S \union T)
<1>1. CASE S = {}
    <2>1. ({Best(S)} \ {None}) \union T = S \union T
        BY <1>1 DEF Best
    <2> QED
        BY <2>1
<1>2. CASE S # {}
    <2> DEFINE U == {Best(S)} \union T
    <2>1. Preferred(Best(S), S)
        BY <1>2, BestIsPreferred
    <2>2. ({Best(S)} \ {None}) \union T = U
        BY <2>1, ValuesFinite DEF Preferred
    <2>3. U \in SUBSET (S \union T) /\ U # {} /\ S \union T \in SUBSET Int
        BY <2>1, ValuesFinite DEF Preferred
    <2>4. Preferred(Best(U), U)
        BY <2>3, BestIsPreferred
    <2>5. Preferred(Best(U), S \union T)
        <3>1. Best(U) \in S \union T /\ Best(S) \in S \union T
            BY <2>1, <2>3, <2>4 DEF Preferred
        <3>2. ASSUME NEW y \in S \union T
              PROVE  IF call.keep = "first" THEN Best(U) <= y ELSE Best(U) >= y
            <4>1. CASE y \in T
                BY <2>4, <4>1 DEF Preferred
            <4>2. CASE y \in S
                <5>1. IF call.keep = "first" THEN Best(S) <= y ELSE Best(S) >= y
                    BY <2>1, <4>2 DEF Preferred
                <5>2. IF call.keep = "first" THEN Best(U) <= Best(S) ELSE Best(U) >= Best(S)
                    BY <2>4 DEF Preferred
                <5>3. Best(U) \in Int /\ Best(S) \in Int /\ y \in Int
                    BY <2>3, <3>1
                <5> HIDE DEF U
                <5> QED
                    BY <5>1, <5>2, <5>3
            <4> QED
                BY <4>1, <4>2
        <3> QED
            BY <3>1, <3>2 DEF Preferred
    <2>6. S \union T # {} /\ S \union T \in SUBSET Values
        BY <1>2
    <2> QED
        BY <2>2, <2>5, <2>6, BestIsPreferred
<1> QED
    BY <1>1, <1>2

\* The extreme of the extremes of several sets is the extreme of them all.
LEMMA BestOfBests ==
    ASSUME PathInv, NEW F \in SUBSET (SUBSET Values)
    PROVE  Best({Best(S) : S \in F} \ {None}) = Best(UNION F)
<1> DEFINE B == {Best(S) : S \in F} \ {None}
           U == UNION F
<1>1. U \in SUBSET Values /\ U \in SUBSET Int
    BY ValuesFinite
<1>2. \A S \in F : S # {} => Preferred(Best(S), S)
    BY BestIsPreferred
<1>3. \A S \in F : S = {} => Best(S) = None
    BY DEF Best
<1>4. B \in SUBSET U
    BY <1>2, <1>3 DEF Preferred
<1>5. \A x \in U : \E b \in B : IF call.keep = "first" THEN b <= x ELSE b >= x
    <2> SUFFICES ASSUME NEW x \in U
                 PROVE  \E b \in B : IF call.keep = "first" THEN b <= x ELSE b >= x
        OBVIOUS
    <2>1. PICK S \in F : x \in S
        OBVIOUS
    <2>2. Preferred(Best(S), S)
        BY <1>2, <2>1
    <2>3. Best(S) \in U
        BY <2>2 DEF Preferred
    <2>4. Best(S) \in B
        BY <1>1, <2>3, ValuesFinite
    <2> QED
        BY <2>1, <2>2, <2>4 DEF Preferred
<1>6. CASE U = {}
    <2>1. B = U
        BY <1>4, <1>6
    <2> QED
        BY <2>1
<1>7. CASE U # {}
    <2>1. B # {} /\ B \in SUBSET Values
        BY <1>1, <1>4, <1>5, <1>7
    <2>2. Preferred(Best(B), B)
        BY <2>1, BestIsPreferred
    <2>3. Preferred(Best(B), U)
        <3>1. Best(B) \in U
            BY <1>4, <2>2 DEF Preferred
        <3>2. ASSUME NEW x \in U
              PROVE  IF call.keep = "first" THEN Best(B) <= x ELSE Best(B) >= x
            <4>1. PICK b \in B : IF call.keep = "first" THEN b <= x ELSE b >= x
                BY <1>5
            <4>2. IF call.keep = "first" THEN Best(B) <= b ELSE Best(B) >= b
                BY <2>2 DEF Preferred
            <4>3. Best(B) \in Int /\ b \in Int /\ x \in Int
                BY <1>1, <1>4, <3>1
            <4> HIDE DEF B, U
            <4> QED
                BY <4>1, <4>2, <4>3
        <3> QED
            BY <3>1, <3>2 DEF Preferred
    <2> QED
        BY <1>1, <1>7, <2>3, BestIsPreferred
<1> QED
    BY <1>6, <1>7

-----------------------------------------------------------------------------
\* Which rows are answered, and with what.

\* The passes that put rows out, one after the other.
Answering == {"emit_any", "translate", "best", "emit_selected", "ask_again"}

\* Only answered rows have labels.
OutInv ==
    /\ Len(right_output) = Len(left_output)
    /\ \A m \in 1 .. Len(left_output) : \E k \in Answered : left_output[m] = left_order[k]
    /\ pc = "none" => Len(left_output) = 0

\* What is put out for them is what the policy allows.
AnswersInv == \A k \in Answered : Allowed(k, Emitted(left_order[k]))

\* The condition of NoPairTwice, and what it asks of the labels of one row.
DistinctRight == \A j, k \in Right : call.right_index[j] = call.right_index[k] => j = k

OneByOne(labels) ==
    DistinctRight => \A m, n \in 1 .. Len(labels) : labels[m] = labels[n] => m = n

\* No answer is taken back or changed.
Steady ==
    /\ Answered \in SUBSET Answered'
    /\ Answered # {} => left_order' = left_order
    /\ \A k \in Answered : \A i \in {left_order[k]} : Emitted(i)' = Emitted(i)

Answers == OutInv /\ AnswersInv /\ NoPairTwice

LEMMA OutputTypes ==
    ASSUME OtherTypes
    PROVE  left_output \in Seq(Left) /\ right_output \in Seq(Values)
    BY DEF OtherTypes, OutputTypeOK, Values

\* Nothing is put out before a row is answered.
LEMMA NothingPutOut ==
    ASSUME OtherTypes, OutInv, Answered = {} \/ pc = "none"
    PROVE  Len(left_output) = 0 /\ \A i : Emitted(i) = {}
<1>1. left_output \in Seq(Left)
    BY OutputTypes
<1>2. Len(left_output) \in Nat /\ DOMAIN left_output = 1 .. Len(left_output)
    BY <1>1, LenProperties
<1>3. Len(left_output) = 0
    <2>1. CASE Answered = {}
        <3>1. ~ \E m \in 1 .. Len(left_output) : TRUE
            BY <2>1 DEF OutInv
        <3>2. Len(left_output) # 0 => 1 \in 1 .. Len(left_output)
            BY <1>2
        <3> QED
            BY <3>1, <3>2
    <2> QED
        BY <2>1 DEF OutInv
<1>4. DOMAIN left_output = {}
    BY <1>2, <1>3
<1> QED
    BY <1>3, <1>4 DEF Emitted

LEMMA AllowedIsStable ==
    ASSUME UNCHANGED pathVars
    PROVE  \A k, A : Allowed(k, A)' <=> Allowed(k, A)
    BY DEF Allowed, MatchingLabels, Joined, Matches, Join!Permitted

\* Nothing is put out twice if nothing is put out.
LEMMA NothingTwice ==
    ASSUME OtherTypes, Len(left_output) = 0, UNCHANGED outVars
    PROVE  NoPairTwice /\ NoPairTwice'
<1>1. left_output \in Seq(Left)
    BY OutputTypes
<1>2. DOMAIN left_output = {}
    <2>1. DOMAIN left_output = 1 .. 0
        BY <1>1, LenProperties
    <2> QED
        BY <2>1
<1>3. DOMAIN left_output' = {}
    BY <1>2
<1> QED
    BY <1>2, <1>3 DEF NoPairTwice

\* A step that answers no row.
LEMMA QuietStep ==
    ASSUME Answers, UNCHANGED outVars, Answered' = Answered, pc' # "none",
           UNCHANGED pathVars \/ (OtherTypes /\ Answered = {})
    PROVE  Answers' /\ Steady
<1>1. \A i : Emitted(i)' = Emitted(i)
    BY DEF Emitted
<1>2. CASE UNCHANGED pathVars
    <2>1. OutInv'
        BY <1>2 DEF Answers, OutInv
    <2>2. ASSUME NEW k \in Answered PROVE \A i \in {left_order[k]} : Allowed(k, Emitted(i))'
        <3>1. Allowed(k, Emitted(left_order[k]))
            BY <2>2 DEF Answers, AnswersInv
        <3> QED
            BY <1>1, <1>2, <3>1, AllowedIsStable
    <2>3. AnswersInv'
        BY <1>2, <2>2 DEF AnswersInv
    <2>4. NoPairTwice'
        BY <1>2 DEF Answers, NoPairTwice
    <2> QED
        BY <1>1, <1>2, <2>1, <2>3, <2>4 DEF Answers, Steady
<1>3. CASE OtherTypes /\ Answered = {}
    <2>1. Len(left_output) = 0
        BY <1>3, NothingPutOut DEF Answers
    <2>2. OutInv'
        BY <1>3, <2>1 DEF Answers, OutInv
    <2>3. NoPairTwice'
        BY <1>3, <2>1, NothingTwice
    <2> QED
        BY <1>3, <2>2, <2>3 DEF Answers, AnswersInv, Steady
<1> QED
    BY <1>2, <1>3

\* A call that ends with None answers every row, with nothing.
LEMMA NoneStep ==
    ASSUME OtherTypes, Answers, Answered = {}, pc' = "none", UNCHANGED outVars, UNCHANGED pathVars,
           \A k \in Left : JoinedOf(k) = {}
    PROVE  Answers' /\ Steady
<1>1. Len(left_output) = 0 /\ \A i : Emitted(i) = {}
    BY NothingPutOut DEF Answers
<1>2. \A i : Emitted(i)' = {}
    BY <1>1 DEF Emitted
<1>3. OutInv'
    BY <1>1 DEF Answers, OutInv
<1>4. ASSUME NEW k \in Left PROVE Allowed(k, {})'
    BY NothingIsAllowed, AllowedIsStable
<1>5. Answered' = Left
    BY DEF Answered
<1>6. \A k \in Left : \A i \in {left_order[k]} : Allowed(k, Emitted(i))'
    BY <1>2, <1>4
<1>7. AnswersInv'
    BY <1>5, <1>6 DEF AnswersInv
<1>8. NoPairTwice'
    BY <1>1, NothingTwice
<1> QED
    BY <1>3, <1>7, <1>8 DEF Answers, Steady

\* The row that a pass has come to is put out, with these labels.
LEMMA RowStep ==
    ASSUME PathInv, Ordered, OtherTypes, Answers, NEW pass \in Answering, pc = pass, pc' = pass,
           row \in Left, row' = row + 1, UNCHANGED pathVars,
           NEW labels \in Seq(Values),
           left_output' = left_output \o [n \in 1 .. Len(labels) |-> left_order[row]],
           right_output' = right_output \o labels,
           Allowed(row, {labels[n] : n \in 1 .. Len(labels)}), OneByOne(labels)
    PROVE  Answers' /\ Steady
<1> DEFINE L == Len(left_output)
           N == Len(labels)
           new == [n \in 1 .. N |-> left_order[row]]
<1>1. left_output \in Seq(Left) /\ right_output \in Seq(Values) /\ L \in Nat /\ N \in Nat
    BY OutputTypes, LenProperties
<1>2. /\ Answered = {k \in Left : k < row}
      /\ Answered' = {k \in Left : k < row + 1}
    BY DEF Answered, Answering
<1>3. left_order \in [Left -> Left] /\ row \in Int
    BY OrderedTypes DEF Left
<1>4. new \in Seq(Left) /\ Len(new) = N
    <2>1. \A n \in 1 .. N : left_order[row] \in Left
        BY <1>3
    <2>2. new \in [1 .. N -> Left]
        BY <2>1
    <2>3. new \in Seq(Left)
        BY <1>1, <2>2, SeqDef
    <2>4. DOMAIN new = 1 .. N
        OBVIOUS
    <2> QED
        BY <1>1, <2>3, <2>4, LenProperties
<1>5. /\ Len(left_output') = L + N /\ Len(right_output') = L + N
      /\ DOMAIN left_output' = 1 .. L + N /\ DOMAIN left_output = 1 .. L
      /\ \A m \in 1 .. L : left_output'[m] = left_output[m] /\ right_output'[m] = right_output[m]
      /\ \A n \in 1 .. N : left_output'[L + n] = left_order[row] /\ right_output'[L + n] = labels[n]
    <2>1. Len(right_output) = L
        BY DEF Answers, OutInv
    <2>2. /\ left_output' \in Seq(Left) /\ Len(left_output') = L + N
          /\ \A m \in 1 .. L + N :
                left_output'[m] = IF m <= L THEN left_output[m] ELSE new[m - L]
        BY <1>1, <1>4, ConcatProperties
    <2>3. /\ right_output' \in Seq(Values) /\ Len(right_output') = L + N
          /\ \A m \in 1 .. L + N :
                right_output'[m] = IF m <= L THEN right_output[m] ELSE labels[m - L]
        <3>1. /\ right_output' \in Seq(Values) /\ Len(right_output') = Len(right_output) + Len(labels)
              /\ \A m \in 1 .. Len(right_output) + Len(labels) :
                    right_output'[m] = IF m <= Len(right_output) THEN right_output[m]
                                       ELSE labels[m - Len(right_output)]
            BY <1>1, ConcatProperties
        <3>2. Len(labels) = N
            OBVIOUS
        <3> HIDE DEF L, N, new
        <3> QED
            BY <2>1, <3>1, <3>2
    <2>4. DOMAIN left_output' = 1 .. L + N /\ DOMAIN left_output = 1 .. L
        BY <1>1, <2>2, LenProperties
    <2>5. \A m \in 1 .. L : m \in 1 .. L + N /\ m <= L
        BY <1>1
    <2>6. \A n \in 1 .. N : L + n \in 1 .. L + N /\ ~(L + n <= L) /\ (L + n) - L = n
        BY <1>1
    <2>7. \A n \in 1 .. N : new[n] = left_order[row]
        OBVIOUS
    <2> HIDE DEF L, N, new
    <2>8. \A m \in 1 .. L : left_output'[m] = left_output[m] /\ right_output'[m] = right_output[m]
        BY <2>2, <2>3, <2>5
    <2>9. \A n \in 1 .. N : left_output'[L + n] = new[n] /\ right_output'[L + n] = labels[n]
        BY <2>2, <2>3, <2>6
    <2> QED
        BY <2>2, <2>3, <2>4, <2>7, <2>8, <2>9
<1> HIDE DEF L, N, new
<1>6. \A m \in 1 .. L : \E k \in Left : k < row /\ left_output[m] = left_order[k]
    BY <1>2 DEF Answers, OutInv, L
<1>7. \A k \in Left : k < row => left_order[k] # left_order[row]
    <2>1. \A k \in Left : left_order[k] = left_order[row] => k = row
        BY DEF Ordered, Permutations
    <2> QED
        BY <1>3, <2>1
<1>8. \A m \in 1 .. L + N : m \in 1 .. L \/ \E n \in 1 .. N : m = L + n
    <2> SUFFICES ASSUME NEW m \in 1 .. L + N, m \notin 1 .. L PROVE \E n \in 1 .. N : m = L + n
        OBVIOUS
    <2>1. m - L \in 1 .. N /\ m = L + (m - L)
        BY <1>1
    <2> QED
        BY <2>1
<1>9. \A m \in 1 .. L : m \in 1 .. L + N
    BY <1>1
<1>10. \A n \in 1 .. N : L + n \in 1 .. L + N
    BY <1>1
<1>11. \A i \in {left_order[row]} : Emitted(i)' = {labels[n] : n \in 1 .. N}
    <2> SUFFICES ASSUME NEW i, i = left_order[row] PROVE Emitted(i)' = {labels[n] : n \in 1 .. N}
        OBVIOUS
    <2>1. \A m \in 1 .. L : left_output'[m] # i
        BY <1>5, <1>6, <1>7
    <2>2. \A m \in {m \in DOMAIN left_output' : left_output'[m] = i} : \E n \in 1 .. N : m = L + n
        BY <1>5, <1>8, <2>1
    <2>3. \A n \in 1 .. N : L + n \in {m \in DOMAIN left_output' : left_output'[m] = i}
        BY <1>5, <1>10
    <2>4. Emitted(i)' = {right_output'[m] : m \in {m \in DOMAIN left_output' : left_output'[m] = i}}
        BY DEF Emitted
    <2>5. ASSUME NEW x \in Emitted(i)' PROVE \E n \in 1 .. N : x = labels[n]
        <3>1. PICK m \in {m \in DOMAIN left_output' : left_output'[m] = i} : x = right_output'[m]
            BY <2>4, <2>5, Zenon
        <3>2. PICK n \in 1 .. N : m = L + n
            BY <2>2, Zenon
        <3>3. right_output'[L + n] = labels[n]
            BY <1>5, Zenon
        <3> QED
            BY <3>1, <3>2, <3>3, Zenon
    <2>6. \A n \in 1 .. N : labels[n] \in Emitted(i)'
        BY <1>5, <2>3, <2>4
    <2> QED
        BY <2>5, <2>6
<1>12. \A k \in Answered : \A i \in {left_order[k]} : Emitted(i)' = Emitted(i)
    <2> SUFFICES ASSUME NEW k \in Answered, NEW i, i = left_order[k] PROVE Emitted(i)' = Emitted(i)
        OBVIOUS
    <2>1. i # left_order[row]
        BY <1>2, <1>7
    <2> DEFINE D == {m \in 1 .. L : left_output[m] = i}
    <2>2. {m \in DOMAIN left_output' : left_output'[m] = i} = D
        <3>1. \A n \in 1 .. N : left_output'[L + n] # i
            BY <1>5, <2>1
        <3>2. ASSUME NEW m \in 1 .. L + N, left_output'[m] = i PROVE m \in D
            <4>1. m \in 1 .. L
                BY <1>8, <3>1, <3>2
            <4> QED
                BY <1>5, <3>2, <4>1
        <3>3. ASSUME NEW m \in D PROVE m \in 1 .. L + N /\ left_output'[m] = i
            BY <1>5, <1>9, <3>3
        <3> HIDE DEF D
        <3> QED
            BY <1>5, <3>2, <3>3
    <2>3. {m \in DOMAIN left_output : left_output[m] = i} = D
        BY <1>5
    <2>4. \A m \in D : right_output'[m] = right_output[m]
        BY <1>5
    <2> HIDE DEF D
    <2>5. {right_output'[m] : m \in D} = {right_output[m] : m \in D}
        BY <2>4
    <2> QED
        BY <2>2, <2>3, <2>5 DEF Emitted
<1>13. OutInv'
    <2>1. ASSUME NEW m \in 1 .. L + N
          PROVE  \E k \in Left : k < row + 1 /\ left_output'[m] = left_order[k]
        <3>1. CASE m \in 1 .. L
            <4>1. PICK k \in Left : k < row /\ left_output[m] = left_order[k]
                BY <1>6, <3>1
            <4>2. k < row + 1
                BY <1>3, <4>1 DEF Left
            <4> QED
                BY <1>5, <3>1, <4>1, <4>2
        <3>2. CASE \E n \in 1 .. N : m = L + n
            <4>1. row < row + 1
                BY <1>3
            <4> QED
                BY <1>5, <3>2, <4>1
        <3> QED
            BY <1>8, <3>1, <3>2
    <2>2. pc' # "none"
        BY DEF Answering
    <2> QED
        BY <1>2, <1>5, <2>1, <2>2 DEF OutInv
<1>14. AnswersInv'
    <2> SUFFICES ASSUME NEW k \in Answered' PROVE \A i \in {left_order[k]} : Allowed(k, Emitted(i))'
        BY DEF AnswersInv
    <2>1. CASE k \in Answered
        <3>1. Allowed(k, Emitted(left_order[k]))
            BY <2>1 DEF Answers, AnswersInv
        <3> QED
            BY <1>12, <2>1, <3>1, AllowedIsStable
    <2>2. CASE k = row
        BY <1>11, <2>2, AllowedIsStable DEF N
    <2>3. k \in Answered \/ k = row
        BY <1>2, <1>3 DEF Left
    <2> QED
        BY <2>1, <2>2, <2>3
<1>15. Answered \in SUBSET Answered'
    BY <1>2, <1>3 DEF Left
<1>16. NoPairTwice'
    <2> SUFFICES ASSUME DistinctRight,
                        NEW m \in 1 .. L + N, NEW n \in 1 .. L + N,
                        left_output'[m] = left_output'[n], right_output'[m] = right_output'[n]
                 PROVE  m = n
        BY <1>5 DEF NoPairTwice, DistinctRight
    <2>1. \A l \in 1 .. L : left_output'[l] # left_order[row]
        BY <1>5, <1>6, <1>7
    <2>2. CASE m \in 1 .. L /\ n \in 1 .. L
        <3>1. left_output[m] = left_output[n] /\ right_output[m] = right_output[n]
            BY <1>5, <2>2
        <3> QED
            BY <1>5, <2>2, <3>1 DEF Answers, NoPairTwice, DistinctRight
    <2>3. CASE \E a \in 1 .. N, b \in 1 .. N : m = L + a /\ n = L + b
        <3>1. PICK a \in 1 .. N, b \in 1 .. N : m = L + a /\ n = L + b
            BY <2>3
        <3>2. labels[a] = labels[b]
            <4>1. right_output'[L + a] = labels[a] /\ right_output'[L + b] = labels[b]
                BY <1>5
            <4> QED
                BY <3>1, <4>1
        <3>3. a = b
            BY <3>2 DEF OneByOne, N
        <3> QED
            BY <3>1, <3>3
    <2>4. \A c \in 1 .. N : left_output'[L + c] = left_order[row]
        BY <1>5
    <2> QED
        BY <1>8, <2>1, <2>2, <2>3, <2>4
<1> QED
    BY <1>12, <1>13, <1>14, <1>15, <1>16 DEF Answers, Steady

-----------------------------------------------------------------------------
\* How far the passes have got.

\* Which calls come to which passes.
PolicyInv ==
    /\ pc \in {"count", "count_ranks", "offsets", "emit", "emit_ranks", "translate"} =>
        call.keep = "all" /\ ~call.has_residuals
    /\ pc = "best" => call.keep \in {"first", "last"} /\ ~call.has_residuals
    /\ pc \in {"ask", "ask_again", "emit_selected"} => call.has_residuals
    /\ pc = "emit_selected" => call.keep = "any"
    /\ pc = "ask_again" => call.keep # "any"

\* The right positions copied for a row: all of them, or the first n.
CopiedFirst(k, n) == {positions[offsets[k] + m] : m \in 0 .. n - 1}
Copied(k) == CopiedFirst(k, left_match_counts[k])

\* keep="all".
CopyInv ==
    /\ pc \in {"emit", "emit_ranks"} => \A k \in Left : k < row => Copied(k) = Matched(k)
    /\ pc = "emit_ranks" =>
        CopiedFirst(row, Cardinality(Candidates(row, rank))) = Candidates(row, rank)
    /\ pc = "translate" => \A k \in Left : Copied(k) = Matched(k)

\* keep="first" and "last".
ExtremeInv ==
    pc = "best" => \A r \in Right : active_best[r] = Best(LabelsOf(OfRank(Open, r)))

\* The row selected for a row joins it, and is missing only if none does.
Picked(k) ==
    IF JoinedOf(k) = {} THEN selected[k] = None ELSE selected[k] \in JoinedOf(k)

\* Residual predicates, for every policy but all.
SelectInv ==
    call.has_residuals /\ call.keep # "all" =>
        /\ pc \in Unlaid => \A k \in Left : selected[k] = None
        /\ pc = "ask" =>
            \A k \in Left : IF k < row THEN Picked(k) ELSE selected[k] = None
        /\ pc = "emit_selected" => \A k \in Left : Picked(k)

LEMMA MatchedIsStable ==
    ASSUME UNCHANGED pathVars
    PROVE  /\ \A k : Matched(k)' = Matched(k) /\ JoinedOf(k)' = JoinedOf(k)
           /\ \A S : LabelsOf(S)' = LabelsOf(S)
    BY DEF Matched, JoinedOf, Joined, Matches, LabelsOf

-----------------------------------------------------------------------------
\* Policies.

LEMMA PolicyInit == Init => PolicyInv
    BY DEF Init, PolicyInv

LEMMA PolicyNext ==
    ASSUME PathInv, AnyInv, PolicyInv, [Next]_vars
    PROVE  PolicyInv'
<1>1. call' = call /\ call.keep \in Keeps
    <2>1. call \in Call
        BY CallsAssumption DEF PathInv
    <2> QED
        BY <2>1, Changes DEF Call
<1>2. CASE PathsNext \/ AnyNext
    <2>1. pc' \in {"second", "order", "starts", "any", "filter", "none", "emit_any", "done", "error"}
        BY <1>2 DEF PathsNext, BuildFirst, BuildSecond, OrderLeft, FindStarts, FirstPass,
            ReturnNone, AnyNext, CountAny, EndAny, EmitAny, FinishAny, Advance, Compare
    <2> QED
        BY <2>1 DEF PolicyInv
<1>3. CASE SkipInactive \/ UNCHANGED vars
    <2>1. pc' = pc
        BY <1>3 DEF SkipInactive
    <2> QED
        BY <1>1, <2>1 DEF PolicyInv
<1>4. CASE LayoutNext
    <2>1. CASE EndPlace
        <3>1. pc = "place" /\ ~AnyCall
            BY <2>1 DEF EndPlace, Swept, AnyInv, OtherPasses, Filtered
        <3>2. pc' \in {"error", "ask", "count", "best"}
            BY <2>1 DEF EndPlace
        <3>3. /\ pc' = "ask" => call.has_residuals
              /\ pc' = "count" => call.keep = "all" /\ ~call.has_residuals
              /\ pc' = "best" => call.keep # "all" /\ ~call.has_residuals
            BY <2>1 DEF EndPlace
        <3> QED
            BY <1>1, <3>1, <3>2, <3>3 DEF PolicyInv, AnyCall, Keeps
    <2>2. CASE ~EndPlace
        <3>1. pc' \in {"error", "filter", "none", "totals", "slices", "place"}
            BY <1>4, <2>2 DEF LayoutNext, FilterRow, EndFilter, TotalRow, EndTotals, OffsetRank,
                EndOffsets, PlaceRow, Sweeping, Swept, Advance
        <3> QED
            BY <3>1 DEF PolicyInv
    <2> QED
        BY <2>1, <2>2
<1>5. CASE AllNext
    <2> DEFINE passes == {"count", "count_ranks", "offsets", "emit", "emit_ranks", "translate"}
    <2>1. pc \in passes /\ pc' \in passes \union {"none", "done", "error"}
        BY <1>5 DEF AllNext, CountRow, CountRank, EndCountRanks, EndCount, OffsetRow, EndOffsetRows,
            EmitRow, EmitRank, EndEmitRanks, EndEmit, Translate, FinishAll, Sweeping, Swept, Advance
    <2> QED
        BY <1>1, <2>1 DEF PolicyInv
<1>6. CASE FirstLastNext
    <2>1. pc = "best" /\ pc' \in {"best", "done", "error"}
        BY <1>6 DEF FirstLastNext, EmitBest, FinishBest, Sweeping, Swept, Advance, Compare
    <2> QED
        BY <1>1, <2>1 DEF PolicyInv
<1>7. CASE EndAsk
    <2>1. /\ pc = "ask" /\ pc' \in {"none", "emit_selected", "ask_again"}
          /\ pc' = "emit_selected" => call.keep = "any"
          /\ pc' = "ask_again" => call.keep # "any"
        BY <1>7 DEF EndAsk, Swept
    <2> QED
        BY <1>1, <2>1 DEF PolicyInv
<1>8. CASE ResidualNext /\ ~EndAsk
    <2>1. pc \in {"ask", "ask_again", "emit_selected"} /\ pc' \in {pc, "done", "error"}
        BY <1>8 DEF ResidualNext, AskRow, EmitSelected, FinishSelected, AskAgainRow, FinishAsk,
            Sweeping, Swept, Advance, Compare
    <2> QED
        BY <1>1, <2>1 DEF PolicyInv
<1> QED
    BY <1>2, <1>3, <1>4, <1>5, <1>6, <1>7, <1>8 DEF Next

-----------------------------------------------------------------------------
\* Copies.

LEMMA CopyInit == Init => CopyInv
    BY DEF Init, CopyInv

\* The place of a row ends where or before that of a later row begins.
LEMMA PlacesAscend ==
    ASSUME SumInv, pc \in Copying, NEW i \in Left, NEW k \in Left, k < i
    PROVE  offsets[k] + left_match_counts[k] <= offsets[i]
<1>1. PICK f : /\ Sums(f, LeftLen, left_match_counts)
               /\ \A n \in Left : offsets[n] = f[n]
    BY DEF SumInv, Reserved
<1>2. k \in Nat /\ i \in Nat /\ i < LeftLen /\ k < LeftLen
    BY LengthsAssumption DEF Left
<1>3. f[k + 1] = f[k] + left_match_counts[k]
    BY <1>1, <1>2 DEF Sums, Left
<1>4. \A n \in 0 .. LeftLen : f[n] \in Nat
    BY <1>1 DEF Sums
<1> DEFINE Bad == {n \in Nat : k + 1 <= n /\ n <= LeftLen /\ f[n] < f[k + 1]}
<1>5. Bad = {}
    <2> SUFFICES ASSUME Bad # {} PROVE FALSE
        OBVIOUS
    <2>1. PICK m \in Bad : \A n \in Bad : m <= n
        BY LeastNatural
    <2>2. m \in Nat /\ k + 1 <= m /\ m <= LeftLen /\ f[m] < f[k + 1]
        OBVIOUS
    <2>3. m # k + 1
        BY <1>2, <1>4, <2>2, LengthsAssumption
    <2>4. m - 1 \in 0 .. LeftLen - 1 /\ k + 1 <= m - 1 /\ (m - 1) + 1 = m
        BY <1>2, <2>2, <2>3, LengthsAssumption
    <2>5. m - 1 \notin Bad
        BY <2>1, <2>2
    <2>6. f[k + 1] <= f[m - 1]
        BY <1>2, <1>4, <2>4, <2>5, LengthsAssumption
    <2>7. f[m] = f[m - 1] + left_match_counts[m - 1]
        BY <1>1, <2>4 DEF Sums
    <2>8. left_match_counts[m - 1] \in Nat
        BY <2>4 DEF SumInv, Left
    <2>9. f[m - 1] \in Nat /\ f[m] \in Nat /\ f[k + 1] \in Nat
        BY <1>2, <1>4, <2>2, <2>4, LengthsAssumption
    <2> HIDE DEF Bad
    <2> QED
        BY <2>2, <2>6, <2>7, <2>8, <2>9
<1>6. f[k + 1] <= f[i]
    <2>1. i \notin Bad
        BY <1>5
    <2>2. k + 1 <= i /\ i <= LeftLen
        BY <1>2, LengthsAssumption
    <2> QED
        BY <1>2, <1>4, <2>1, <2>2, LengthsAssumption
<1> QED
    BY <1>1, <1>3, <1>6

LEMMA CandidatesNext ==
    ASSUME PathInv, Ordered, NEW i \in Left, NEW n \in RankFrom(i) .. RankCount
    PROVE  Candidates(i, n + 1) = Candidates(i, n) \union OfRank(OpenBy(i + 1), n)
<1>1. RankFrom(i) \in Int /\ n \in Int /\ RankFrom(i) <= n
    BY FromTypes
<1>2. \A j \in OpenBy(i + 1) : Rank(j) \in Int
    BY RankTypes DEF OpenBy
<1>3. \A j \in OpenBy(i + 1) :
        RankFrom(i) <= Rank(j) /\ Rank(j) < n + 1
            <=> (RankFrom(i) <= Rank(j) /\ Rank(j) < n) \/ Rank(j) = n
    BY <1>1, <1>2
<1> QED
    BY <1>3 DEF Candidates, OfRank

\* A row without pairs has no candidates and no matches.
LEMMA NoPairs ==
    ASSUME PathInv, FilterInv, CountInv, pc \in Reserved, NEW i \in Left, left_match_counts[i] = 0
    PROVE  Copied(i) = {} /\ Matched(i) = {}
<1>1. pc \in Filtered
    BY DEF Reserved, Copying, Filtered
<1>2. CountOf(i) = 0
    BY DEF CountInv
<1>3. Cardinality(Candidates(i, RankCount)) = 0 => Candidates(i, RankCount) = {}
    BY CandidatesFinite, FS_EmptySet
<1>4. Matched(i) = {}
    BY <1>1, <1>2, <1>3, FlaggedCandidates DEF CountOf
<1> QED
    BY <1>4 DEF Copied, CopiedFirst

LEMMA EmitRowBegins ==
    ASSUME PathInv, SweepInv, FilterInv, CountInv, SumInv, CopyInv, EmitRow
    PROVE  CopyInv'
<1>1. /\ pc = "emit" /\ row < LeftLen /\ ~Inactive /\ UNCHANGED pathVars
      /\ UNCHANGED <<left_has_match, left_match_counts, offsets, positions>>
    BY DEF EmitRow, Sweeping
<1>2. row \in Left /\ Ordered
    BY <1>1, OpeningKeepsOrder DEF Sweeps, PathInv, Preparing
<1>3. \A k : Copied(k)' = Copied(k) /\ Matched(k)' = Matched(k)
    BY <1>1, MatchedIsStable DEF Copied, CopiedFirst
<1>4. \A k \in Left : k < row => Copied(k) = Matched(k)
    BY <1>1 DEF CopyInv
<1>5. CASE left_match_counts[row] = 0
    <2>1. pc' = "emit" /\ row' = row + 1
        BY <1>1, <1>5, AdvanceKeepsSweep DEF EmitRow, Sweeps, Scanning
    <2>2. Copied(row) = {} /\ Matched(row) = {}
        BY <1>1, <1>2, <1>5, NoPairs DEF Reserved, Copying
    <2>3. \A k \in Left : k < row + 1 => k < row \/ k = row
        BY <1>2 DEF Left
    <2>4. \A k \in Left : k < row' => Copied(k)' = Matched(k)'
        BY <1>3, <1>4, <2>1, <2>2, <2>3
    <2> QED
        BY <2>1, <2>4 DEF CopyInv
<1>6. CASE left_match_counts[row] # 0
    <2>1. row' = row /\ rank' = FirstRank
        BY <1>6 DEF EmitRow
    <2>2. pc' = "emit_ranks"
        BY <1>1, <1>6, AdvanceKeepsSweep DEF EmitRow, Sweeps, Scanning
    <2>3. rank' = RankFrom(row) /\ Cardinality(Candidates(row, RankFrom(row))) = 0
        BY <1>2, <2>1, CandidatesGrow DEF FirstRank, RankFrom
    <2>4. Candidates(row, rank)' = Candidates(row, RankFrom(row))
        BY <1>1, <2>1, <2>3, CountIsStable DEF Candidates
    <2>5. Candidates(row, rank)' = {} /\ Cardinality(Candidates(row, rank)') = 0
        BY <2>3, <2>4, CandidatesFinite, FS_EmptySet
    <2>6. CopiedFirst(row, Cardinality(Candidates(row, rank)))' = {}
        BY <2>5 DEF CopiedFirst
    <2>7. \A k \in Left : k < row' => Copied(k)' = Matched(k)'
        BY <1>3, <1>4, <2>1
    <2> QED
        BY <2>2, <2>5, <2>6, <2>7 DEF CopyInv
<1> QED
    BY <1>5, <1>6

LEMMA EmitRankExtends ==
    ASSUME PathInv, SweepInv, OpenInv, LayoutInv, CountInv, SumInv, PositionsInv, CopyInv, EmitRank
    PROVE  CopyInv'
<1> DEFINE o == offsets[row]
           c == Cardinality(Candidates(row, rank))
           a == active_counts[rank]
           lo == layout_offsets[rank]
<1>1. /\ pc = "emit_ranks" /\ pc' = pc /\ row' = row /\ rank' = rank + 1 /\ rank < RankCount
      /\ UNCHANGED pathVars /\ UNCHANGED <<left_has_match, left_match_counts, offsets>>
      /\ positions' =
            [p \in DOMAIN positions |->
                IF p \in output_position .. output_position + active_counts[rank] - 1
                THEN layout_positions[layout_offsets[rank] + p - output_position]
                ELSE positions[p]]
    BY DEF EmitRank
<1>2. row \in Left /\ Ordered
    BY <1>1, LengthsAssumption DEF SweepInv, Left, PathInv, Preparing
<1>3. /\ rank \in RankFrom(row) .. RankCount /\ output_position = o + c
      /\ left_match_counts[row] # 0 /\ left_match_counts[row] = CountOf(row)
    BY <1>1, <1>2 DEF CountInv, Reserved, Copying
<1>4. RankFrom(row) \in Int /\ RankCount \in Int /\ rank \in RankFrom(row) .. RankCount - 1
    BY <1>1, <1>2, <1>3, FromTypes
<1>5. /\ rank \in 0 .. RankCount - 1 /\ rank \in Right
      /\ a = Cardinality(OfRank(OpenBy(row + 1), rank))
      /\ Cardinality(Candidates(row, rank + 1)) = c + a
    BY <1>1, <1>4, ActiveOfRank DEF InRanks
<1>6. row + 1 \in 0 .. LeftLen /\ Placed(LeftLen) /\ layout_offsets \in [Right -> Nat]
    BY <1>1, <1>2, LengthsAssumption DEF Left, LayoutInv
<1>7. Prefix(rank, a) = OfRank(OpenBy(row + 1), rank)
    BY <1>5, <1>6 DEF Placed
<1>8. o \in Nat /\ c \in Nat /\ a \in Nat /\ lo \in Nat
    <2>1. a \in Nat
        BY <1>5, OpenTypes, OfRankFinite
    <2> QED
        BY <1>2, <1>5, <1>6, <2>1, CandidatesFinite, LengthsAssumption DEF SumInv
<1>9. c + a <= left_match_counts[row]
    <2>1. Candidates(row, rank + 1) \in SUBSET Candidates(row, RankCount)
        <3>1. \A j \in OpenBy(row + 1) : Rank(j) \in Int
            BY <1>2, RankTypes DEF OpenBy
        <3>2. \A j \in OpenBy(row + 1) : Rank(j) < rank + 1 => Rank(j) < RankCount
            BY <1>4, <3>1
        <3> QED
            BY <3>2 DEF Candidates
    <2>2. Cardinality(Candidates(row, rank + 1)) <= Cardinality(Candidates(row, RankCount))
        BY <2>1, CandidatesFinite, FS_Subset
    <2>3. left_match_counts[row] = Cardinality(Candidates(row, RankCount))
        BY <1>3 DEF CountOf
    <2> QED
        BY <1>5, <2>2, <2>3
<1>10. positions \in [0 .. total_size - 1 -> Right]
    BY <1>1 DEF PositionsInv, Copying
<1>11. \A i \in Left : left_match_counts[i] \in Nat /\ offsets[i] \in Nat
    BY DEF SumInv
<1>12. \A i \in Left : \A m \in 0 .. left_match_counts[i] - 1 : offsets[i] + m \in DOMAIN positions
    <2> SUFFICES ASSUME NEW i \in Left, NEW m \in 0 .. left_match_counts[i] - 1
                 PROVE  offsets[i] + m \in 0 .. total_size - 1
        BY <1>10
    <2>1. m + 1 \in 1 .. left_match_counts[i] /\ (m + 1) - 1 = m
        BY <1>11
    <2>2. offsets[i] + (m + 1) - 1 \in 0 .. total_size - 1
        BY <1>1, <2>1, PlacesFit DEF Copying
    <2> QED
        BY <2>1, <2>2
<1> HIDE DEF o, c, a, lo
<1>13. \A p \in DOMAIN positions :
        positions'[p] = IF p \in o + c .. (o + c) + (a - 1) THEN layout_positions[lo + (p - (o + c))]
                        ELSE positions[p]
    BY <1>1, <1>3 DEF a, lo
<1>14. ASSUME NEW k \in Left, k < row
       PROVE  Copied(k)' = Matched(k)'
    <2>1. offsets[k] + left_match_counts[k] <= o
        BY <1>1, <1>2, <1>14, PlacesAscend DEF Copying, o
    <2>2. \A m \in 0 .. left_match_counts[k] - 1 :
            offsets[k] + m \notin o + c .. (o + c) + (a - 1)
        BY <1>8, <1>11, <2>1
    <2>3. \A m \in 0 .. left_match_counts[k] - 1 : positions'[offsets[k] + m] = positions[offsets[k] + m]
        BY <1>12, <1>13, <2>2
    <2>4. Copied(k)' = Copied(k)
        <3>1. Copied(k)' = {positions'[offsets[k] + m] : m \in 0 .. left_match_counts[k] - 1}
            BY <1>1 DEF Copied, CopiedFirst
        <3> QED
            BY <2>3, <3>1 DEF Copied, CopiedFirst
    <2>5. Copied(k) = Matched(k)
        BY <1>1, <1>14 DEF CopyInv
    <2> QED
        BY <1>1, <2>4, <2>5, MatchedIsStable
<1>15. \A m \in 0 .. c - 1 : positions'[o + m] = positions[o + m]
    <2> SUFFICES ASSUME NEW m \in 0 .. c - 1 PROVE positions'[o + m] = positions[o + m]
        OBVIOUS
    <2>1. m \in 0 .. left_match_counts[row] - 1 /\ o + m \notin o + c .. (o + c) + (a - 1)
        BY <1>2, <1>8, <1>9, <1>11
    <2>2. o + m \in DOMAIN positions
        BY <1>2, <1>12, <2>1 DEF o
    <2> QED
        BY <1>13, <2>1, <2>2
<1>16. \A m \in 0 .. a - 1 : positions'[o + (c + m)] = layout_positions[lo + m]
    <2> SUFFICES ASSUME NEW m \in 0 .. a - 1 PROVE positions'[o + (c + m)] = layout_positions[lo + m]
        OBVIOUS
    <2>1. /\ c + m \in 0 .. left_match_counts[row] - 1
          /\ o + (c + m) \in o + c .. (o + c) + (a - 1)
          /\ (o + (c + m)) - (o + c) = m
        BY <1>2, <1>8, <1>9, <1>11
    <2>2. o + (c + m) \in DOMAIN positions
        BY <1>2, <1>12, <2>1 DEF o
    <2> QED
        BY <1>13, <2>1, <2>2
<1>17. {positions'[o + m] : m \in 0 .. c + a - 1} = Candidates(row, rank) \union OfRank(OpenBy(row + 1), rank)
    <2>1. {positions[o + m] : m \in 0 .. c - 1} = Candidates(row, rank)
        BY <1>1 DEF CopyInv, CopiedFirst, o, c
    <2>2. {layout_positions[lo + m] : m \in 0 .. a - 1} = OfRank(OpenBy(row + 1), rank)
        BY <1>7 DEF Prefix, lo
    <2>3. ASSUME NEW m \in 0 .. c + a - 1
          PROVE  positions'[o + m] \in Candidates(row, rank) \union OfRank(OpenBy(row + 1), rank)
        <3>1. CASE m < c
            <4>1. m \in 0 .. c - 1
                BY <1>8, <3>1
            <4> QED
                BY <1>15, <2>1, <4>1
        <3>2. CASE ~(m < c)
            <4>1. m - c \in 0 .. a - 1 /\ c + (m - c) = m
                BY <1>8, <3>2
            <4>2. positions'[o + m] = layout_positions[lo + (m - c)]
                BY <1>16, <4>1
            <4> QED
                BY <2>2, <4>1, <4>2
        <3> QED
            BY <3>1, <3>2
    <2>4. ASSUME NEW j \in Candidates(row, rank) PROVE \E m \in 0 .. c + a - 1 : j = positions'[o + m]
        <3>1. PICK m \in 0 .. c - 1 : j = positions[o + m]
            BY <2>1, <2>4
        <3>2. m \in 0 .. c + a - 1
            BY <1>8, <3>1
        <3> QED
            BY <1>15, <3>1, <3>2
    <2>5. ASSUME NEW j \in OfRank(OpenBy(row + 1), rank)
          PROVE  \E m \in 0 .. c + a - 1 : j = positions'[o + m]
        <3>1. PICK m \in 0 .. a - 1 : j = layout_positions[lo + m]
            BY <2>2, <2>5
        <3>2. c + m \in 0 .. c + a - 1
            BY <1>8, <3>1
        <3> QED
            BY <1>16, <3>1, <3>2
    <2> QED
        BY <2>3, <2>4, <2>5
<1>18. Candidates(row, rank)' = Candidates(row, rank + 1)
    BY <1>1, CountIsStable DEF Candidates
<1>19. Candidates(row, rank + 1) = Candidates(row, rank) \union OfRank(OpenBy(row + 1), rank)
    BY <1>2, <1>3, CandidatesNext
<1>20. CopiedFirst(row, Cardinality(Candidates(row, rank)))' = Candidates(row, rank)'
    <2>1. Cardinality(Candidates(row, rank)') - 1 = c + a - 1
        BY <1>5, <1>8, <1>18
    <2>2. CopiedFirst(row, Cardinality(Candidates(row, rank)))'
            = {positions'[o + m] : m \in 0 .. Cardinality(Candidates(row, rank)') - 1}
        BY <1>1 DEF CopiedFirst, o
    <2> QED
        BY <1>17, <1>18, <1>19, <2>1, <2>2
<1>21. \A k \in Left : k < row' => Copied(k)' = Matched(k)'
    BY <1>1, <1>14
<1> QED
    BY <1>1, <1>20, <1>21 DEF CopyInv

\* What is copied for a row is complete when its ranks are through.
LEMMA EndEmitRanksCompletes ==
    ASSUME PathInv, SweepInv, FilterInv, CountInv, CopyInv, EndEmitRanks
    PROVE  CopyInv'
<1>1. /\ pc = "emit_ranks" /\ rank = RankCount /\ row' = row + 1 /\ UNCHANGED pathVars
      /\ UNCHANGED <<positions, offsets, left_match_counts>>
    BY DEF EndEmitRanks
<1>2. row \in Left
    BY <1>1, LengthsAssumption DEF SweepInv, Left
<1>3. pc' = "emit"
    BY EmitRanksAgree
<1>4. left_match_counts[row] # 0 /\ left_match_counts[row] = CountOf(row)
    BY <1>1, <1>2 DEF CountInv, Reserved, Copying
<1>5. /\ left_match_counts[row] = Cardinality(Candidates(row, RankCount))
      /\ Candidates(row, RankCount) = Matched(row)
    <2>1. pc \in Filtered
        BY <1>1 DEF Filtered
    <2> QED
        BY <1>2, <1>4, <2>1, FlaggedCandidates DEF CountOf
<1>6. Copied(row) = Matched(row)
    BY <1>1, <1>5 DEF CopyInv, Copied
<1>7. \A k \in Left : k < row + 1 => k < row \/ k = row
    BY <1>2 DEF Left
<1>8. \A k \in Left : k < row => Copied(k) = Matched(k)
    BY <1>1 DEF CopyInv
<1>9. \A k : Copied(k)' = Copied(k) /\ Matched(k)' = Matched(k)
    BY <1>1, MatchedIsStable DEF Copied, CopiedFirst
<1>10. \A k \in Left : k < row' => Copied(k)' = Matched(k)'
    BY <1>1, <1>6, <1>7, <1>8, <1>9
<1> QED
    BY <1>3, <1>10 DEF CopyInv

LEMMA CopyNext ==
    ASSUME PathInv, SweepInv, OpenInv, LayoutInv, FilterInv, CountInv, AskInv, SumInv, PositionsInv,
           CopyInv, [Next]_vars
    PROVE  CopyInv'
<1>1. CASE SkipInactive
    <2>1. /\ row \in Left /\ row' = row + 1 /\ pc' = pc /\ pc \in Sweeps /\ ~Reaches(row)
          /\ UNCHANGED pathVars /\ UNCHANGED <<positions, offsets, left_match_counts>>
        BY <1>1, SkippedRow DEF SkipInactive
    <2>2. CASE pc = "emit"
        <3>1. left_match_counts[row] = 0
            BY <1>1, <2>2, SkippedHasNoPairs
        <3>2. Copied(row) = Matched(row)
            BY <2>1, <2>2, <3>1, NoPairs DEF Reserved, Copying
        <3>3. \A k \in Left : k < row + 1 => k < row \/ k = row
            BY <2>1 DEF Left
        <3>4. \A k : Copied(k)' = Copied(k) /\ Matched(k)' = Matched(k)
            BY <2>1, MatchedIsStable DEF Copied, CopiedFirst
        <3>5. \A k \in Left : k < row => Copied(k) = Matched(k)
            BY <2>2 DEF CopyInv
        <3>6. \A k \in Left : k < row' => Copied(k)' = Matched(k)'
            BY <2>1, <3>2, <3>3, <3>4, <3>5
        <3> QED
            BY <2>1, <2>2, <3>6 DEF CopyInv
    <2>3. CASE pc # "emit"
        BY <2>1, <2>3 DEF CopyInv, Sweeps
    <2> QED
        BY <2>2, <2>3
<1>2. CASE EndOffsetRows
    <2>1. pc' = "emit" /\ row' = 0
        BY <1>2 DEF EndOffsetRows, Rewind
    <2>2. \A k \in Left : ~(k < 0)
        BY DEF Left
    <2> QED
        BY <2>1, <2>2 DEF CopyInv
<1>3. CASE EndEmit \/ Translate
    <2>1. /\ (pc = "emit" /\ row = LeftLen) \/ pc = "translate"
          /\ pc' = "translate" /\ UNCHANGED pathVars
          /\ UNCHANGED <<positions, offsets, left_match_counts>>
        BY <1>3 DEF EndEmit, Translate, Swept
    <2>2. \A k \in Left : Copied(k) = Matched(k)
        <3>1. \A k \in Left : k < LeftLen
            BY LengthsAssumption DEF Left
        <3> QED
            BY <2>1, <3>1 DEF CopyInv
    <2>3. \A k : Copied(k)' = Copied(k) /\ Matched(k)' = Matched(k)
        BY <2>1, MatchedIsStable DEF Copied, CopiedFirst
    <2> QED
        BY <2>1, <2>2, <2>3 DEF CopyInv
<1>4. CASE PathsNext \/ AnyNext \/ LayoutNext
    <2>1. pc' \notin Copying
        BY <1>4 DEF PathsNext, BuildFirst, BuildSecond, OrderLeft, FindStarts, FirstPass,
            ReturnNone, AnyNext, CountAny, EndAny, EmitAny, FinishAny, LayoutNext, FilterRow,
            EndFilter, TotalRow, EndTotals, OffsetRank, EndOffsets, PlaceRow, EndPlace,
            Sweeping, Swept, Advance, Compare, Copying
    <2> QED
        BY <2>1 DEF CopyInv, Copying
<1>5. CASE \/ CountRow \/ CountRank \/ EndCountRanks \/ EndCount \/ OffsetRow \/ FinishAll
           \/ FirstLastNext \/ ResidualNext
    <2>1. pc' \notin Copying
        BY <1>5 DEF CountRow, CountRank, EndCountRanks, EndCount, OffsetRow, FinishAll,
            FirstLastNext, EmitBest, FinishBest, ResidualNext, AskRow, EndAsk, EmitSelected,
            FinishSelected, AskAgainRow, FinishAsk, Sweeping, Swept, Advance, Compare, Copying
    <2> QED
        BY <2>1 DEF CopyInv, Copying
<1>6. CASE UNCHANGED vars
    <2>1. \A k : Copied(k)' = Copied(k) /\ Matched(k)' = Matched(k)
        BY <1>6, MatchedIsStable DEF Copied, CopiedFirst
    <2>2. Candidates(row, rank)' = Candidates(row, rank)
        BY <1>6, CountIsStable DEF Candidates
    <2>3. CopiedFirst(row, Cardinality(Candidates(row, rank)))'
            = CopiedFirst(row, Cardinality(Candidates(row, rank)))
        BY <1>6, <2>2 DEF CopiedFirst
    <2> QED
        BY <1>6, <2>1, <2>2, <2>3 DEF CopyInv
<1> QED
    BY <1>1, <1>2, <1>3, <1>4, <1>5, <1>6, EmitRowBegins, EmitRankExtends, EndEmitRanksCompletes
        DEF Next, AllNext

-----------------------------------------------------------------------------
\* Extremes.

LEMMA ExtremeInit == Init => ExtremeInv
    BY DEF Init, ExtremeInv

\* The extremes kept when a row's window is open, and the row's own.
LEMMA ExtremesAreUpdated ==
    ASSUME PathInv, SweepInv, OpenInv, FilterInv, BestInv, ExtremeInv,
           pc = "best", row < LeftLen, ~Inactive
    PROVE  /\ \A r \in Right : Updated[r] = Best(LabelsOf(OfRank(OpenBy(row + 1), r)))
           /\ SuffixBest(Updated) = Best(LabelsOf(Candidates(row, RankCount)))
<1>1. /\ Opened \in SUBSET Right /\ Open \in SUBSET Right
      /\ OpenBy(row + 1) = Open \union Opened
    BY OpeningAdds DEF Sweeps
<1>2. row \in Left /\ Ordered
    BY OpeningKeepsOrder DEF Sweeps, PathInv, Preparing
<1>3. \A S \in SUBSET Right : LabelsOf(S) \in SUBSET Values
    BY DEF LabelsOf, Values
<1>4. ASSUME NEW r \in Right
      PROVE  Updated[r] = Best(LabelsOf(OfRank(OpenBy(row + 1), r)))
    <2> DEFINE old == LabelsOf(OfRank(Open, r))
               new == LabelsOf(OfRank(Opened, r))
    <2>1. active_best[r] = Best(old)
        BY DEF ExtremeInv
    <2>2. Updated[r] = Best(({active_best[r]} \ {None}) \union new)
        BY DEF Updated, LabelsOf
    <2>3. old \in SUBSET Values /\ new \in SUBSET Values
        BY <1>1, <1>3 DEF OfRank
    <2>4. LabelsOf(OfRank(OpenBy(row + 1), r)) = old \union new
        <3>1. OfRank(OpenBy(row + 1), r) = OfRank(Open, r) \union OfRank(Opened, r)
            BY <1>1 DEF OfRank
        <3> QED
            BY <3>1 DEF LabelsOf
    <2> HIDE DEF old, new
    <2> QED
        BY <2>1, <2>2, <2>3, <2>4, BestOfUnion
<1> DEFINE ranks == RankFrom(row) .. RankCount - 1
           open(r) == LabelsOf(OfRank(OpenBy(row + 1), r))
           all == {open(r) : r \in ranks}
<1>5. ranks \in SUBSET Right
    <2>1. RankFrom(row) \in 0 .. RankCount /\ RankCount \in 0 .. RightLen
        BY <1>2, FromTypes
    <2> QED
        BY <2>1, LengthsAssumption DEF Right
<1>6. SuffixBest(Updated) = Best({Updated[r] : r \in ranks} \ {None})
    BY DEF SuffixBest, FirstRank, RankFrom
<1>7. {Updated[r] : r \in ranks} = {Best(S) : S \in all}
    <2>1. \A r \in ranks : Updated[r] = Best(open(r))
        BY <1>4, <1>5
    <2> HIDE DEF ranks, open
    <2> QED
        BY <2>1
<1>8. all \in SUBSET (SUBSET Values)
    <2>1. \A r : open(r) \in SUBSET Values
        BY <1>1, <1>3 DEF OfRank
    <2> HIDE DEF open
    <2> QED
        BY <2>1
<1>9. LabelsOf(Candidates(row, RankCount)) = UNION all
    <2>1. RankFrom(row) \in Int /\ RankCount \in Int
        BY <1>2, FromTypes
    <2>2. \A j \in OpenBy(row + 1) : Rank(j) \in Int
        BY <1>2, RankTypes DEF OpenBy
    <2>3. \A j \in OpenBy(row + 1) :
            RankFrom(row) <= Rank(j) /\ Rank(j) < RankCount <=> Rank(j) \in ranks
        BY <2>1, <2>2
    <2> HIDE DEF ranks
    <2>4. \A j : j \in Candidates(row, RankCount) <=> \E r \in ranks : j \in OfRank(OpenBy(row + 1), r)
        BY <2>3 DEF Candidates, OfRank
    <2>5. ASSUME NEW x \in LabelsOf(Candidates(row, RankCount))
          PROVE  \E r \in ranks : x \in open(r)
        <3>1. PICK j \in Candidates(row, RankCount) : x = call.right_index[j]
            BY <2>5 DEF LabelsOf
        <3>2. PICK r \in ranks : j \in OfRank(OpenBy(row + 1), r)
            BY <2>4, <3>1
        <3> QED
            BY <3>1, <3>2 DEF LabelsOf
    <2>6. ASSUME NEW r \in ranks, NEW x \in open(r)
          PROVE  x \in LabelsOf(Candidates(row, RankCount))
        <3>1. PICK j \in OfRank(OpenBy(row + 1), r) : x = call.right_index[j]
            BY <2>6 DEF LabelsOf
        <3> QED
            BY <2>4, <2>6, <3>1 DEF LabelsOf
    <2> HIDE DEF open
    <2> QED
        BY <2>5, <2>6
<1> HIDE DEF ranks, all
<1>10. Best({Best(S) : S \in all} \ {None}) = Best(UNION all)
    BY <1>8, BestOfBests
<1> QED
    BY <1>4, <1>6, <1>7, <1>9, <1>10

LEMMA ExtremeNext ==
    ASSUME PathInv, SweepInv, OpenInv, FilterInv, BestInv, ExtremeInv, [Next]_vars
    PROVE  ExtremeInv'
<1>1. CASE EmitBest
    <2>1. /\ pc = "best" /\ row < LeftLen /\ ~Inactive /\ active_best' = Updated
          /\ UNCHANGED pathVars /\ previous_end' = starts[row] /\ call' = call
        BY <1>1 DEF EmitBest, Sweeping, Advance
    <2>2. Open' = OpenBy(row + 1)
        BY <2>1, OpeningAdds DEF Open, Sweeps
    <2>3. \A r : OfRank(Open, r)' = OfRank(OpenBy(row + 1), r)
        BY <2>1, <2>2, OpenIsStable DEF OfRank
    <2>4. \A r : LabelsOf(OfRank(Open, r))' = LabelsOf(OfRank(OpenBy(row + 1), r))
        BY <2>1, <2>3 DEF LabelsOf
    <2>5. \A S : Best(S)' = Best(S)
        BY <2>1 DEF Best
    <2>6. \A r \in Right : Updated[r] = Best(LabelsOf(OfRank(OpenBy(row + 1), r)))
        BY <2>1, ExtremesAreUpdated
    <2>7. \A r \in Right : active_best'[r] = Best(LabelsOf(OfRank(Open, r)))'
        BY <2>1, <2>4, <2>5, <2>6 DEF Best
    <2> QED
        BY <2>7 DEF ExtremeInv
<1>2. CASE EndPlace
    <2>1. pc = "place" /\ Rewind /\ active_best' = active_best /\ UNCHANGED pathVars
        BY <1>2 DEF EndPlace, Swept
    <2>2. active_best = [r \in Right |-> None]
        BY <2>1 DEF BestInv, Unlaid
    <2>3. Open' = {}
        BY <2>1, NothingOpen DEF Rewind, Open
    <2>4. \A r : LabelsOf(OfRank(Open, r))' = {}
        BY <2>3 DEF LabelsOf, OfRank
    <2>5. \A r \in Right : active_best'[r] = Best(LabelsOf(OfRank(Open, r)))'
        BY <2>1, <2>2, <2>4 DEF Best
    <2> QED
        BY <2>5 DEF ExtremeInv
<1>3. CASE SkipInactive \/ FinishBest \/ UNCHANGED vars
    <2>1. /\ pc' \in {pc, "done", "error"} /\ UNCHANGED pathVars
          /\ UNCHANGED <<previous_end, active_best>>
        BY <1>3 DEF SkipInactive, FinishBest, Compare
    <2>2. Open' = Open
        BY <2>1 DEF Open
    <2>3. \A r : OfRank(Open, r)' = OfRank(Open, r)
        BY <2>1, <2>2, OpenIsStable DEF OfRank
    <2>4. \A r : LabelsOf(OfRank(Open, r))' = LabelsOf(OfRank(Open, r))
        BY <2>1, <2>3 DEF LabelsOf
    <2>5. ASSUME pc = "best" PROVE \A r \in Right : active_best'[r] = Best(LabelsOf(OfRank(Open, r)))'
        <3>1. \A r \in Right : active_best'[r] = Best(LabelsOf(OfRank(Open, r)))
            BY <2>1, <2>5 DEF ExtremeInv
        <3> QED
            BY <2>1, <2>4, <3>1 DEF Best
    <2> QED
        BY <2>1, <2>5 DEF ExtremeInv
<1>4. CASE PathsNext \/ AnyNext
    <2>1. pc' \in {"second", "order", "starts", "any", "filter", "none", "emit_any", "done", "error"}
        BY <1>4 DEF PathsNext, BuildFirst, BuildSecond, OrderLeft, FindStarts, FirstPass,
            ReturnNone, AnyNext, CountAny, EndAny, EmitAny, FinishAny, Advance, Compare
    <2> QED
        BY <2>1 DEF ExtremeInv
<1>5. CASE LayoutNext /\ ~EndPlace
    <2>1. pc' \in {"error", "filter", "none", "totals", "slices", "place"}
        BY <1>5 DEF LayoutNext, FilterRow, EndFilter, TotalRow, EndTotals, OffsetRank,
            EndOffsets, PlaceRow, EndPlace, Sweeping, Swept, Advance
    <2> QED
        BY <2>1 DEF ExtremeInv
<1>6. CASE AllNext \/ ResidualNext
    <2>1. pc' # "best"
        BY <1>6 DEF AllNext, CountRow, CountRank, EndCountRanks, EndCount, OffsetRow, EndOffsetRows,
            EmitRow, EmitRank, EndEmitRanks, EndEmit, Translate, FinishAll, Sweeping, Swept, Advance,
            ResidualNext, AskRow, EndAsk, EmitSelected, FinishSelected, AskAgainRow, FinishAsk, Compare
    <2> QED
        BY <2>1 DEF ExtremeInv
<1> QED
    BY <1>1, <1>2, <1>3, <1>4, <1>5, <1>6 DEF Next, FirstLastNext

-----------------------------------------------------------------------------
\* Selections.

LEMMA SelectInit == Init => SelectInv
    BY DEF Init, SelectInv

\* A row that matches nothing joins nothing.
LEMMA NoMatchNoJoin ==
    ASSUME NEW k \in Left, ~Reaches(k)
    PROVE  Matched(k) = {} /\ JoinedOf(k) = {}
    BY DEF Reaches, Matched, JoinedOf, Joined

LEMMA PickedIsStable ==
    ASSUME UNCHANGED pathVars, NEW k, selected'[k] = selected[k]
    PROVE  Picked(k)' <=> Picked(k)
    BY MatchedIsStable DEF Picked

LEMMA SelectNext ==
    ASSUME PathInv, SweepInv, OpenInv, LayoutInv, FilterInv, AnyInv, OtherTypes, PolicyInv, SelectInv,
           [Next]_vars
    PROVE  SelectInv'
<1>1. call' = call
    BY Changes
<1>2. SUFFICES ASSUME call.has_residuals, call.keep # "all" PROVE SelectInv'
    BY <1>1 DEF SelectInv
<1>3. selected \in [Left -> Right \union {None}]
    BY DEF OtherTypes, SweepTypeOK
<1>4. CASE AskRow
    <2>1. /\ pc = "ask" /\ pc' = "ask" /\ row \in Left /\ row' = row + 1 /\ UNCHANGED pathVars
          /\ \/ FoundOf(row) = {} /\ UNCHANGED selected
             \/ \E s \in FoundOf(row) : selected' = [selected EXCEPT ![row] = layout_positions[s]]
        BY <1>2, <1>4, AskRowFinds
    <2>2. \A k \in Left : IF k < row THEN Picked(k) ELSE selected[k] = None
        BY <1>2, <2>1 DEF SelectInv
    <2>3. /\ FoundOf(row) = {} <=> JoinedOf(row) = {}
          /\ \A s \in FoundOf(row) : layout_positions[s] \in JoinedOf(row)
        BY <1>2, <2>1, FoundIsJoined
    <2>4. selected[row] = None
        <3>1. ~(row < row)
            BY <2>1 DEF Left
        <3> QED
            BY <2>1, <2>2, <3>1
    <2>5. /\ \A k \in Left : k # row => selected'[k] = selected[k]
          /\ IF JoinedOf(row) = {} THEN selected'[row] = None ELSE selected'[row] \in JoinedOf(row)
        BY <1>3, <2>1, <2>3, <2>4
    <2>6. ASSUME NEW k \in Left
          PROVE  IF k < row' THEN Picked(k)' ELSE selected'[k] = None
        <3>1. k < row + 1 <=> k < row \/ k = row
            BY <2>1 DEF Left
        <3>2. JoinedOf(k)' = JoinedOf(k)
            BY <2>1, MatchedIsStable
        <3>3. CASE k = row
            BY <2>1, <2>5, <3>1, <3>2, <3>3 DEF Picked
        <3>4. CASE k # row
            BY <2>1, <2>2, <2>5, <3>1, <3>4, PickedIsStable
        <3> QED
            BY <3>3, <3>4
    <2> QED
        BY <2>1, <2>6 DEF SelectInv, Unlaid, Preparing
<1>5. CASE SkipInactive
    <2>1. /\ row \in Left /\ row' = row + 1 /\ pc' = pc /\ UNCHANGED pathVars /\ UNCHANGED selected
          /\ ~Reaches(row)
        BY <1>5, SkippedRow
    <2>2. CASE pc = "ask"
        <3>1. \A k \in Left : IF k < row THEN Picked(k) ELSE selected[k] = None
            BY <1>2, <2>2 DEF SelectInv
        <3>2. JoinedOf(row) = {} /\ ~(row < row)
            BY <2>1, NoMatchNoJoin DEF Left
        <3>3. ASSUME NEW k \in Left
              PROVE  IF k < row' THEN Picked(k)' ELSE selected'[k] = None
            <4>1. k < row + 1 <=> k < row \/ k = row
                BY <2>1 DEF Left
            <4>2. Picked(k)' <=> Picked(k)
                BY <2>1, PickedIsStable
            <4>3. k = row => Picked(k)
                BY <2>1, <3>1, <3>2 DEF Picked
            <4> QED
                BY <2>1, <3>1, <4>1, <4>2, <4>3
        <3> QED
            BY <2>1, <2>2, <3>3 DEF SelectInv, Unlaid, Preparing
    <2>3. CASE pc # "ask"
        <3>1. \A k : Picked(k)' <=> Picked(k)
            BY <2>1, PickedIsStable
        <3> QED
            BY <1>2, <2>1, <2>3, <3>1 DEF SelectInv
    <2> QED
        BY <2>2, <2>3
<1>6. CASE PathsNext
    <2>1. pc \in Unlaid /\ UNCHANGED selected
        BY <1>6 DEF PathsNext, BuildFirst, BuildSecond, OrderLeft, FindStarts, ReturnNone,
            Unlaid, Preparing
    <2>2. pc' \in Unlaid \union {"any", "none"}
        BY <1>6 DEF PathsNext, BuildFirst, BuildSecond, OrderLeft, FindStarts, FirstPass,
            ReturnNone, Unlaid, Preparing
    <2> QED
        BY <1>2, <2>1, <2>2 DEF SelectInv, Unlaid, Preparing
<1>7. CASE LayoutNext
    <2>1. pc \in Unlaid /\ UNCHANGED selected /\ UNCHANGED pathVars
        BY <1>7 DEF LayoutNext, FilterRow, EndFilter, TotalRow, EndTotals, OffsetRank,
            EndOffsets, PlaceRow, EndPlace, Sweeping, Swept, Unlaid
    <2>2. CASE EndPlace
        <3>1. row' = 0 /\ pc' \in {"error", "ask", "count", "best"}
            BY <2>2 DEF EndPlace, Rewind
        <3>2. \A k \in Left : ~(k < 0)
            BY DEF Left
        <3> QED
            BY <1>2, <2>1, <3>1, <3>2 DEF SelectInv, Unlaid, Preparing
    <2>3. CASE ~EndPlace
        <3>1. pc' \in {"error", "filter", "none", "totals", "slices", "place"}
            BY <1>7, <2>3 DEF LayoutNext, FilterRow, EndFilter, TotalRow, EndTotals, OffsetRank,
                EndOffsets, PlaceRow, Sweeping, Swept, Advance
        <3> QED
            BY <1>2, <2>1, <3>1 DEF SelectInv, Unlaid, Preparing
    <2> QED
        BY <2>2, <2>3
<1>8. CASE EndAsk
    <2>1. pc = "ask" /\ row = LeftLen /\ UNCHANGED selected /\ UNCHANGED pathVars
        BY <1>8 DEF EndAsk, Swept
    <2>2. pc' \in {"none", "emit_selected", "ask_again"}
        BY <1>8 DEF EndAsk
    <2>3. \A k \in Left : Picked(k)
        <3>1. \A k \in Left : k < LeftLen
            BY LengthsAssumption DEF Left
        <3> QED
            BY <1>2, <2>1, <3>1 DEF SelectInv
    <2>4. \A k \in Left : Picked(k)'
        BY <2>1, <2>3, PickedIsStable
    <2> QED
        BY <2>2, <2>4 DEF SelectInv, Unlaid, Preparing
<1>9. CASE EmitSelected
    <2>1. pc = "emit_selected" /\ pc' = pc /\ UNCHANGED selected /\ UNCHANGED pathVars
        BY <1>9 DEF EmitSelected
    <2>2. \A k \in Left : Picked(k)'
        BY <1>2, <2>1, PickedIsStable DEF SelectInv
    <2> QED
        BY <2>1, <2>2 DEF SelectInv, Unlaid, Preparing
<1>10. CASE AnyNext \/ AllNext \/ FirstLastNext
    <2>1. pc' \notin Unlaid \union {"ask", "emit_selected"}
        BY <1>10 DEF AnyNext, CountAny, EndAny, EmitAny, FinishAny, AllNext, CountRow, CountRank,
            EndCountRanks, EndCount, OffsetRow, EndOffsetRows, EmitRow, EmitRank, EndEmitRanks, EndEmit,
            Translate, FinishAll, FirstLastNext, EmitBest, FinishBest, Sweeping, Swept, Advance,
            Compare, Unlaid, Preparing
    <2> QED
        BY <2>1 DEF SelectInv
<1>11. CASE FinishSelected \/ AskAgainRow \/ FinishAsk
    <2>1. pc' \notin Unlaid \union {"ask", "emit_selected"}
        BY <1>11 DEF FinishSelected, AskAgainRow, FinishAsk, Sweeping, Swept, Advance,
            Compare, Unlaid, Preparing
    <2> QED
        BY <2>1 DEF SelectInv
<1>12. CASE UNCHANGED vars
    <2>1. \A k : Picked(k)' <=> Picked(k)
        BY <1>12, PickedIsStable
    <2> QED
        BY <1>12, <2>1 DEF SelectInv
<1> QED
    BY <1>4, <1>5, <1>6, <1>7, <1>8, <1>9, <1>10, <1>11, <1>12 DEF Next, ResidualNext

-----------------------------------------------------------------------------
\* The steps that answer a row.

\* A row that joins nothing is put out with nothing.
LEMMA EmptyRowStep ==
    ASSUME PathInv, Ordered, OtherTypes, Answers, NEW pass \in Answering, pc = pass, pc' = pass,
           row \in Left, row' = row + 1, UNCHANGED pathVars, UNCHANGED outVars,
           JoinedOf(row) = {}
    PROVE  Answers' /\ Steady
<1> DEFINE labels == <<>>
<1>1. labels \in Seq(Values) /\ Len(labels) = 0
    OBVIOUS
<1>2. left_output \in Seq(Left) /\ right_output \in Seq(Values)
    BY OutputTypes
<1>3. [n \in 1 .. Len(labels) |-> left_order[row]] = <<>>
    <2>1. 1 .. Len(labels) = {}
        BY <1>1
    <2> QED
        BY <2>1
<1>4. /\ left_output' = left_output \o [n \in 1 .. Len(labels) |-> left_order[row]]
      /\ right_output' = right_output \o labels
    BY <1>2, <1>3, ConcatEmptySeq
<1>5. {labels[n] : n \in 1 .. Len(labels)} = {}
    BY <1>1
<1>6. Allowed(row, {labels[n] : n \in 1 .. Len(labels)})
    BY <1>5, NothingIsAllowed
<1>7. OneByOne(labels)
    <2>1. 1 .. Len(labels) = {}
        BY <1>1
    <2> HIDE DEF labels
    <2> QED
        BY <2>1 DEF OneByOne
<1> HIDE DEF labels
<1> QED
    BY <1>1, <1>4, <1>6, <1>7, RowStep

\* A row is put out with one label.
LEMMA OneLabelStep ==
    ASSUME PathInv, Ordered, OtherTypes, Answers, NEW pass \in Answering, pc = pass, pc' = pass,
           row \in Left, row' = row + 1, UNCHANGED pathVars, NEW x \in Values,
           left_output' = Append(left_output, left_order[row]),
           right_output' = Append(right_output, x),
           Allowed(row, {x})
    PROVE  Answers' /\ Steady
<1> DEFINE labels == <<x>>
<1>1. labels \in Seq(Values) /\ Len(labels) = 1 /\ labels[1] = x
    OBVIOUS
<1>2. left_output \in Seq(Left) /\ right_output \in Seq(Values) /\ left_order[row] \in Left
    BY OutputTypes, OrderedTypes
<1>3. [n \in 1 .. Len(labels) |-> left_order[row]] = <<left_order[row]>>
    <2>1. 1 .. Len(labels) = 1 .. 1
        BY <1>1
    <2> QED
        BY <2>1
<1>4. /\ left_output' = left_output \o [n \in 1 .. Len(labels) |-> left_order[row]]
      /\ right_output' = right_output \o labels
    BY <1>2, <1>3, AppendIsConcat
<1>5. {labels[n] : n \in 1 .. Len(labels)} = {x}
    <2>1. \A n \in 1 .. Len(labels) : n = 1
        BY <1>1
    <2> QED
        BY <1>1, <2>1
<1>6. Allowed(row, {labels[n] : n \in 1 .. Len(labels)})
    BY <1>5
<1>7. OneByOne(labels)
    <2>1. \A n \in 1 .. Len(labels) : n = 1
        BY <1>1
    <2> HIDE DEF labels
    <2> QED
        BY <2>1 DEF OneByOne
<1> HIDE DEF labels
<1> QED
    BY <1>1, <1>4, <1>6, <1>7, RowStep

\* What a first pass selected is put out.
LEMMA SelectedStep ==
    ASSUME PathInv, Ordered, OtherTypes, Answers, NEW pass \in Answering, pc = pass, pc' = pass,
           row \in Left, row' = row + 1, UNCHANGED pathVars, call.keep = "any", Picked(row),
           IF selected[row] = None
           THEN UNCHANGED outVars
           ELSE /\ left_output' = Append(left_output, left_order[row])
                /\ right_output' = Append(right_output, call.right_index[selected[row]])
    PROVE  Answers' /\ Steady
<1>1. JoinedOf(row) \in SUBSET Right /\ None \notin Right
    BY NoneAssumption, LengthsAssumption DEF JoinedOf, Right
<1>2. CASE selected[row] = None
    <2>1. JoinedOf(row) = {}
        BY <1>1, <1>2 DEF Picked
    <2>2. UNCHANGED outVars
        BY <1>2
    <2> QED
        BY <2>1, <2>2, EmptyRowStep
<1>3. CASE selected[row] # None
    <2>1. selected[row] \in JoinedOf(row)
        BY <1>3 DEF Picked
    <2>2. Allowed(row, {call.right_index[selected[row]]})
        BY <2>1, AnyIsAllowed
    <2>3. call.right_index[selected[row]] \in Values
        BY <1>1, <2>1 DEF Values
    <2> QED
        BY <1>3, <2>2, <2>3, OneLabelStep
<1> QED
    BY <1>2, <1>3

LEMMA EmitAnyAnswers ==
    ASSUME PathInv, SweepInv, AnyInv, OtherTypes, Answers, EmitAny
    PROVE  Answers' /\ Steady
<1>1. /\ pc = "emit_any" /\ pc' = pc /\ row \in Left /\ row' = row + 1 /\ UNCHANGED pathVars
      /\ Ordered
    BY LengthsAssumption DEF EmitAny, SweepInv, Left, PathInv, Preparing
<1>2. call.keep = "any" /\ ~call.has_residuals
    BY <1>1 DEF AnyInv, AnyCall
<1>3. Picked(row)
    <2>1. JoinedOf(row) = Matched(row)
        BY <1>2, JoinedIsMatched
    <2>2. Selected = {k \in Left : Reaches(k)}
        BY <1>1 DEF AnyInv
    <2>3. selected[row] # None <=> Matched(row) # {}
        BY <1>1, <2>2 DEF Selected, Reaches, Matched
    <2>4. selected[row] # None => selected[row] \in Matched(row)
        <3>1. selected \in [Left -> Right \union {None}] /\ \A k \in Selected : Matches(left_order[k], selected[k])
            BY <1>2 DEF AnyInv, AnyCall
        <3> QED
            BY <1>1, <3>1 DEF Selected, Matched
    <2> QED
        BY <2>1, <2>3, <2>4 DEF Picked
<1>4. "emit_any" \in Answering
    BY DEF Answering
<1>5. IF selected[row] = None
      THEN UNCHANGED outVars
      ELSE /\ left_output' = Append(left_output, left_order[row])
           /\ right_output' = Append(right_output, call.right_index[selected[row]])
    BY DEF EmitAny
<1> QED
    BY <1>1, <1>2, <1>3, <1>4, <1>5, SelectedStep

LEMMA EmitSelectedAnswers ==
    ASSUME PathInv, SweepInv, OtherTypes, PolicyInv, SelectInv, Answers, EmitSelected
    PROVE  Answers' /\ Steady
<1>1. /\ pc = "emit_selected" /\ pc' = pc /\ row \in Left /\ row' = row + 1 /\ UNCHANGED pathVars
      /\ Ordered
    BY LengthsAssumption DEF EmitSelected, SweepInv, Left, PathInv, Preparing
<1>2. call.keep = "any" /\ call.has_residuals
    BY <1>1 DEF PolicyInv
<1>3. Picked(row)
    BY <1>1, <1>2 DEF SelectInv
<1>4. "emit_selected" \in Answering
    BY DEF Answering
<1>5. IF selected[row] = None
      THEN UNCHANGED outVars
      ELSE /\ left_output' = Append(left_output, left_order[row])
           /\ right_output' = Append(right_output, call.right_index[selected[row]])
    BY DEF EmitSelected
<1> QED
    BY <1>1, <1>2, <1>3, <1>4, <1>5, SelectedStep

LEMMA SkipAnswers ==
    ASSUME PathInv, SweepInv, OtherTypes, Answers, SkipInactive
    PROVE  Answers' /\ Steady
<1>1. /\ pc \in Sweeps /\ row \in Left /\ row' = row + 1 /\ pc' = pc
      /\ UNCHANGED pathVars /\ UNCHANGED outVars /\ ~Reaches(row)
    BY SkippedRow DEF SkipInactive
<1>2. Ordered
    BY <1>1 DEF PathInv, Sweeps, Preparing
<1>3. CASE pc \in Answering
    BY <1>1, <1>2, <1>3, NoMatchNoJoin, EmptyRowStep
<1>4. CASE pc \notin Answering
    <2>1. Answered = {} /\ Answered' = {} /\ pc' # "none"
        BY <1>1, <1>4 DEF Answered, Answering, Sweeps
    <2> QED
        BY <1>1, <2>1, QuietStep
<1> QED
    BY <1>3, <1>4

LEMMA EmitBestAnswers ==
    ASSUME PathInv, SweepInv, OpenInv, FilterInv, BestInv, OtherTypes, PolicyInv, ExtremeInv,
           Answers, EmitBest
    PROVE  Answers' /\ Steady
<1>1. /\ pc = "best" /\ row < LeftLen /\ ~Inactive /\ active_best' = Updated
      /\ row' = row + 1 /\ UNCHANGED pathVars
    BY DEF EmitBest, Sweeping
<1>2. pc' = "best" /\ "best" \in Answering /\ Ordered
    BY <1>1, AdvanceKeepsSweep DEF EmitBest, Sweeps, Scanning, Answering, PathInv, Preparing
<1>3. /\ row \in Left /\ SuffixBest(Updated) \in Values \union {None}
      /\ left_has_match[row] => second.left[row] # 0 /\ SuffixBest(Updated) # None
    BY <1>1, FlaggedFindsBest
<1>4. SuffixBest(active_best') = Best(LabelsOf(Candidates(row, RankCount)))
    BY <1>1, ExtremesAreUpdated
<1>5. SuffixBest(active_best') = SuffixBest(Updated)
    BY <1>1
<1>6. /\ left_has_match[row] => Candidates(row, RankCount) = Matched(row) /\ Matched(row) # {}
      /\ ~left_has_match[row] => Matched(row) = {}
    <2>1. pc \in Filtered
        BY <1>1 DEF Filtered
    <2> QED
        BY <1>3, <2>1, FlaggedCandidates
<1>7. call.keep \in {"first", "last"} /\ JoinedOf(row) = Matched(row)
    BY <1>1, JoinedIsMatched DEF PolicyInv
<1>8. CASE left_has_match[row]
    <2> DEFINE x == SuffixBest(active_best')
    <2>1. /\ left_output' = Append(left_output, left_order[row])
          /\ right_output' = Append(right_output, x)
        BY <1>3, <1>5, <1>8 DEF EmitBest
    <2>2. x \in Values
        BY <1>3, <1>5, <1>8
    <2>3. x = Best(LabelsOf(JoinedOf(row))) /\ JoinedOf(row) # {}
        BY <1>4, <1>6, <1>7, <1>8
    <2>4. Allowed(row, {x})
        <3> HIDE DEF x
        <3> QED
            BY <1>7, <2>3, BestIsAllowed
    <2> HIDE DEF x
    <2> QED
        BY <1>1, <1>2, <1>3, <2>1, <2>2, <2>4, OneLabelStep
<1>9. CASE ~left_has_match[row]
    <2>1. UNCHANGED outVars
        BY <1>9 DEF EmitBest
    <2> QED
        BY <1>1, <1>2, <1>3, <1>6, <1>7, <1>9, <2>1, EmptyRowStep
<1> QED
    BY <1>8, <1>9

LEMMA TranslateAnswers ==
    ASSUME PathInv, SweepInv, FilterInv, CountInv, SumInv, PositionsInv, OtherTypes, PolicyInv,
           CopyInv, Answers, Translate
    PROVE  Answers' /\ Steady
<1>1. /\ pc = "translate" /\ pc' = pc /\ row \in Left /\ row' = row + 1 /\ UNCHANGED pathVars
      /\ Ordered
    BY LengthsAssumption DEF Translate, SweepInv, Left, PathInv, Preparing
<1> DEFINE N == left_match_counts[row]
           labels == [n \in 1 .. N |-> call.right_index[positions[offsets[row] + n - 1]]]
<1>2. N \in Nat /\ offsets[row] \in Nat
    BY <1>1 DEF SumInv
<1>3. labels \in Seq(Values) /\ Len(labels) = N
    <2>1. positions \in [0 .. total_size - 1 -> Right]
        BY <1>1 DEF PositionsInv, Copying
    <2>2. ASSUME NEW n \in 1 .. N
          PROVE  call.right_index[positions[offsets[row] + n - 1]] \in Values
        <3>1. offsets[row] + n - 1 \in 0 .. total_size - 1
            BY <1>1, PlacesFit DEF Copying
        <3> QED
            BY <2>1, <3>1 DEF Values
    <2> HIDE DEF N
    <2>3. labels \in Seq(Values)
        BY <1>2, <2>2, IsASeq
    <2>4. DOMAIN labels = 1 .. N
        OBVIOUS
    <2> QED
        BY <1>2, <2>3, <2>4, LenProperties
<1>4. /\ left_output' = left_output \o [n \in 1 .. Len(labels) |-> left_order[row]]
      /\ right_output' = right_output \o labels
    <2>1. /\ left_output' = left_output \o [n \in 1 .. N |-> left_order[row]]
          /\ right_output' = right_output \o labels
        BY DEF Translate
    <2> HIDE DEF labels, N
    <2> QED
        BY <1>3, <2>1
<1>5. JoinedOf(row) = Copied(row)
    <2>1. JoinedOf(row) = Matched(row)
        BY <1>1, JoinedIsMatched DEF PolicyInv
    <2> QED
        BY <1>1, <2>1 DEF CopyInv
<1>6. {labels[n] : n \in 1 .. N} = LabelsOf(Copied(row))
    <2>1. Copied(row) = {positions[offsets[row] + m] : m \in 0 .. N - 1}
        BY DEF Copied, CopiedFirst
    <2>2. ASSUME NEW n \in 1 .. N PROVE labels[n] \in LabelsOf(Copied(row))
        <3>1. n - 1 \in 0 .. N - 1 /\ offsets[row] + (n - 1) = offsets[row] + n - 1
            BY <1>2
        <3>2. positions[offsets[row] + n - 1] \in Copied(row)
            BY <2>1, <3>1
        <3> QED
            BY <3>2 DEF LabelsOf
    <2>3. ASSUME NEW x \in LabelsOf(Copied(row)) PROVE \E n \in 1 .. N : x = labels[n]
        <3>1. PICK m \in 0 .. N - 1 : x = call.right_index[positions[offsets[row] + m]]
            BY <2>1 DEF LabelsOf
        <3>2. m + 1 \in 1 .. N /\ offsets[row] + (m + 1) - 1 = offsets[row] + m
            BY <1>2
        <3>3. labels[m + 1] = call.right_index[positions[offsets[row] + (m + 1) - 1]]
            BY <3>2
        <3> QED
            BY <3>1, <3>2, <3>3
    <2> HIDE DEF labels, N
    <2> QED
        BY <2>2, <2>3
<1>7. Allowed(row, {labels[n] : n \in 1 .. Len(labels)})
    <2>1. call.keep = "all"
        BY <1>1 DEF PolicyInv
    <2> HIDE DEF labels, N
    <2> QED
        BY <1>3, <1>5, <1>6, <2>1, AllAreAllowed
<1>8. "translate" \in Answering
    BY DEF Answering
<1>9. OneByOne(labels)
    <2>1. left_match_counts[row] = Cardinality(Copied(row))
        <3>1. left_match_counts[row] = CountOf(row) /\ Copied(row) = Matched(row)
            BY <1>1 DEF CountInv, Reserved, Copying, CopyInv
        <3>2. /\ left_has_match[row] => Candidates(row, RankCount) = Matched(row)
              /\ ~left_has_match[row] => Matched(row) = {}
            BY <1>1, FlaggedCandidates DEF Filtered
        <3>3. Cardinality({}) = 0
            BY FS_EmptySet
        <3> QED
            BY <3>1, <3>2, <3>3 DEF CountOf
    <2>2. Copied(row) \in SUBSET Right
        BY <1>1, JoinedIsMatched DEF CopyInv
    <2>3. Copied(row) = {positions[offsets[row] + m] : m \in 0 .. N - 1}
        BY DEF Copied, CopiedFirst
    <2> DEFINE f == [n \in 1 .. 1 + N - 1 |-> positions[offsets[row] + n - 1]]
    <2>4. 1 .. 1 + N - 1 = 1 .. N
        BY <1>2
    <2>5. \A n \in 1 .. N : f[n] = positions[offsets[row] + n - 1]
        BY <2>4
    <2>6. f \in [1 .. 1 + N - 1 -> Copied(row)]
        <3>1. ASSUME NEW n \in 1 .. 1 + N - 1 PROVE positions[offsets[row] + n - 1] \in Copied(row)
            <4>1. n - 1 \in 0 .. N - 1 /\ offsets[row] + (n - 1) = offsets[row] + n - 1
                BY <1>2
            <4> QED
                BY <2>3, <4>1
        <3> QED
            BY <3>1
    <2>7. \A j \in Copied(row) : \E n \in 1 .. 1 + N - 1 : f[n] = j
        <3> SUFFICES ASSUME NEW j \in Copied(row) PROVE \E n \in 1 .. 1 + N - 1 : f[n] = j
            OBVIOUS
        <3>1. PICK m \in 0 .. N - 1 : j = positions[offsets[row] + m]
            BY <2>3
        <3>2. m + 1 \in 1 .. N /\ offsets[row] + (m + 1) - 1 = offsets[row] + m
            BY <1>2
        <3>3. f[m + 1] = positions[offsets[row] + (m + 1) - 1]
            BY <2>5, <3>2
        <3> QED
            BY <2>4, <3>1, <3>2, <3>3
    <2>8. \A n \in 1 .. N : labels[n] = call.right_index[f[n]]
        BY <2>5
    <2>9. Len(labels) = N /\ Cardinality(Copied(row)) = N
        BY <1>3, <2>1
    <2> HIDE DEF f, labels, N
    <2>10. \A m, n \in 1 .. 1 + N - 1 : f[m] = f[n] => m = n
        <3> DEFINE S == Copied(row)
                   a == 1
        <3>1. /\ f \in [a .. a + N - 1 -> S] /\ Cardinality(S) = N
              /\ \A j \in S : \E n \in a .. a + N - 1 : f[n] = j
            BY <2>6, <2>7, <2>9
        <3>2. a \in Int /\ N \in Nat
            BY <1>2
        <3> HIDE DEF S, a
        <3>3. \A m, n \in a .. a + N - 1 : f[m] = f[n] => m = n
            BY <3>1, <3>2, HoldsOnce
        <3> QED
            BY <3>3 DEF a
    <2>11. \A n \in 1 .. N : f[n] \in Right
        BY <2>2, <2>4, <2>6
    <2> QED
        BY <2>4, <2>8, <2>9, <2>10, <2>11 DEF OneByOne, DistinctRight
<1> HIDE DEF labels
<1> QED
    BY <1>1, <1>3, <1>4, <1>7, <1>8, <1>9, RowStep

\* The walk over a set of slots comes to each of them.
LEMMA NthMeetsAll ==
    ASSUME NEW S \in SUBSET Right, NEW s \in S
    PROVE  \E n \in 1 .. Cardinality(S) : Nth(S, n) = s
<1>1. S \in SUBSET Int /\ IsFiniteSet(S) /\ Cardinality(S) \in Nat
    BY RightFinite, LengthsAssumption DEF Right
<1> DEFINE upTo(x) == {t \in S : t <= x}
<1>2. \A x \in S : IsFiniteSet(upTo(x)) /\ Cardinality(upTo(x)) \in 1 .. Cardinality(S)
    <2> SUFFICES ASSUME NEW x \in S
                 PROVE  IsFiniteSet(upTo(x)) /\ Cardinality(upTo(x)) \in 1 .. Cardinality(S)
        OBVIOUS
    <2>1. upTo(x) \in SUBSET S /\ x \in upTo(x)
        BY <1>1
    <2> HIDE DEF upTo
    <2>2. IsFiniteSet(upTo(x)) /\ Cardinality(upTo(x)) <= Cardinality(S)
        BY <1>1, <2>1, FS_Subset
    <2>3. Cardinality(upTo(x)) \in Nat /\ Cardinality(upTo(x)) # 0
        BY <2>1, <2>2, FS_EmptySet, FS_CardinalityType
    <2> QED
        BY <1>1, <2>2, <2>3
<1>3. ASSUME NEW x \in S, NEW y \in S, x < y PROVE Cardinality(upTo(x)) # Cardinality(upTo(y))
    <2>1. upTo(x) \in SUBSET upTo(y)
        <3>1. \A t \in S : t <= x => t <= y
            BY <1>1, <1>3
        <3> QED
            BY <3>1
    <2>2. y \in upTo(y) /\ y \notin upTo(x)
        BY <1>1, <1>3
    <2> HIDE DEF upTo
    <2>3. upTo(x) # upTo(y)
        BY <2>2
    <2> QED
        BY <1>2, <2>1, <2>3, FS_Subset
<1> DEFINE n == Cardinality(upTo(s))
<1>4. \A x \in S : Cardinality(upTo(x)) = n => x = s
    <2> SUFFICES ASSUME NEW x \in S, Cardinality(upTo(x)) = n PROVE x = s
        OBVIOUS
    <2>1. ~(x < s) /\ ~(s < x)
        BY <1>3
    <2>2. x \in Int /\ s \in Int
        BY <1>1
    <2> QED
        BY <2>1, <2>2
<1>5. Nth(S, n) = CHOOSE x \in S : Cardinality(upTo(x)) = n
    BY DEF Nth
<1>6. Nth(S, n) = s
    <2> HIDE DEF upTo
    <2> QED
        BY <1>4, <1>5
<1> QED
    BY <1>2, <1>6

\* And comes to none twice.
LEMMA NthMeetsOnce ==
    ASSUME NEW S \in SUBSET Right,
           NEW m \in 1 .. Cardinality(S), NEW n \in 1 .. Cardinality(S), Nth(S, m) = Nth(S, n)
    PROVE  m = n
<1> DEFINE c == Cardinality(S)
           f == [x \in 1 .. 1 + c - 1 |-> Nth(S, x)]
<1>1. c \in Nat
    BY RightFinite, LengthsAssumption
<1>2. 1 .. 1 + c - 1 = 1 .. c
    BY <1>1
<1>3. \A x \in 1 .. c : f[x] = Nth(S, x) /\ Nth(S, x) \in S
    BY <1>2, NthIsMember
<1>4. \A s \in S : \E x \in 1 .. c : Nth(S, x) = s
    BY NthMeetsAll
<1>5. f \in [1 .. 1 + c - 1 -> S]
    BY <1>2, <1>3
<1>6. m \in 1 .. c /\ n \in 1 .. c /\ Cardinality(S) = c
    OBVIOUS
<1> HIDE DEF c, f
<1>7. \A s \in S : \E x \in 1 .. 1 + c - 1 : f[x] = s
    BY <1>2, <1>3, <1>4
<1>8. \A x, y \in 1 .. 1 + c - 1 : f[x] = f[y] => x = y
    BY <1>1, <1>5, <1>6, <1>7, HoldsOnce
<1> QED
    BY <1>2, <1>3, <1>6, <1>8

LEMMA AskAgainAnswers ==
    ASSUME PathInv, SweepInv, OpenInv, LayoutInv, FilterInv, AskInv, OtherTypes, PolicyInv,
           Answers, AskAgainRow
    PROVE  Answers' /\ Steady
<1>1. /\ pc = "ask_again" /\ pc' = "ask_again" /\ row \in Left /\ row' = row + 1 /\ UNCHANGED pathVars
    BY AskAgainFinds
<1>2. PICK labels \in Seq(Values) :
        /\ labels = Chosen(IF left_match_counts[row] = 0 THEN {} ELSE PassingOf(row))
        /\ Len(labels) = left_match_counts[row]
        /\ left_output' = left_output \o [n \in 1 .. Len(labels) |-> left_order[row]]
        /\ right_output' = right_output \o labels
    BY AskAgainFinds
<1>3. /\ pc \in LaidOut /\ pc \in Answering /\ Ordered
      /\ call.has_residuals /\ call.keep \in {"all", "first", "last"}
    <2>1. call \in Call
        BY CallsAssumption DEF PathInv
    <2> QED
        BY <1>1, <2>1 DEF Answering, PathInv, Preparing, PolicyInv, Call, Keeps
<1>4. /\ FoundOf(row) = {} <=> JoinedOf(row) = {}
      /\ FoundOf(row) # {} =>
            {layout_positions[s] : s \in PassingOf(row)} = JoinedOf(row) /\ PassingOf(row) # {}
    BY <1>1, <1>3, FoundIsJoined
<1>5. PassingOf(row) \in SUBSET Right /\ FoundOf(row) \in SUBSET Right /\ IsFiniteSet(FoundOf(row))
    BY <1>1, <1>3, FoundFinite, RightFinite
<1>6. left_match_counts[row] = Cardinality(FoundOf(row))
    BY <1>1 DEF AskInv
<1>7. left_match_counts[row] = 0 <=> FoundOf(row) = {}
    BY <1>5, <1>6, FS_EmptySet
<1> DEFINE A == {labels[n] : n \in 1 .. Len(labels)}
<1>8. CASE FoundOf(row) = {}
    <2>1. Len(labels) = 0
        BY <1>2, <1>7, <1>8
    <2>2. A = {}
        BY <2>1
    <2>3. Allowed(row, A)
        BY <1>4, <1>8, <2>2, NothingIsAllowed
    <2>4. OneByOne(labels)
        BY <2>1 DEF OneByOne
    <2> QED
        BY <1>1, <1>2, <1>3, <2>3, <2>4, RowStep
<1>9. CASE FoundOf(row) # {}
    <2> DEFINE P == PassingOf(row)
               found == {LabelOf(s) : s \in P}
    <2>1. labels = Chosen(P) /\ P # {}
        BY <1>2, <1>4, <1>7, <1>9
    <2>2. found = LabelsOf(JoinedOf(row))
        BY <1>4, <1>9 DEF LabelOf, LabelsOf
    <2>3. CASE call.keep = "all"
        <3>1. labels = [n \in 1 .. Cardinality(P) |-> LabelOf(Nth(P, n))]
            BY <2>1, <2>3 DEF Chosen
        <3>2. Cardinality(P) \in Nat /\ Len(labels) \in Nat
            BY <1>2, <1>5, RightFinite, LengthsAssumption, LenProperties
        <3>3. Len(labels) = Cardinality(P)
            <4>1. DOMAIN labels = 1 .. Cardinality(P) /\ DOMAIN labels = 1 .. Len(labels)
                BY <1>2, <3>1, LenProperties
            <4> QED
                BY <3>2, <4>1
        <3>4. \A n \in 1 .. Cardinality(P) : labels[n] = LabelOf(Nth(P, n)) /\ Nth(P, n) \in P
            BY <1>5, <3>1, NthIsMember
        <3>5. \A s \in P : \E n \in 1 .. Cardinality(P) : Nth(P, n) = s
            BY <1>5, NthMeetsAll
        <3>6. A = found
            <4> HIDE DEF P
            <4>1. \A n \in 1 .. Cardinality(P) : labels[n] \in found
                BY <3>4
            <4>2. \A s \in P : \E n \in 1 .. Cardinality(P) : LabelOf(s) = labels[n]
                BY <3>4, <3>5
            <4> QED
                BY <3>3, <4>1, <4>2
        <3>7. Allowed(row, A)
            <4> HIDE DEF A, found
            <4> QED
                BY <2>2, <2>3, <3>6, AllAreAllowed
        <3>8. OneByOne(labels)
            <4> SUFFICES ASSUME DistinctRight, NEW m \in 1 .. Cardinality(P),
                                NEW n \in 1 .. Cardinality(P), labels[m] = labels[n]
                         PROVE  m = n
                BY <3>3 DEF OneByOne
            <4>1. Nth(P, m) \in P /\ Nth(P, n) \in P /\ LabelOf(Nth(P, m)) = LabelOf(Nth(P, n))
                BY <3>4
            <4>2. \A s \in P : layout_positions[s] \in Right /\ s \in SlotsOf(row)
                BY <1>1, <1>3, FoundFinite DEF PassingOf
            <4>3. layout_positions[Nth(P, m)] = layout_positions[Nth(P, n)]
                BY <4>1, <4>2 DEF LabelOf, DistinctRight
            <4> HIDE DEF P
            <4>4. Nth(P, m) = Nth(P, n)
                BY <1>1, <1>3, <4>1, <4>2, <4>3, SlotsHoldOnce
            <4>5. P \in SUBSET Right
                BY <1>5 DEF P
            <4> QED
                BY <4>4, <4>5, NthMeetsOnce
        <3> QED
            BY <1>1, <1>2, <1>3, <3>7, <3>8, RowStep
    <2>4. CASE call.keep # "all"
        <3>1. labels = <<Best(found)>>
            BY <2>1, <2>4 DEF Chosen
        <3>2. Len(labels) = 1 /\ labels[1] = Best(found)
            BY <3>1
        <3>3. \A n \in 1 .. Len(labels) : n = 1
            BY <3>2
        <3>4. A = {Best(found)}
            <4> HIDE DEF found
            <4> QED
                BY <3>2, <3>3
        <3>5. call.keep \in {"first", "last"} /\ JoinedOf(row) # {}
            BY <1>3, <1>4, <1>9, <2>4
        <3>6. Allowed(row, A)
            <4> HIDE DEF A, found
            <4> QED
                BY <2>2, <3>4, <3>5, BestIsAllowed
        <3>7. OneByOne(labels)
            BY <3>3 DEF OneByOne
        <3> QED
            BY <1>1, <1>2, <1>3, <3>6, <3>7, RowStep
    <2> QED
        BY <2>3, <2>4
<1> QED
    BY <1>8, <1>9

-----------------------------------------------------------------------------
\* The steps that answer all rows with nothing.

LEMMA ReturnNoneAnswers ==
    ASSUME PathInv, PathsTypeOK, OtherTypes, Answers, ReturnNone
    PROVE  Answers' /\ Steady
<1>1. pc \in Preparing /\ pc' = "none" /\ UNCHANGED pathVars /\ UNCHANGED outVars
    BY DEF ReturnNone, Preparing
<1>2. Answered = {}
    BY <1>1 DEF Answered, Preparing
<1>3. ASSUME NEW k \in Left PROVE JoinedOf(k) = {}
    <2>1. left_order[k] \in Left
        BY DEF PathsTypeOK, Permutations
    <2>2. \A j \in Right : ~Matches(left_order[k], j)
        BY <2>1, EmptyPathsHaveNoMatch
    <2> QED
        BY <2>2 DEF JoinedOf, Joined
<1> QED
    BY <1>1, <1>2, <1>3, NoneStep

LEMMA EndAnyAnswers ==
    ASSUME PathInv, SweepInv, AnyInv, EmitInv, PathsTypeOK, OtherTypes, Answers, EndAny
    PROVE  Answers' /\ Steady
<1>1. pc = "any" /\ row' = 0 /\ UNCHANGED pathVars /\ UNCHANGED outVars
    BY DEF EndAny, Swept, Rewind
<1>2. Answered = {}
    BY <1>1 DEF Answered
<1>3. CASE match_count = 0
    <2>1. ASSUME NEW k \in Left PROVE JoinedOf(k) = {}
        <3>1. left_order[k] \in Left
            BY DEF PathsTypeOK, Permutations
        <3>2. \A j \in Right : ~Matches(left_order[k], j)
            BY <1>3, <3>1, NothingSelected
        <3> QED
            BY <3>2 DEF JoinedOf, Joined
    <2>2. pc' = "none"
        BY <1>3 DEF EndAny
    <2> QED
        BY <1>1, <1>2, <2>1, <2>2, NoneStep
<1>4. CASE match_count # 0
    <2>1. pc' = "emit_any"
        BY <1>4 DEF EndAny
    <2>2. Answered' = {}
        <3>1. \A k \in Left : ~(k < 0)
            BY DEF Left
        <3> QED
            BY <1>1, <2>1, <3>1 DEF Answered
    <2> QED
        BY <1>1, <1>2, <2>1, <2>2, QuietStep
<1> QED
    BY <1>3, <1>4

LEMMA EndFilterAnswers ==
    ASSUME PathInv, FilterInv, MatchInv, OtherTypes, Answers, EndFilter
    PROVE  Answers' /\ Steady
<1>1. /\ pc = "filter" /\ row = LeftLen /\ UNCHANGED pathVars /\ UNCHANGED outVars
      /\ pc' = IF match_count = 0 THEN "none" ELSE "totals"
    BY DEF EndFilter, Swept
<1>2. Answered = {}
    BY <1>1 DEF Answered
<1>3. CASE match_count = 0
    <2>1. Flagged = {}
        BY <1>1, <1>3, FlaggedFinite, FS_EmptySet DEF MatchInv, Unlaid
    <2>2. ASSUME NEW k \in Left PROVE JoinedOf(k) = {}
        <3>1. k < row
            BY <1>1, LengthsAssumption DEF Left
        <3>2. ~Reaches(k)
            BY <1>1, <2>1, <3>1 DEF FilterInv, Flagged
        <3> QED
            BY <3>2, NoMatchNoJoin
    <2> QED
        BY <1>1, <1>2, <1>3, <2>2, NoneStep
<1>4. CASE match_count # 0
    <2>1. Answered' = {} /\ pc' # "none"
        BY <1>1, <1>4 DEF Answered
    <2> QED
        BY <1>1, <1>2, <2>1, QuietStep
<1> QED
    BY <1>3, <1>4

\* No pairs in all, no pairs of any row.
LEMMA NoSizeNoCounts ==
    ASSUME SumInv, pc \in Counting, row = LeftLen, total_size = 0, NEW i \in Left
    PROVE  left_match_counts[i] = 0
<1>1. PICK f : Sums(f, row, left_match_counts) /\ total_size = f[row]
    BY DEF SumInv
<1>2. i \in 0 .. row - 1 /\ i \in 0 .. row /\ i + 1 \in 0 .. row
    BY LengthsAssumption DEF Left
<1>3. /\ f[i + 1] = f[i] + left_match_counts[i] /\ f[i + 1] <= f[row]
      /\ f[i] \in Nat /\ f[i + 1] \in Nat
    BY <1>1, <1>2 DEF Sums
<1>4. left_match_counts[i] \in Nat /\ f[row] = 0
    BY <1>1 DEF SumInv
<1> QED
    BY <1>3, <1>4

LEMMA EndCountAnswers ==
    ASSUME PathInv, SweepInv, OpenInv, FilterInv, CountInv, SumInv, OtherTypes, PolicyInv,
           Answers, EndCount
    PROVE  Answers' /\ Steady
<1>1. /\ pc = "count" /\ row = LeftLen /\ UNCHANGED pathVars /\ UNCHANGED outVars
      /\ pc' = IF total_size = 0 THEN "none" ELSE "offsets"
    BY DEF EndCount, Swept
<1>2. Answered = {}
    BY <1>1 DEF Answered
<1>3. CASE total_size = 0
    <2>1. ASSUME NEW k \in Left PROVE JoinedOf(k) = {}
        <3>1. k < row
            BY <1>1, LengthsAssumption DEF Left
        <3>2. left_match_counts[k] = 0
            BY <1>1, <1>3, NoSizeNoCounts
        <3>3. CountOf(k) = 0
            BY <1>1, <3>1, <3>2 DEF CountInv
        <3>4. Cardinality(Candidates(k, RankCount)) = 0 => Candidates(k, RankCount) = {}
            BY CandidatesFinite, FS_EmptySet
        <3>5. Matched(k) = {}
            BY <1>1, <3>3, <3>4, FlaggedCandidates DEF CountOf, Filtered
        <3> QED
            BY <3>5, JoinedIsMatched
    <2> QED
        BY <1>1, <1>2, <1>3, <2>1, NoneStep
<1>4. CASE total_size # 0
    <2>1. Answered' = {} /\ pc' # "none"
        BY <1>1, <1>4 DEF Answered
    <2> QED
        BY <1>1, <1>2, <2>1, QuietStep
<1> QED
    BY <1>3, <1>4

LEMMA EndAskAnswers ==
    ASSUME PathInv, SweepInv, OpenInv, FilterInv, LayoutInv, AskInv, SumInv, OtherTypes, PolicyInv,
           Answers, EndAsk
    PROVE  Answers' /\ Steady
<1>1. /\ pc = "ask" /\ row = LeftLen /\ row' = 0 /\ UNCHANGED pathVars /\ UNCHANGED outVars
    BY DEF EndAsk, Swept, Rewind
<1>2. Answered = {}
    BY <1>1 DEF Answered
<1>3. CASE total_size = 0
    <2>1. ASSUME NEW k \in Left PROVE JoinedOf(k) = {}
        <3>1. k < row
            BY <1>1, LengthsAssumption DEF Left
        <3>2. left_match_counts[k] = 0
            BY <1>1, <1>3, NoSizeNoCounts
        <3>3. Cardinality(FoundOf(k)) = 0
            BY <1>1, <3>1, <3>2 DEF AskInv
        <3>4. FoundOf(k) \in SUBSET Right
            BY <1>1, FoundFinite
        <3>5. FoundOf(k) = {}
            BY <3>3, <3>4, RightFinite, FS_EmptySet
        <3> QED
            BY <1>1, <3>5, FoundIsJoined DEF PolicyInv
    <2>2. pc' = "none"
        BY <1>3 DEF EndAsk
    <2> QED
        BY <1>1, <1>2, <2>1, <2>2, NoneStep
<1>4. CASE total_size # 0
    <2>1. pc' \in {"emit_selected", "ask_again"}
        BY <1>4 DEF EndAsk
    <2>2. Answered' = {}
        <3>1. \A k \in Left : ~(k < 0)
            BY DEF Left
        <3> QED
            BY <1>1, <2>1, <3>1 DEF Answered
    <2> QED
        BY <1>1, <1>2, <2>1, <2>2, QuietStep
<1> QED
    BY <1>3, <1>4

-----------------------------------------------------------------------------
\* Every step answers rows as it may, or none.

\* What comes before the passes that put rows out, and the ends of those.
Before ==
    \/ PathsNext /\ ~ReturnNone
    \/ CountAny \/ AskRow
    \/ LayoutNext /\ ~EndFilter
    \/ AllNext /\ ~EndCount /\ ~Translate /\ ~FinishAll

Finish == FinishAny \/ FinishAll \/ FinishBest \/ FinishSelected \/ FinishAsk

LEMMA BeforeAnswers ==
    ASSUME OtherTypes, Answers, [Next]_vars, Before
    PROVE  Answers' /\ Steady
<1>1. UNCHANGED outVars
    BY DEF Before, PathsNext, BuildFirst, BuildSecond, OrderLeft, FindStarts, CountAny, LayoutNext,
        FilterRow, TotalRow, EndTotals, OffsetRank, EndOffsets, PlaceRow, EndPlace, AskRow, AllNext,
        CountRow, CountRank, EndCountRanks, OffsetRow, EndOffsetRows, EmitRow, EmitRank,
        EndEmitRanks, EndEmit
<1>2. pc \notin Answering \union {"none", "done"}
    BY DEF Before, PathsNext, BuildFirst, BuildSecond, OrderLeft, FindStarts, CountAny, LayoutNext,
        FilterRow, TotalRow, EndTotals, OffsetRank, EndOffsets, PlaceRow, EndPlace, AskRow, AllNext,
        CountRow, CountRank, EndCountRanks, OffsetRow, EndOffsetRows, EmitRow, EmitRank,
        EndEmitRanks, EndEmit, Sweeping, Swept, Answering
<1>3. \/ pc' \notin Answering \union {"none", "done"}
      \/ pc' \in Answering /\ row' = 0
    <2>1. CASE (PathsNext /\ ~ReturnNone) \/ CountAny \/ AskRow
        BY <2>1 DEF PathsNext, BuildFirst, BuildSecond, OrderLeft, FindStarts, FirstPass, CountAny,
            AskRow, Advance, Answering
    <2>2. CASE LayoutNext /\ ~EndFilter
        BY <2>2 DEF LayoutNext, FilterRow, TotalRow, EndTotals, OffsetRank, EndOffsets, PlaceRow,
            EndPlace, Advance, Rewind, Sweeping, Swept, Answering
    <2>3. CASE AllNext /\ ~EndCount /\ ~Translate /\ ~FinishAll
        BY <2>3 DEF AllNext, CountRow, CountRank, EndCountRanks, OffsetRow, EndOffsetRows, EmitRow,
            EmitRank, EndEmitRanks, EndEmit, Advance, Rewind, Sweeping, Swept, Answering
    <2> QED
        BY <2>1, <2>2, <2>3 DEF Before
<1>4. Answered = {}
    BY <1>2 DEF Answered, Answering
<1>5. Answered' = {} /\ pc' # "none"
    <2>1. \A k \in Left : ~(k < 0)
        BY DEF Left
    <2> QED
        BY <1>3, <2>1 DEF Answered, Answering
<1> QED
    BY <1>1, <1>4, <1>5, QuietStep

LEMMA FinishAnswers ==
    ASSUME OtherTypes, Answers, Finish, pc' # "error"
    PROVE  Answers' /\ Steady
<1>1. /\ pc \in Answering /\ row = LeftLen /\ pc' = "done"
      /\ UNCHANGED pathVars /\ UNCHANGED outVars
    BY DEF Finish, FinishAny, FinishAll, FinishBest, FinishSelected, FinishAsk, Swept, Compare, Answering
<1>2. Answered = Left
    <2>1. \A k \in Left : k < LeftLen
        BY LengthsAssumption DEF Left
    <2> QED
        BY <1>1, <2>1 DEF Answered, Answering
<1>3. Answered' = Left
    BY <1>1 DEF Answered
<1> QED
    BY <1>1, <1>2, <1>3, QuietStep

\* AgreeInv says how the passes fit together, and the other parts what they have
\* found; Answers, that it has been put out as the policy allows.
RefineInv ==
    /\ AgreeInv /\ PathsTypeOK
    /\ PolicyInv /\ CopyInv /\ ExtremeInv /\ SelectInv /\ Answers

LEMMA RefineInit == Init => RefineInv
<1> SUFFICES ASSUME Init PROVE RefineInv
    OBVIOUS
<1>1. Answered = {} /\ Len(left_output) = 0 /\ Len(right_output) = 0 /\ pc = "first"
    BY DEF Init, Answered
<1>2. Answers
    <2>1. left_output = <<>>
        BY DEF Init
    <2>2. NoPairTwice
        BY <2>1 DEF NoPairTwice
    <2> QED
        BY <1>1, <2>2 DEF Answers, OutInv, AnswersInv
<1> QED
    BY <1>2, AgreeInit, TypeInit, PolicyInit, CopyInit, ExtremeInit, SelectInit DEF RefineInv

LEMMA AnswersNext ==
    ASSUME RefineInv, [Next]_vars
    PROVE  Answers' /\ Steady
<1> USE DEF RefineInv, AgreeInv
<1>1. CASE Before
    BY <1>1, BeforeAnswers
<1>2. CASE Finish
    <2>1. pc # "error"
        BY <1>2 DEF Finish, FinishAny, FinishAll, FinishBest, FinishSelected, FinishAsk, Swept
    <2> QED
        BY <1>2, <2>1, NoStepFails, FinishAnswers
<1>3. CASE ReturnNone \/ EndAny \/ EndFilter \/ EndCount \/ EndAsk
    BY <1>3, ReturnNoneAnswers, EndAnyAnswers, EndFilterAnswers, EndCountAnswers, EndAskAnswers
<1>4. CASE SkipInactive
    BY <1>4, SkipAnswers
<1>5. CASE EmitAny \/ Translate \/ EmitBest \/ EmitSelected \/ AskAgainRow
    BY <1>5, EmitAnyAnswers, TranslateAnswers, EmitBestAnswers, EmitSelectedAnswers, AskAgainAnswers
<1>6. CASE UNCHANGED vars
    <2>1. Answered' = Answered /\ UNCHANGED pathVars /\ UNCHANGED outVars /\ pc' = pc
        BY <1>6 DEF Answered
    <2>2. CASE pc # "none"
        BY <2>1, <2>2, QuietStep
    <2>3. CASE pc = "none"
        <3>1. \A i : Emitted(i)' = Emitted(i)
            BY <2>1 DEF Emitted
        <3>2. OutInv'
            BY <1>6, <2>1 DEF Answers, OutInv
        <3>3. \A k \in Answered : \A i \in {left_order[k]} : Allowed(k, Emitted(i))'
            BY <2>1, <3>1, AllowedIsStable DEF Answers, AnswersInv
        <3>4. NoPairTwice'
            BY <2>1 DEF Answers, NoPairTwice
        <3> QED
            BY <2>1, <3>1, <3>2, <3>3, <3>4 DEF Answers, AnswersInv, Steady
    <2> QED
        BY <2>2, <2>3
<1>7. \/ Before \/ Finish \/ ReturnNone \/ EndAny \/ EndFilter \/ EndCount \/ EndAsk \/ SkipInactive
      \/ EmitAny \/ Translate \/ EmitBest \/ EmitSelected \/ AskAgainRow \/ UNCHANGED vars
    BY DEF Next, AnyNext, AllNext, FirstLastNext, ResidualNext, Before, Finish
<1> QED
    BY <1>1, <1>2, <1>3, <1>4, <1>5, <1>6, <1>7

LEMMA RefineNext == RefineInv /\ [Next]_vars => RefineInv'
<1> SUFFICES ASSUME RefineInv, [Next]_vars PROVE RefineInv'
    OBVIOUS
<1> USE DEF RefineInv
<1>1. AgreeInv' /\ PathsTypeOK'
    BY AgreeNext, TypeNext DEF AgreeInv
<1>2. PolicyInv'
    BY PolicyNext DEF AgreeInv
<1>3. CopyInv'
    BY CopyNext DEF AgreeInv
<1>4. ExtremeInv'
    BY ExtremeNext DEF AgreeInv
<1>5. SelectInv'
    BY SelectNext DEF AgreeInv
<1> QED
    BY <1>1, <1>2, <1>3, <1>4, <1>5, AnswersNext

-----------------------------------------------------------------------------
\* The refinement.

LEMMA RefinesInit == Init => Join!Init
<1> SUFFICES ASSUME Init PROVE Join!Init
    OBVIOUS
<1>1. call \in Call
    BY CallsAssumption DEF Init
<1>2. \A i \in Left : MatchingLabels(i) \in SUBSET Int
    BY <1>1 DEF MatchingLabels, Call
<1>3. Request \in Requests
    BY <1>1, <1>2 DEF Request, Requests, Call
<1>4. Answered = {}
    BY DEF Init, Answered
<1>5. Answer = [i \in Left |-> None]
    BY <1>4 DEF Answer
<1> QED
    BY <1>3, <1>5 DEF Join!Init

LEMMA RefinesNext ==
    ASSUME RefineInv, [Next]_vars
    PROVE  Join!Next
<1>1. Answers' /\ Steady /\ call' = call
    BY AnswersNext, Changes
<1>2. Request' = Request /\ \A i \in Left : MatchingLabels(i)' = MatchingLabels(i)
    BY <1>1 DEF Request, MatchingLabels, Joined, Matches
<1>3. ASSUME NEW i \in Left PROVE Answer'[i] = Answer[i] \/ Join!AnswerRow(i)
    <2>1. CASE \E k \in Answered : left_order[k] = i
        <3>1. PICK k \in Answered : left_order[k] = i
            BY <2>1
        <3>2. k \in Answered' /\ left_order'[k] = i /\ Emitted(i)' = Emitted(i)
            BY <1>1, <3>1 DEF Steady
        <3>3. Answer[i] = Emitted(i)
            BY <3>1 DEF Answer
        <3>4. Answer'[i] = Emitted(i)'
            BY <3>2 DEF Answer
        <3> QED
            BY <3>2, <3>3, <3>4
    <2>2. CASE ~ \E k \in Answered : left_order[k] = i
        <3>1. Answer[i] = None
            BY <2>2 DEF Answer
        <3>2. CASE Answer'[i] # None
            <4>1. PICK k \in Answered' : left_order'[k] = i
                BY <3>2 DEF Answer
            <4>2. Answer'[i] = Emitted(i)'
                BY <4>1 DEF Answer
            <4>3. Allowed(k, Emitted(left_order[k]))'
                BY <1>1, <4>1 DEF Answers, AnswersInv
            <4>4. Answer'[i] \in Join!Permitted(call.keep, MatchingLabels(i))
                BY <1>1, <1>2, <4>1, <4>2, <4>3 DEF Allowed
            <4>5. Request.keep = call.keep /\ Request.matches[i] = MatchingLabels(i)
                BY DEF Request
            <4> QED
                BY <3>1, <3>2, <4>4, <4>5 DEF Join!AnswerRow
        <3> QED
            BY <3>1, <3>2
    <2> QED
        BY <2>1, <2>2
<1> QED
    BY <1>2, <1>3 DEF Join!Next

\* Whatever the paths, the keep policy and the residual predicates: for every call,
\* every column length and every order the sort may give, the passes of the join
\* together implement the abstract one, in which a left row is answered once, and
\* with labels that its policy allows.
THEOREM AnswersAsRangeJoinTheorem == Spec => AnswersAsRangeJoin
<1>1. Init => RefineInv /\ Join!Init
    BY RefineInit, RefinesInit
<1>2. RefineInv /\ [Next]_vars => RefineInv' /\ [Join!Next]_(Join!vars)
    BY RefineNext, RefinesNext
<1> QED
    BY <1>1, <1>2, PTL DEF Spec, AnswersAsRangeJoin, Join!Safety

\* No pair is put out twice (the emitting passes of regions.rs): a row is put out by
\* one step, and the copied positions and the visited slots of a row are all different.
THEOREM NoPairTwiceTheorem == Spec => []NoPairTwice
<1>1. RefineInv => NoPairTwice
    BY DEF RefineInv, Answers
<1> QED
    BY <1>1, RefineInit, RefineNext, PTL DEF Spec
=============================================================================
