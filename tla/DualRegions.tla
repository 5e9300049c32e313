---------------------------- MODULE DualRegions ----------------------------
(***************************************************************************)
(* The state of a dual-region index join and the preparation of its paths: *)
(* build_dual_region_paths and first_region_starts in                      *)
(* src/src/conditional_join/regions.rs.                                    *)
(*                                                                         *)
(* Two range predicates are reduced to labels (module RegionPaths).  The   *)
(* first path fixes the right order and, for every left row, where its     *)
(* window starts; the second path decides inside the window.  Left rows    *)
(* are then visited by descending first label, so that the window only     *)
(* grows leftward and every right row is opened once.  The passes that do  *)
(* so are in KeepAny, RegionLayout, LayoutPasses and ResidualPasses.       *)
(*                                                                         *)
(* A call is given by the boundaries of its predicates, each in the order  *)
(* of its own right column; RegionLabels shows that they and the values    *)
(* are interchangeable.  left_index is the identity: a left label names    *)
(* the row the caller put there.                                           *)
(***************************************************************************)
EXTENDS RegionPaths, Sequences

CONSTANTS
    Calls,      \* the calls considered
    None        \* the absent value of an Option

VARIABLES
    call,               \* arguments; never changes
    pc,                 \* the loop that runs, or how the call returned
    first, second,      \* the region paths: [left, right] labels
    left_order,         \* search position -> original left row
    starts,             \* window start of every search position
    row,                \* the left row the running pass visits
    previous_end,       \* right rows from here on have been opened
    match_count,        \* left rows with a match, from the first pass
    left_has_match,     \* which those are
    max_right_region,   \* largest second label opened so far
    max_right_position, \* where it was first seen
    selected,           \* keep="any": the position chosen for each row
    rank,               \* the label rank a row's inner loop visits
    active_totals,      \* right rows per rank that any window opens
    layout_offsets,     \* where each rank's slice of layout_positions begins
    layout_positions,   \* right positions grouped by rank, in opening order
    position_counts,    \* how far each slice is filled while it is laid out
    active_counts,      \* right rows per rank opened by the running pass
    matches,            \* matches of the row being counted
    left_match_counts,  \* matches per search position
    total_size,         \* their sum
    offsets,            \* where each row's output begins
    output_position,    \* next slot of positions
    positions,          \* keep="all": matched right positions, by row
    active_best,        \* keep="first"/"last": best label opened per rank
    left_output, right_output

pathVars   == <<call, first, second, left_order, starts>>
sweepVars  == <<row, previous_end>>
filterVars == <<match_count, left_has_match, max_right_region>>
anyVars    == <<max_right_position, selected>>
layoutVars == <<active_totals, layout_offsets, layout_positions, position_counts>>
countVars  == <<matches, left_match_counts, total_size>>
emitVars   == <<offsets, output_position, positions>>
outVars    == <<left_output, right_output>>
passVars   == <<filterVars, anyVars, layoutVars, rank, active_counts, countVars,
                emitVars, active_best, outVars>>
vars       == <<pathVars, pc, sweepVars, passVars>>

Keeps == {"all", "any", "first", "last"}

\* has_residuals: which of the two entry points is called; residual: the pairs
\* the residual predicates accept.
Call == [keep: Keeps, first: Boundaries, second: Boundaries,
         alignment: Permutations(Right), right_index: [Right -> Int],
         has_residuals: BOOLEAN, residual: SUBSET (Left \X Right)]

ASSUME CallsAssumption == \A c \in Calls : c \in Call
ASSUME NoneAssumption == None \notin Int

\* Below every label, as i64::MIN is.
BelowLabels == -1

-----------------------------------------------------------------------------
\* Preparation.

\* A left row the first predicate excluded is not searched again.
SecondBoundaries ==
    [i \in Left |-> IF first.left[i] = 0 THEN RightLen ELSE call.second[i]]

\* The aligner read backwards: global positions as sources.
SecondRightScattered ==
    [j \in Right |->
        IF first.right[j] = 0 THEN 0
        ELSE RightLabels(SecondBoundaries)[
                CHOOSE s \in Right : call.alignment[s] = j]]

\* The second right labels in global order, cleared where the first are zero.
SecondRight ==
    [j \in Right |-> IF first.right[j] = 0 THEN 0
                     ELSE RightLabels(SecondBoundaries)[call.alignment[j]]]

BuildFirst ==
    /\ pc = "first" /\ ~NoWindow(call.first)
    /\ first' = [left |-> LeftLabels(call.first), right |-> RightLabels(call.first)]
    /\ pc' = "second"
    /\ UNCHANGED <<call, second, left_order, starts, sweepVars, passVars>>

BuildSecond ==
    /\ pc = "second" /\ ~NoWindow(SecondBoundaries)
    /\ second' = [left |-> LeftLabels(SecondBoundaries), right |-> SecondRight]
    /\ pc' = "order"
    /\ UNCHANGED <<call, first, left_order, starts, sweepVars, passVars>>

\* A comparator the wrong way round.
AscendingOrders ==
    { order \in Permutations(Left) :
        \A i, k \in Left : i < k => first.left[order[i]] <= first.left[order[k]] }

\* sort_unstable_by: any order that descends by first label.
DescendingOrders ==
    { order \in Permutations(Left) :
        \A i, k \in Left : i < k => first.left[order[i]] >= first.left[order[k]] }

\* Both left paths are put in search order; left_order leads back.
OrderLeft ==
    /\ pc = "order"
    /\ \E order \in DescendingOrders :
        /\ left_order' = order
        /\ first'  = [first  EXCEPT !.left = [i \in Left |-> first.left[order[i]]]]
        /\ second' = [second EXCEPT !.left = [i \in Left |-> second.left[order[i]]]]
    /\ pc' = "starts"
    /\ UNCHANGED <<call, starts, sweepVars, passVars>>

\* Skips the ties of the row's own label.
StartBeyond(i) ==
    IF first.left[i] = 0 \/ second.left[i] = 0
    THEN RightLen
    ELSE PartitionPoint(first.right, first.left[i] + 1)

\* RightLen when either label is zero, because such a row has no match.
StartOf(i) ==
    IF first.left[i] = 0 \/ second.left[i] = 0
    THEN RightLen
    ELSE PartitionPoint(first.right, first.left[i])

\* The pass the keep policy runs first.
FirstPass == IF call.keep = "any" /\ ~call.has_residuals THEN "any" ELSE "filter"

FindStarts ==
    /\ pc = "starts"
    /\ \E i \in Left : StartOf(i) < RightLen
    /\ starts' = [i \in Left |-> StartOf(i)]
    /\ pc' = FirstPass
    /\ UNCHANGED <<call, first, second, left_order, sweepVars, passVars>>

\* One of the paths or all of the windows came out empty.
ReturnNone ==
    /\ \/ pc = "first" /\ NoWindow(call.first)
       \/ pc = "second" /\ NoWindow(SecondBoundaries)
       \/ pc = "starts" /\ \A i \in Left : StartOf(i) = RightLen
    /\ pc' = "none"
    /\ UNCHANGED <<pathVars, sweepVars, passVars>>

-----------------------------------------------------------------------------
\* The sweep, common to every pass over the left rows.

Sweeps == {"any", "filter", "totals", "place", "count", "emit", "best", "ask", "ask_again"}

\* The row has no window: every pass steps over it.
Inactive == starts[row] = RightLen

SkipInactive ==
    /\ pc \in Sweeps /\ row < LeftLen
    /\ Inactive
    /\ row' = row + 1
    /\ UNCHANGED <<pathVars, pc, previous_end, passVars>>

\* An active row of the running pass.
Sweeping(pass) == pc = pass /\ row < LeftLen /\ ~Inactive

\* The pass is through.
Swept(pass) == pc = pass /\ row = LeftLen

\* The right rows this row's window adds to those already opened.
Opened == starts[row] .. previous_end - 1

\* Takes the window for a closed interval.
AdvancePast(next) ==
    /\ previous_end' = starts[row] - 1
    /\ pc' = IF starts[row] > previous_end THEN "error" ELSE next

\* The row's window is open and the pass goes on to `next`, unless "starts
\* must be monotonically non-increasing": the call then fails, and what else
\* the step computed is dropped with the locals.
Advance(next) ==
    /\ previous_end' = starts[row]
    /\ pc' = IF starts[row] > previous_end THEN "error" ELSE next

\* Back to the first row, with the windows of the last pass still open.
RewindRow == row' = 0 /\ UNCHANGED previous_end

\* A pass over the left rows begins.
Rewind == row' = 0 /\ previous_end' = RightLen

\* compress_region_labels: the distinct nonzero labels, ascending, and the
\* rank of a label among them (its dense table and its map agree).
Labels == {second.right[j] : j \in Right} \ {0}

RankOf(label) == Cardinality({l \in Labels : l < label})

RankCount == Cardinality(Labels)

\* usize::MAX marks a right row without a label.
NoRank == -1

\* Masked rows share the first rank instead of having none.
RankUnmasked(j) == RankOf(second.right[j])

Rank(j) == IF second.right[j] = 0 THEN NoRank ELSE RankOf(second.right[j])

\* The right rows of one rank among a set of positions.
OfRank(S, r) == {j \in S : Rank(j) = r}

\* The first rank beyond the row's own label.
FirstRankBeyond == Cardinality({l \in Labels : l <= second.left[row]})

\* The first rank whose label reaches the row's.
FirstRank == RankOf(second.left[row])

\* The second pass must yield as many pairs as the first one counted.
Compare(count) == pc' = IF Len(left_output) # count THEN "error" ELSE "done"

-----------------------------------------------------------------------------

Zero(S) == [x \in S |-> 0]

Init ==
    /\ call \in Calls
    /\ pc = "first"
    /\ first = [left |-> Zero(Left), right |-> Zero(Right)]
    /\ second = [left |-> Zero(Left), right |-> Zero(Right)]
    /\ left_order = [i \in Left |-> i]
    /\ starts = [i \in Left |-> RightLen]
    /\ row = 0
    /\ previous_end = RightLen
    /\ match_count = 0
    /\ left_has_match = [i \in Left |-> FALSE]
    /\ max_right_region = BelowLabels
    /\ max_right_position = None
    /\ selected = [i \in Left |-> None]
    /\ rank = 0
    /\ active_totals = Zero(Right)
    /\ layout_offsets = Zero(Right)
    /\ layout_positions = <<>>
    /\ position_counts = Zero(Right)
    /\ active_counts = Zero(Right)
    /\ matches = 0
    /\ left_match_counts = Zero(Left)
    /\ total_size = 0
    /\ offsets = Zero(Left)
    /\ output_position = 0
    /\ positions = <<>>
    /\ active_best = [r \in Right |-> None]
    /\ left_output = <<>>
    /\ right_output = <<>>
=============================================================================
