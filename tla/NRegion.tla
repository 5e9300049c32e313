------------------------------ MODULE NRegion ------------------------------
(***************************************************************************)
(* The index join over three or more range predicates:                     *)
(* n_region_indices_with_filter_core, and the aggregations over the same   *)
(* candidates, aggregate_n_region_core, with what they call in             *)
(* src/src/conditional_join/regions.rs.                                    *)
(*                                                                         *)
(* Every predicate gives labels as in RegionPaths.  A row with label 0 in  *)
(* one dimension gets 0 in all of them.  The candidates, the pairs whose   *)
(* left labels are at most the right ones, come from one of two            *)
(* generators: the sweep of the dual-region join over the first two        *)
(* dimensions with the others compared, or a k-d tree (module              *)
(* RegionKdTree) over one side, queried by the rows of the other.  A count *)
(* of the sweep's work, or a probe of a few rows, decides which.  Residual *)
(* predicates are asked of every candidate.                                *)
(*                                                                         *)
(* The order in which a generator hands over the candidates of one row is  *)
(* left open.  What an aggregation does with the pairs it is given is in   *)
(* AggregationState.                                                       *)
(***************************************************************************)
EXTENDS RegionPaths, Sequences, FiniteSetsExt

CONSTANTS
    SampleRows,     \* KEEP_ANY_PROBE_SAMPLE_ROWS: 16 in the code
    SampleWidth,    \* KEEP_ANY_PROBE_CANDIDATE_BUDGET: 128 in the code
    Calls,          \* the calls considered
    None

Keeps == {"all", "any", "first", "last"}

Entries == {"index", "aggregate", "aggregate_reverse"}

\* windows: a boundary function for every range predicate; aligners: one for
\* every predicate but the first; requests: the lengths of the arrays to be
\* aggregated.  limit: the budget of the sweep, 64 times the rows in the code;
\* left_smaller: how the lengths of the two sides compare; residual: the pairs
\* the residual predicates accept.
Call(c) ==
    /\ DOMAIN c = {"entry", "keep", "windows", "aligners", "requests", "right_index",
                   "residual", "limit", "left_smaller"}
    /\ c.entry \in Entries /\ c.keep \in Keeps
    /\ c.windows \in Seq(Boundaries) /\ c.windows # <<>>
    /\ DOMAIN c.aligners = 1 .. Len(c.aligners)
    /\ \A n \in DOMAIN c.aligners : c.aligners[n] \in Permutations(DOMAIN c.aligners[n])
    /\ c.requests \in Seq(Nat)
    /\ c.right_index \in [Right -> Int]
    /\ c.residual \in SUBSET (Left \X Right)
    /\ c.limit \in Nat /\ c.left_smaller \in BOOLEAN
    /\ c.entry # "index" => c.keep = "all"

ASSUME NRegionAssumption ==
    /\ SampleRows \in Nat /\ SampleWidth \in Nat
    /\ \A c \in Calls : Call(c)
    /\ None \notin Left \union Right /\ None \notin {"sweep", "left", "right"}

VARIABLES
    call,           \* arguments; never changes
    pc,             \* the loop that runs, or how the call returned
    left, right,    \* labels by dimension and row
    left_order,     \* search position -> original left row
    starts,         \* window start of every search position, first dimension
    generator,      \* "sweep", or the tree over the "right" or the "left" rows
    total,          \* candidates of the sweep counted so far
    previous_end,   \* right rows from here on have been opened
    maxima,         \* largest label opened so far, by dimension
    outer,          \* the row whose candidates are visited
    candidates,     \* those not yet visited
    selected,       \* the right row chosen for each search position
    match_counts,   \* matches per search position, first pass
    second_counts,  \* and second pass
    left_output, right_output

pathVars  == <<call, left, right, left_order, starts>>
planVars  == <<generator, total>>
sweepVars == <<previous_end, maxima, outer, candidates>>
countVars == <<match_counts, second_counts>>
outVars   == <<left_output, right_output>>
vars == <<pathVars, pc, planVars, sweepVars, selected, countVars, outVars>>

\* The dimensions: the range predicates.
Axes == DOMAIN call.windows

\* Where a global right row stands in the right column of predicate d.
Aligned(d, j) == IF d = 1 THEN j ELSE call.aligners[d - 1][j]

-----------------------------------------------------------------------------
\* The entry points.

Aggregating == call.entry # "index"

\* At least three predicates, and an aligner of the right length for every one
\* but the first.
WellFormed ==
    /\ Len(call.windows) >= 3
    /\ Len(call.aligners) = Len(call.windows) - 1
    /\ \A n \in DOMAIN call.aligners : DOMAIN call.aligners[n] = Right

\* "at least one aggregation is required"
Enter ==
    /\ pc = "enter"
    /\ pc' = IF WellFormed /\ (Aggregating => call.requests # <<>>) THEN "paths" ELSE "refused"
    /\ UNCHANGED <<pathVars, planVars, sweepVars, selected, countVars, outVars>>

\* The arrays come from the side that is not put out, and must have its length.
SourceLen == IF call.entry = "aggregate_reverse" THEN LeftLen ELSE RightLen

\* AggregationSet::new, once there are paths.
OpenSet ==
    /\ pc = "open"
    /\ pc' = IF \A n \in DOMAIN call.requests : call.requests[n] = SourceLen
             THEN "feed" ELSE "refused"
    /\ UNCHANGED <<pathVars, planVars, sweepVars, selected, countVars, outVars>>

-----------------------------------------------------------------------------
\* Preparation.

\* Clears nothing: a row keeps its other labels.
Unmasked(labels, rows) == labels

\* mask_zero_regions: a row with a 0 gets 0 in every dimension.
MaskZero(labels, rows) ==
    [d \in Axes |-> [x \in rows |->
        IF \E e \in Axes : labels[e][x] = 0 THEN 0 ELSE labels[d][x]]]

AllZero(labels, rows) == \A x \in rows : labels[1][x] = 0

BuildPaths ==
    /\ pc = "paths" /\ \A d \in Axes : ~NoWindow(call.windows[d])
    /\ left' = [d \in Axes |-> LeftLabels(call.windows[d])]
    /\ right' = [d \in Axes |-> [j \in Right |->
            RightLabels(call.windows[d])[Aligned(d, j)]]]
    /\ pc' = "left"
    /\ UNCHANGED <<call, left_order, starts, planVars, sweepVars, selected,
                   countVars, outVars>>

\* Orders that descend by the first left label.
DescendingOrders(labels) ==
    { order \in Permutations(Left) :
        \A i, k \in Left : i < k => labels[order[i]] >= labels[order[k]] }

\* All dimensions are put in one search order.
OrderLeft ==
    /\ pc = "left" /\ ~AllZero(MaskZero(left, Left), Left)
    /\ \E order \in DescendingOrders(MaskZero(left, Left)[1]) :
        /\ left_order' = order
        /\ left' = [d \in Axes |-> [i \in Left |-> MaskZero(left, Left)[d][order[i]]]]
    /\ pc' = "starts"
    /\ UNCHANGED <<call, right, starts, planVars, sweepVars, selected,
                   countVars, outVars>>

StartOf(i) ==
    IF left[1][i] = 0 THEN RightLen ELSE PartitionPoint(right[1], left[1][i])

\* Starts are searched in the labels before the right mask breaks their order.
FindStarts ==
    /\ pc = "starts" /\ \E i \in Left : StartOf(i) < RightLen
    /\ starts' = [i \in Left |-> StartOf(i)]
    /\ pc' = "right"
    /\ UNCHANGED <<call, left, right, left_order, planVars, sweepVars, selected,
                   countVars, outVars>>

MaskRight ==
    /\ pc = "right" /\ ~AllZero(MaskZero(right, Right), Right)
    /\ right' = MaskZero(right, Right)
    /\ pc' = IF call.keep = "any" THEN "probe" ELSE "plan"
    /\ UNCHANGED <<call, left, left_order, starts, planVars, sweepVars, selected,
                   countVars, outVars>>

ReturnNone ==
    /\ \/ pc = "paths"  /\ \E d \in Axes : NoWindow(call.windows[d])
       \/ pc = "left"   /\ AllZero(MaskZero(left, Left), Left)
       \/ pc = "starts" /\ \A i \in Left : StartOf(i) = RightLen
       \/ pc = "right"  /\ AllZero(MaskZero(right, Right), Right)
    /\ pc' = "none"
    /\ UNCHANGED <<pathVars, planVars, sweepVars, selected, countVars, outVars>>

-----------------------------------------------------------------------------
\* The choice of a generator.

\* Back to the first row, with the windows of the last walk still open.
RewindRows == UNCHANGED previous_end /\ outer' = 0

Rewind == previous_end' = RightLen /\ outer' = 0

\* The window of the row is opened; the starts may not grow again.
Open(row, next) ==
    /\ previous_end' = starts[row]
    /\ pc' = IF starts[row] > previous_end THEN "error" ELSE next

\* What follows the choice of a generator.
FirstPass ==
    IF Aggregating THEN "open" ELSE IF call.keep = "all" THEN "count" ELSE "select"

\* Evenly spaced rows of the search order.
Sampled ==
    LET count == Min({LeftLen, SampleRows})
    IN  {(s * LeftLen) \div count : s \in 0 .. count - 1}

Tried == {i \in Sampled : starts[i] < RightLen}

\* A complete match within the first few rows of the window.
Hit(i) ==
    \E j \in starts[i] .. Min({RightLen, starts[i] + SampleWidth}) - 1 :
        \A d \in Axes \ {1} : left[d][i] <= right[d][j]

\* sweep_finds_early_match, for keep="any" only.
Probe ==
    /\ pc = "probe"
    /\ IF Tried # {} /\ Cardinality({i \in Tried : Hit(i)}) * 2 >= Cardinality(Tried)
       THEN generator' = "sweep" /\ pc' = FirstPass
       ELSE pc' = "plan" /\ UNCHANGED generator
    /\ UNCHANGED <<pathVars, total, sweepVars, selected, countVars, outVars>>

\* Counts the rows of the last window only.
JustOpened(row) ==
    {j \in starts[row] .. previous_end - 1 : right[2][j] # 0 /\ left[2][row] <= right[2][j]}

\* The right rows opened that reach the row in the second dimension.
InSecond(row) ==
    {j \in starts[row] .. RightLen - 1 : right[2][j] # 0 /\ left[2][row] <= right[2][j]}

SweepWork(row) == Cardinality(InSecond(row))

\* A row of sweep_candidate_count_exceeds; inactive rows are stepped over.
PlanRow ==
    /\ pc = "plan" /\ outer < LeftLen
    /\ IF starts[outer] = RightLen
       THEN UNCHANGED <<pc, total, previous_end>>
       ELSE /\ total' = total + (IF left[2][outer] = 0 THEN 0 ELSE SweepWork(outer))
            /\ Open(outer, IF total' > call.limit THEN "tree" ELSE "plan")
    /\ outer' = outer + 1
    /\ UNCHANGED <<pathVars, generator, maxima, candidates, selected, countVars,
                   outVars>>

PlanSweep ==
    /\ pc = "plan" /\ outer = LeftLen
    /\ generator' = "sweep"
    /\ pc' = FirstPass
    /\ Rewind
    /\ UNCHANGED <<pathVars, total, maxima, candidates, selected, countVars, outVars>>

\* The budget is spent: a tree over the smaller side, over the right one if
\* visits must be able to stop.
PlanTree ==
    /\ pc = "tree"
    /\ generator' = IF call.keep # "any" /\ call.left_smaller THEN "left" ELSE "right"
    /\ pc' = FirstPass
    /\ Rewind
    /\ UNCHANGED <<pathVars, total, maxima, candidates, selected, countVars, outVars>>

-----------------------------------------------------------------------------
\* The visit of all candidates, common to the passes.

Passes == {"select", "count", "emit", "feed"}

OuterRows == IF generator = "left" THEN Right ELSE Left

Dominated(i, j) == \A d \in Axes : left[d][i] <= right[d][j]

\* The tree's answer to the outer row; a label 0 matches nothing.
TreeAnswer ==
    IF generator = "right"
    THEN {j \in Right : left[1][outer] # 0 /\ Dominated(outer, j)}
    ELSE {i \in Left : left[1][i] # 0 /\ right[1][outer] # 0 /\ Dominated(i, outer)}

QueryTree ==
    /\ pc \in Passes /\ generator # "sweep" /\ outer \in OuterRows
    /\ candidates = {}
    /\ candidates' = TreeAnswer
    /\ outer' = outer + 1
    /\ UNCHANGED <<pathVars, pc, planVars, previous_end, maxima, selected,
                   countVars, outVars>>

SkipInactive ==
    /\ pc \in Passes /\ generator = "sweep" /\ outer < LeftLen
    /\ candidates = {} /\ starts[outer] = RightLen
    /\ outer' = outer + 1
    /\ UNCHANGED <<pathVars, pc, planVars, previous_end, maxima, candidates,
                   selected, countVars, outVars>>

Raised ==
    [d \in Axes |->
        Max({maxima[d]} \union {right[d][j] : j \in starts[outer] .. previous_end - 1})]

\* Some maximum is below the row's label: no candidate can pass.
Hopeless(maximum) == \E d \in Axes : left[d][outer] > maximum[d]

SweepAnswer == {j \in InSecond(outer) : \A d \in Axes \ {1, 2} : left[d][outer] <= right[d][j]}

\* The row's window is opened before it is known whether the row has a chance.
SweepRow ==
    /\ pc \in Passes /\ generator = "sweep" /\ outer < LeftLen
    /\ candidates = {} /\ starts[outer] < RightLen
    /\ maxima' = Raised
    /\ candidates' = IF Hopeless(maxima') THEN {} ELSE SweepAnswer
    /\ outer' = outer + 1
    /\ Open(outer, pc)
    /\ UNCHANGED <<pathVars, planVars, selected, countVars, outVars>>

\* The pair a candidate stands for: the outer row has been counted already.
Pair(c) ==
    IF generator = "left" THEN [i |-> c, j |-> outer - 1] ELSE [i |-> outer - 1, j |-> c]

Accepted(p) == <<left_order[p.i], p.j>> \in call.residual

\* The rest of the row's candidates, unless the callback asked for no more; the
\* left tree goes on, for the sake of other left rows.
GoOn(c, enough) ==
    candidates' = IF enough /\ generator # "left" THEN {} ELSE candidates \ {c}

Reject ==
    /\ pc \in Passes
    /\ \E c \in candidates : ~Accepted(Pair(c)) /\ GoOn(c, FALSE)
    /\ UNCHANGED <<pathVars, pc, planVars, previous_end, maxima, outer, selected,
                   countVars, outVars>>

\* A candidate replaces the selected row.
Preferred(p) ==
    \/ call.keep = "any" \/ selected[p.i] = None
    \/ call.keep = "first" /\ call.right_index[p.j] < call.right_index[selected[p.i]]
    \/ call.keep = "last"  /\ call.right_index[p.j] > call.right_index[selected[p.i]]

Select ==
    /\ pc = "select"
    /\ \E c \in candidates :
        /\ Accepted(Pair(c))
        /\ GoOn(c, call.keep = "any")
        /\ selected' = IF Preferred(Pair(c))
                       THEN [selected EXCEPT ![Pair(c).i] = Pair(c).j] ELSE selected
    /\ UNCHANGED <<pathVars, pc, planVars, previous_end, maxima, outer,
                   countVars, outVars>>

Count ==
    /\ pc = "count"
    /\ \E c \in candidates :
        /\ Accepted(Pair(c)) /\ GoOn(c, FALSE)
        /\ match_counts' = [match_counts EXCEPT ![Pair(c).i] = @ + 1]
    /\ UNCHANGED <<pathVars, pc, planVars, previous_end, maxima, outer, selected,
                   second_counts, outVars>>

Emit ==
    /\ pc = "emit"
    /\ \E c \in candidates :
        /\ Accepted(Pair(c)) /\ GoOn(c, FALSE)
        /\ second_counts' = [second_counts EXCEPT ![Pair(c).i] = @ + 1]
        /\ left_output' = Append(left_output, left_order[Pair(c).i])
        /\ right_output' = Append(right_output, call.right_index[Pair(c).j])
    /\ UNCHANGED <<pathVars, pc, planVars, previous_end, maxima, outer, selected,
                   match_counts>>

\* The slot that a pair is aggregated into, and the row that supplies the value.
Contribution(p) ==
    IF call.entry = "aggregate_reverse" THEN <<p.j, left_order[p.i]>>
    ELSE <<left_order[p.i], p.j>>

\* The rows of the caller's arrays, not the search order, are given on.
Feed ==
    /\ pc = "feed"
    /\ \E c \in candidates :
        /\ Accepted(Pair(c)) /\ GoOn(c, FALSE)
        /\ left_output' = Append(left_output, Contribution(Pair(c))[1])
        /\ right_output' = Append(right_output, Contribution(Pair(c))[2])
    /\ UNCHANGED <<pathVars, pc, planVars, previous_end, maxima, outer, selected,
                   countVars>>

-----------------------------------------------------------------------------
\* The end of a pass.

Visited(pass) == pc = pass /\ candidates = {} /\ outer \notin OuterRows

EndSelect ==
    /\ Visited("select")
    /\ pc' = IF \A i \in Left : selected[i] = None THEN "none" ELSE "output"
    /\ Rewind
    /\ UNCHANGED <<pathVars, planVars, maxima, candidates, selected, countVars, outVars>>

OutputRow ==
    /\ pc = "output" /\ outer < LeftLen
    /\ IF selected[outer] = None
       THEN UNCHANGED outVars
       ELSE /\ left_output' = Append(left_output, left_order[outer])
            /\ right_output' = Append(right_output, call.right_index[selected[outer]])
    /\ outer' = outer + 1
    /\ UNCHANGED <<pathVars, pc, planVars, previous_end, maxima, candidates,
                   selected, countVars>>

EndOutput ==
    /\ pc = "output" /\ outer = LeftLen
    /\ pc' = "done"
    /\ UNCHANGED <<pathVars, planVars, sweepVars, selected, countVars, outVars>>

\* Every visit starts with maxima of its own.
NothingOpened == [d \in Axes |-> 0]

EndCount ==
    /\ Visited("count")
    /\ pc' = IF \A i \in Left : match_counts[i] = 0 THEN "none" ELSE "emit"
    /\ maxima' = NothingOpened
    /\ Rewind
    /\ UNCHANGED <<pathVars, planVars, candidates, selected, countVars, outVars>>

\* "second pass count disagrees with first pass"
EndEmit ==
    /\ Visited("emit")
    /\ pc' = IF second_counts # match_counts THEN "error" ELSE "done"
    /\ UNCHANGED <<pathVars, planVars, sweepVars, selected, countVars, outVars>>

\* No slot was updated, or the results are made.
EndFeed ==
    /\ Visited("feed")
    /\ pc' = IF left_output = <<>> THEN "none" ELSE "done"
    /\ UNCHANGED <<pathVars, planVars, sweepVars, selected, countVars, outVars>>

-----------------------------------------------------------------------------

ZeroLabels(rows) == [d \in Axes |-> [x \in rows |-> 0]]

Init ==
    /\ call \in Calls
    /\ pc = "enter"
    /\ left = ZeroLabels(Left)
    /\ right = ZeroLabels(Right)
    /\ left_order = [i \in Left |-> i]
    /\ starts = [i \in Left |-> RightLen]
    /\ generator = None
    /\ total = 0
    /\ previous_end = RightLen
    /\ maxima = NothingOpened
    /\ outer = 0
    /\ candidates = {}
    /\ selected = [i \in Left |-> None]
    /\ match_counts = [i \in Left |-> 0]
    /\ second_counts = [i \in Left |-> 0]
    /\ left_output = <<>>
    /\ right_output = <<>>

EntryNext == Enter \/ OpenSet

PathsNext == BuildPaths \/ OrderLeft \/ FindStarts \/ MaskRight \/ ReturnNone

PlanNext == Probe \/ PlanRow \/ PlanSweep \/ PlanTree

VisitNext == QueryTree \/ SkipInactive \/ SweepRow \/ Reject \/ Select \/ Count \/ Emit \/ Feed

EndNext == EndSelect \/ OutputRow \/ EndOutput \/ EndCount \/ EndEmit \/ EndFeed

Next == EntryNext \/ PathsNext \/ PlanNext \/ VisitNext \/ EndNext

Spec == Init /\ [][Next]_vars /\ WF_vars(Next)

-----------------------------------------------------------------------------
\* What the join promises.

InWindow(d, i, j) == call.windows[d][i] <= Aligned(d, j)

\* The pair satisfies every range predicate and the residual ones.
Matches(i, j) == <<i, j>> \in call.residual /\ \A d \in Axes : InWindow(d, i, j)

\* Labels of right rows for an index join, their positions for an aggregation.
Named(j) == IF Aggregating THEN j ELSE call.right_index[j]

MatchingLabels(i) == {Named(j) : j \in {k \in Right : Matches(i, k)}}

\* The n-th pair put out, left row first.
PairAt(n) ==
    IF call.entry = "aggregate_reverse" THEN <<right_output[n], left_output[n]>>
    ELSE <<left_output[n], right_output[n]>>

Places(i) == {n \in DOMAIN left_output : PairAt(n)[1] = i}

Emitted(i) == {PairAt(n)[2] : n \in Places(i)}

\* A row that gives a pair twice has not been answered.
EachOnce(i) == Cardinality(Places(i)) = Cardinality(Emitted(i))

Answer ==
    [i \in Left |-> IF pc \in {"none", "done", "refused"} /\ EachOnce(i) THEN Emitted(i)
                    ELSE None]

\* Other calls are refused, or answered with nothing, and promise nothing.
Valid ==
    /\ WellFormed
    /\ Aggregating => /\ call.requests # <<>>
                      /\ \A n \in DOMAIN call.requests : call.requests[n] = SourceLen

Request ==
    [keep |-> call.keep,
     matches |-> [i \in Left |-> IF Valid THEN MatchingLabels(i) ELSE {}]]

Requests == [keep: Keeps, matches: [Left -> SUBSET Int]]

Join == INSTANCE RangeJoin
            WITH Rows <- Left, Pending <- None, request <- Request, answer <- Answer

\* Whatever generator is chosen and in whatever order it hands over the
\* candidates, the call answers as the join promises, and returns.  An
\* aggregation is given every matching pair once, in either direction: "the
\* k-d tree changes how candidates are found, not which pairs contribute".
ImplementsRangeJoin == Join!Spec

\* The two passes of keep="all" visit the same candidates, although the second
\* sweeps or queries anew, and the starts never grow in any visit.
PassesAgree == pc # "error"

\* The pairs the sweep would look at: rows in play, in both first windows.
SweepPairs ==
    { p \in Left \X Right :
        /\ \A d \in Axes : call.windows[d][p[1]] < RightLen
        /\ \A d \in Axes : \E i \in Left : InWindow(d, i, p[2])
        /\ InWindow(1, p[1], p[2]) /\ InWindow(2, p[1], p[2]) }

\* The work that decides is the work there is: without a probe, the sweep runs
\* exactly when the pairs it would look at are within the budget.
PlanIsExact ==
    /\ generator \in {"left", "right"} => Cardinality(SweepPairs) > call.limit
    /\ generator = "sweep" /\ call.keep # "any" => Cardinality(SweepPairs) <= call.limit
=============================================================================
