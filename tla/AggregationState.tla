-------------------------- MODULE AggregationState --------------------------
(***************************************************************************)
(* The state of an aggregation call and the ways in which the accumulators *)
(* are filled when every left row has one window and nothing more is asked *)
(* of its pairs (the six bulk methods of src/src/aggregation/state.rs).    *)
(*                                                                         *)
(* A window always belongs to a left row and covers right rows.  Forward,  *)
(* left rows are the output slots and right rows the source; in reverse    *)
(* left rows are the source and right rows the slots.                      *)
(***************************************************************************)
EXTENDS RangeWindows, AggregationSets

CONSTANTS
    DirectQueries,  \* MAX_DIRECT_QUERY_COUNT: 3 in the code
    RunningFactor,  \* RUNNING_WORK_FACTOR: 3 in the code
    PrefixFactor,   \* what a query adds to the cost of a prefix table: 2 in the code
    TreeBuild,      \* what a packed row adds to the cost of a tree: 5 in the code
    TreeQuery,      \* what a query adds to it per level: 2 in the code
    Calls,          \* the calls considered
    None

ASSUME AggregationAssumption ==
    /\ {DirectQueries, RunningFactor, PrefixFactor, TreeBuild, TreeQuery} \subseteq Nat
    /\ None \notin Int

VARIABLES
    call,               \* arguments; never changes
    pc,                 \* the loop that runs, or how the call returned
    row,                \* where it stands
    windows,            \* the windows found: [row, start, end]
    ranges,             \* per left row its window, None if it has no rows
    plan,               \* how the ranges are summed up
    next,               \* the operation that is filled
    left_position,      \* the left row whose pairs are fed,
    found,              \* and the right rows it still has to be paired with
    set,                \* the accumulators
    tree,               \* a rank tree
    arriving,           \* the source rows it is about to take
    insertion_order,    \* the source rows in the order the tree takes them
    queries, bin_ends,  \* its queries, by how many rows have been taken
    bin,                \* the bin that is answered
    inserted,           \* the rows taken so far
    paths,              \* dual regions: labels, left order and window starts
    left_has_match,     \* the left rows that match
    previous_end,       \* right rows from here on have been opened
    active_counts       \* and how many of each label rank

fillVars   == <<ranges, plan, next>>
pairVars   == <<left_position, found>>
treeVars   == <<tree, arriving>>
sweepVars  == <<insertion_order, queries, bin_ends, bin, inserted>>
regionVars == <<paths, left_has_match, previous_end, active_counts>>
vars == <<call, pc, row, windows, fillVars, pairVars, set, treeVars, sweepVars, regionVars>>

SourceLen == IF call.reverse THEN LeftLen ELSE RightLen
OutputLen == IF call.reverse THEN RightLen ELSE LeftLen

Fits == call.inputs # <<>> /\ Aligned(call.inputs, SourceLen)

\* The pair of left row i and right row j as an update.
Pair(i, j) == IF call.reverse THEN [source |-> i, output |-> j] ELSE [source |-> j, output |-> i]

Survives(i, j) == \A n \in DOMAIN call.residuals : Accepts(call.residuals[n], i, j)

-----------------------------------------------------------------------------
\* Windows become ranges.

\* A window without rows is no range.
RangeOf(w) == IF w.start < w.end /\ w.end <= RightLen THEN Interval(w) ELSE None

Windowed == {i \in Left : ranges[i] # None}

\* The left rows whose range covers right row j.
Covering(j) == {i \in Windowed : j \in Slots(ranges[i])}

\* Ranges, and the slots that they mark.
Bound ==
    /\ pc = "bound"
    /\ ranges' = [i \in Left |->
        IF \E n \in DOMAIN windows : windows[n].row = i
        THEN RangeOf(CHOOSE w \in ToSet(windows) : w.row = i)
        ELSE None]
    /\ set' = Mark(set,
        LET rows == {i \in Left : ranges'[i] # None}
        IN  IF call.reverse THEN UNION {Slots(ranges'[i]) : i \in rows} ELSE rows)
    /\ pc' = "choose"
    /\ UNCHANGED <<call, row, windows, plan, next, pairVars, treeVars, sweepVars, regionVars>>

-----------------------------------------------------------------------------
\* Plans (adaptive in src/src/aggregation/common.rs).

RangeWidth(i) == ranges[i].end - ranges[i].start

TotalWidth == MapThenSumSet(RangeWidth, Windowed)

\* usize::BITS - (n - 1).leading_zeros(): the levels above n leaves.
Height(n) == CHOOSE h \in 0 .. n : 2 ^ h >= n /\ (h = 0 \/ 2 ^ (h - 1) < n)

\* What may be used besides going from row to row: a table over all right rows, a
\* prefix table over the packed rows, a segment tree over them.
PlanFor(width, spans) ==
    LET packed == LengthOf(spans)
        many == LeftLen > DirectQueries
    IN  [ spans |-> spans,
          running |-> many /\ width > RightLen * RunningFactor,
          prefix |-> many /\ packed > 0 /\ width > packed + LeftLen * PrefixFactor,
          tree |-> many /\ packed > 0
                   /\ width > packed * TreeBuild + LeftLen * Height(packed) * TreeQuery ]

Choose ==
    /\ pc = "choose"
    /\ \E spans \in {Laid(SpansOf({ranges[i] : i \in Windowed}))} :
        plan' = PlanFor(TotalWidth, spans)
    /\ pc' = "fill" /\ next' = 1
    /\ UNCHANGED <<call, row, windows, ranges, pairVars, set, treeVars, sweepVars, regionVars>>

-----------------------------------------------------------------------------
\* Tables over all right rows, and over the packed rows of the spans.

SuffixTable(s) ==
    LET table[j \in 0 .. RightLen] ==
            IF j = RightLen THEN Identity(s) ELSE Add(s, table[j + 1], j)
    IN  table

PrefixTable(s) ==
    LET table[j \in 0 .. RightLen] ==
            IF j = 0 THEN Identity(s) ELSE Add(s, table[j - 1], j - 1)
    IN  table

PackedPrefix(s, spans) ==
    LET table[n \in 0 .. LengthOf(spans)] ==
            IF n = 0 THEN Identity(s) ELSE Add(s, table[n - 1], RowPacked(spans, n - 1))
    IN  table

\* Where a range lies among the packed rows.
PackedStart(spans, range) == PackedAt(spans, ClusterOf(spans, range), range.start)

PackedEnd(spans, range) == PackedStart(spans, range) + range.end - range.start

\* Prefix totals that wrapped are subtracted, and wrap again.
Difference(s, spans, range) ==
    Wrap(s, PackedPrefix(s, spans)[PackedEnd(spans, range)]
            - PackedPrefix(s, spans)[PackedStart(spans, range)])

\* The segment tree: leaf n of len packed rows is node len + n.
SegmentTree(s, spans) ==
    LET len == LengthOf(spans)
        node[n \in 1 .. 2 * len - 1] ==
            IF n >= len THEN Element(s, RowPacked(spans, n - len))
            ELSE Merge(s, node[2 * n], node[2 * n + 1])
    IN  node

\* The nodes a query lo .. hi - 1 takes, in its order: at every level the left
\* boundary gives up a node, then the right one.
Taken(lo, hi) ==
    LET nodes[l, h \in 0 .. hi] ==
            IF l >= h THEN <<>>
            ELSE (IF l % 2 = 1 THEN <<l>> ELSE <<>>) \o (IF h % 2 = 1 THEN <<h - 1>> ELSE <<>>)
                 \o nodes[(l + 1) \div 2, h \div 2]
    IN  nodes[lo, hi]

Queried(s, spans, range) ==
    LET len == LengthOf(spans)
        nodes == Taken(len + PackedStart(spans, range), len + PackedEnd(spans, range))
        total[n \in 0 .. Len(nodes)] ==
            IF n = 0 THEN Identity(s) ELSE Merge(s, total[n - 1], SegmentTree(s, spans)[nodes[n]])
    IN  total[Len(nodes)]

-----------------------------------------------------------------------------
\* Forward methods: what operation s makes of the range of a row.

\* The table of suffix totals serves every operation.
RunningStarts(s, range) ==
    CASE s.op = "size" -> range.end - range.start
      [] plan.running -> SuffixTable(s)[range.start]
      [] OTHER -> Direct(s, Slots(range))

FromStarts(s, range) ==
    CASE s.op = "size" -> range.end - range.start
      [] plan.running /\ ~Ordered(s) -> SuffixTable(s)[range.start]
      [] OTHER -> Direct(s, Slots(range))

FromEnds(s, range) ==
    CASE s.op = "size" -> range.end - range.start
      [] plan.running /\ ~Ordered(s) -> PrefixTable(s)[range.end]
      [] OTHER -> Direct(s, Slots(range))

\* Sums are worth a table sooner than counts; products and extremes need a tree.
FromStartsEnds(s, range) ==
    CASE s.op = "size" -> range.end - range.start
      [] s.op = "sum" /\ ~Ordered(s) /\ plan.prefix -> Difference(s, plan.spans, range)
      [] s.op = "count" /\ plan.tree ->
            PackedPrefix(s, plan.spans)[PackedEnd(plan.spans, range)]
            - PackedPrefix(s, plan.spans)[PackedStart(plan.spans, range)]
      [] s.op \in {"prod", "min", "max"} /\ ~Ordered(s) /\ plan.tree -> Queried(s, plan.spans, range)
      [] OTHER -> Direct(s, Slots(range))

-----------------------------------------------------------------------------
\* Reverse methods: what operation s makes of the rows that cover slot j.

\* Boundary events are swept from the first slot on.
SweptRight(s) ==
    LET running[j \in Right] ==
            LET event == Direct(s, {i \in Windowed : ranges[i].start = j})
            IN  IF j = 0 THEN event ELSE Merge(s, running[j - 1], event)
    IN  running

\* A range gives its event one slot too late.
SweptLeftAtEnd(s) ==
    LET running[j \in Right] ==
            LET event == Direct(s, {i \in Windowed : ranges[i].end = j})
            IN  IF j = RightLen - 1 THEN event ELSE Merge(s, running[j + 1], event)
    IN  running

\* From the last slot back: a range gives its event at the last slot it covers.
SweptLeft(s) ==
    LET running[j \in Right] ==
            LET event == Direct(s, {i \in Windowed : ranges[i].end - 1 = j})
            IN  IF j = RightLen - 1 THEN event ELSE Merge(s, running[j + 1], event)
    IN  running

ReverseStarts(s) ==
    IF plan.running /\ ~Ordered(s) THEN SweptRight(s) ELSE [j \in Right |-> Direct(s, Covering(j))]

ReverseEnds(s) ==
    IF plan.running /\ ~Ordered(s) THEN SweptLeft(s) ELSE [j \in Right |-> Direct(s, Covering(j))]

ReverseStartsEnds(s) == [j \in Right |-> Direct(s, Covering(j))]

-----------------------------------------------------------------------------
\* One predicate gives suffixes or prefixes, two give windows.

OneSided == call.entry = "single"

SuffixWindows == call.anchors[1].op \in SuffixOps

\* The next operation is filled.
Filling(forward) ==
    /\ pc = "fill" /\ next <= Len(call.inputs) /\ call.reverse = ~forward
    /\ next' = next + 1
    /\ UNCHANGED <<call, pc, row, windows, ranges, plan, pairVars, treeVars, sweepVars, regionVars>>

\* A row without a range keeps what it holds.
FillRows(value(_, _)) ==
    \E s \in {call.inputs[next]} :
        set' = [set EXCEPT !.results[next] =
                    [i \in Left |-> IF ranges[i] = None THEN @[i] ELSE value(s, ranges[i])]]

FillSlots(values(_)) ==
    \E s \in {call.inputs[next]} : set' = [set EXCEPT !.results[next] = values(s)]

AggregateStarts == OneSided /\ SuffixWindows /\ Filling(TRUE) /\ FillRows(FromStarts)

AggregateEnds == OneSided /\ ~SuffixWindows /\ Filling(TRUE) /\ FillRows(FromEnds)

AggregateStartsEnds == ~OneSided /\ Filling(TRUE) /\ FillRows(FromStartsEnds)

AggregateReverseStarts == OneSided /\ SuffixWindows /\ Filling(FALSE) /\ FillSlots(ReverseStarts)

AggregateReverseEnds == OneSided /\ ~SuffixWindows /\ Filling(FALSE) /\ FillSlots(ReverseEnds)

AggregateReverseStartsEnds == ~OneSided /\ Filling(FALSE) /\ FillSlots(ReverseStartsEnds)

EndFill ==
    /\ pc = "fill" /\ next > Len(call.inputs)
    /\ pc' = "return"
    /\ UNCHANGED <<call, row, windows, fillVars, pairVars, set, treeVars, sweepVars, regionVars>>

-----------------------------------------------------------------------------
\* Pairs and rows one at a time.

\* The next pair is given to the accumulators if it passes every residual.
FeedPair ==
    /\ found # <<>>
    /\ set' = IF Survives(left_position, Head(found))
              THEN LET pair == Pair(left_position, Head(found))
                   IN  Update(call.inputs, set, pair.source, pair.output)
              ELSE set
    /\ found' = Tail(found)
    /\ UNCHANGED <<call, pc, row, windows, fillVars, left_position, treeVars, sweepVars, regionVars>>

\* is_empty: None unless some pair was joined.
Return ==
    /\ pc = "return"
    /\ pc' = IF set.successful THEN "done" ELSE "none"
    /\ UNCHANGED <<call, row, windows, fillVars, pairVars, set, treeVars, sweepVars, regionVars>>

StateNext ==
    Bound \/ Choose \/ AggregateStarts \/ AggregateEnds \/ AggregateStartsEnds \/ AggregateReverseStarts
    \/ AggregateReverseEnds \/ AggregateReverseStartsEnds \/ EndFill \/ FeedPair \/ Return
=============================================================================
