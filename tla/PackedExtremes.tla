--------------------------- MODULE PackedExtremes ---------------------------
(***************************************************************************)
(* keep="first" and keep="last" of the two-range join when the right       *)
(* labels do not ascend: the extreme label of every window, by reading the *)
(* windows or from one segment tree over the right rows they touch         *)
(* (adaptive_extreme_positions in range_join.rs and                        *)
(* src/src/aggregation/packed_spans.rs).  The tree is laid over the hull   *)
(* of the windows or over the spans they cover, end to end; its length     *)
(* need not be a power of two.  Estimates of the work choose among the     *)
(* three; here any may be chosen, but for the batches that are too small.  *)
(***************************************************************************)
EXTENDS WindowJoin

\* The extreme label among right rows.
ExtremeRow(rows) ==
    CHOOSE j \in rows : Labels[j] = Extreme({Labels[k] : k \in rows})

ScanDirectly ==
    /\ pc = "plan"
    /\ pc' = "scan"
    /\ UNCHANGED <<call, row, windows, count, anyVars, treeVars, stairVars, selected, output>>

\* extreme_positions_direct.
ScanRow ==
    /\ pc = "scan" /\ row < Len(windows)
    /\ \E w \in {windows[row + 1]} : selected' = [selected EXCEPT ![w.row] = ExtremeRow(Slots(w))]
    /\ row' = row + 1
    /\ UNCHANGED <<call, pc, windows, count, anyVars, treeVars, stairVars, output>>

-----------------------------------------------------------------------------
\* The tree and its coordinates.

Intervals == {Interval(windows[n]) : n \in DOMAIN windows}

\* queried_source_spans.
QueriedSpans == SpansOf(Intervals)

Hull == << [ start |-> Min({w.start : w \in Intervals}),
             end |-> Max({w.end : w \in Intervals}) ] >>

\* Three windows or fewer are never worth a tree.
PlanTree ==
    /\ pc = "plan"
    /\ Len(windows) > 3
    /\ \E intervals \in {Hull, QueriedSpans} : spans' = Laid(intervals)
    /\ pc' = "build"
    /\ UNCHANGED <<call, row, windows, count, anyVars, tree, query, stairVars, selected, output>>

\* The length of all spans.
Length == LengthOf(spans)

\* The leaf of right row j, which lies in the nth span.
LeafOf(n, j) == Length + PackedAt(spans, n, j)

\* choose_extreme_position.
ChooseRow(a, b) == IF a = None THEN b ELSE IF b = None THEN a ELSE ExtremeRow({a, b})

\* Each node chooses among its two children.
BuildTree ==
    /\ pc = "build"
    /\ \E n \in {Length} :
        tree' = LET node[k \in 1 .. 2 * n - 1] ==
                        IF k >= n THEN RowPacked(spans, k - n) ELSE ChooseRow(node[2 * k], node[2 * k + 1])
                IN  node
    /\ pc' = "query"
    /\ UNCHANGED <<call, row, windows, count, anyVars, spans, query, stairVars, selected, output>>

BeginQuery ==
    /\ pc = "query" /\ query = None /\ row < Len(windows)
    /\ \E w \in {windows[row + 1]} : \E n \in {ClusterOf(spans, w)} :
        query' = [start |-> LeafOf(n, w.start), end |-> LeafOf(n, w.end), winner |-> None]
    /\ UNCHANGED <<call, pc, row, windows, count, anyVars, spans, tree, stairVars,
                   selected, output>>

\* The node an odd boundary gives up, on either side.
StartNode(start) == IF start % 2 = 1 THEN tree[start] ELSE None
EndNode(end) == IF end % 2 = 1 THEN tree[end - 1] ELSE None

\* One level of the query.
Climb ==
    /\ pc = "query" /\ query # None /\ query.start < query.end
    /\ query' = [ start |-> (query.start + 1) \div 2, end |-> query.end \div 2,
                  winner |-> ChooseRow(ChooseRow(query.winner, StartNode(query.start)),
                                       EndNode(query.end)) ]
    /\ UNCHANGED <<call, pc, row, windows, count, anyVars, spans, tree, stairVars,
                   selected, output>>

EndQuery ==
    /\ pc = "query" /\ query # None /\ query.start >= query.end
    /\ selected' = [selected EXCEPT ![windows[row + 1].row] = query.winner]
    /\ query' = None
    /\ row' = row + 1
    /\ UNCHANGED <<call, pc, windows, count, anyVars, spans, tree, stairVars, output>>

\* Every window has its extreme.
EndExtremes ==
    /\ pc \in {"scan", "query"} /\ row = Len(windows)
    /\ row' = 0
    /\ pc' = "emit_selected"
    /\ UNCHANGED <<call, windows, count, anyVars, treeVars, stairVars, selected, output>>

ExtremesNext ==
    \/ ScanDirectly \/ ScanRow \/ PlanTree \/ BuildTree
    \/ BeginQuery \/ Climb \/ EndQuery \/ EndExtremes
=============================================================================
