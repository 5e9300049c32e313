-------------------------- MODULE WindowAggregates --------------------------
(***************************************************************************)
(* Aggregations over windows of sorted right rows: one range predicate,    *)
(* one range predicate with residuals, and two range predicates with or    *)
(* without residuals (aggregate_single_range and aggregate_range_anchor in *)
(* single_range_predicate.rs, aggregate_range_extended in range_join.rs,   *)
(* aggregate_range_windows in join_aggregation_helpers.rs).                *)
(*                                                                         *)
(* When the second predicate is the envelope of the only residual, the     *)
(* first predicate and the residual decide alone: rows are filed in a rank *)
(* tree as the first predicate reaches them, and every slot asks it for    *)
(* the ranks that satisfy the residual.                                    *)
(***************************************************************************)
EXTENDS AggregationState

RangeEntries == {"single", "range_first", "extended"}

EntryPc(c) ==
    CASE c.entry = "single" -> "parse"
      [] c.entry = "extended" /\ Len(c.residuals) = 1 -> "plan"
      [] c.entry \in {"range_first", "extended"} -> "measure"
      [] OTHER -> "paths"

-----------------------------------------------------------------------------
\* Windows.

\* Only the single range parses its operations before it measures.
Parse ==
    /\ pc = "parse"
    /\ IF Fits THEN pc' = "measure" /\ set' = NewSet(call.inputs, OutputLen)
               ELSE pc' = "error" /\ UNCHANGED set
    /\ UNCHANGED <<call, row, windows, fillVars, pairVars, treeVars, sweepVars, regionVars>>

\* Two predicates drop the windows that are empty.
MeasureRow ==
    /\ pc = "measure" /\ row < LeftLen
    /\ \E w \in {WindowOf(call.anchors, row)} :
        windows' = IF w.start < w.end \/ call.entry # "extended"
                   THEN Append(windows, w) ELSE windows
    /\ row' = row + 1
    /\ UNCHANGED <<call, pc, fillVars, pairVars, set, treeVars, sweepVars, regionVars>>

EndMeasure ==
    /\ pc = "measure" /\ row = LeftLen
    /\ row' = 0
    /\ pc' = CASE call.entry = "single" -> "bound"
               [] windows = <<>> -> "none"
               [] OTHER -> "accumulate"
    /\ UNCHANGED <<call, windows, fillVars, pairVars, set, treeVars, sweepVars, regionVars>>

\* aggregate_range_windows: without residuals the windows say it all.
Accumulate ==
    /\ pc = "accumulate"
    /\ IF Fits THEN /\ set' = NewSet(call.inputs, OutputLen)
                    /\ pc' = IF call.residuals = <<>> THEN "bound" ELSE "walk"
               ELSE pc' = "error" /\ UNCHANGED set
    /\ UNCHANGED <<call, row, windows, fillVars, pairVars, treeVars, sweepVars, regionVars>>

-----------------------------------------------------------------------------
\* Pair by pair.

\* The rows of a window are fed by right row.
WalkWindow ==
    /\ pc = "walk" /\ found = <<>> /\ row < Len(windows)
    /\ \E w \in {windows[row + 1]} :
        /\ left_position' = w.row
        /\ found' = [n \in 1 .. w.end - w.start |-> w.start + n - 1]
    /\ row' = row + 1
    /\ UNCHANGED <<call, pc, windows, fillVars, set, treeVars, sweepVars, regionVars>>

EndWalk ==
    /\ pc = "walk" /\ found = <<>> /\ row = Len(windows)
    /\ pc' = "return"
    /\ UNCHANGED <<call, row, windows, fillVars, pairVars, set, treeVars, sweepVars, regionVars>>

-----------------------------------------------------------------------------
\* The envelope sweep: what it lays out before it starts.

Residual == call.residuals[1]

\* Right rows visible to a left row, from the end for suffixes.
Visible(i) ==
    IF SuffixWindows THEN RightLen - Start(call.anchors[1], i) ELSE End(call.anchors[1], i)

RightRankCount == Cardinality(Values(Residual.right))

\* A row whose threshold no rank reaches stays out.
BinOf(i) == IF LeftThreshold(Residual, i) < RightRankCount THEN Visible(i) ELSE 0

\* bucket_queries: left rows by bin, a counting sort that keeps their order.
Bucketed ==
    SetToSortSeq({i \in Left : BinOf(i) > 0},
                 LAMBDA i, k : BinOf(i) < BinOf(k) \/ (BinOf(i) = BinOf(k) /\ i < k))

ForwardLayout ==
    [ order |-> [n \in 1 .. RightLen |-> IF SuffixWindows THEN RightLen - n ELSE n - 1],
      queries |-> [n \in DOMAIN Bucketed |->
                    [slot |-> Bucketed[n], threshold |-> LeftThreshold(Residual, Bucketed[n])]],
      ends |-> [v \in 0 .. RightLen |-> Cardinality({i \in Left : BinOf(i) \in 1 .. v})] ]

\* A left row becomes active one step too early.
KeyUnshifted(i) ==
    LET start == Start(call.anchors[1], i)
        end == End(call.anchors[1], i)
        key == IF SuffixWindows THEN start ELSE RightLen - end
    IN  IF key <= RightLen /\ start < end THEN key ELSE 0

\* The step of the sweep before which left row i becomes active, 0 if never: its
\* first right row as the sweep meets them.
Key(i) ==
    LET start == Start(call.anchors[1], i)
        end == End(call.anchors[1], i)
        key == IF SuffixWindows THEN start + 1 ELSE RightLen - end + 1
    IN  IF key <= RightLen /\ start < end THEN key ELSE 0

Activated ==
    SetToSortSeq({i \in Left : Key(i) > 0},
                 LAMBDA i, k : Key(i) < Key(k) \/ (Key(i) = Key(k) /\ i < k))

ActiveBy(step) == Cardinality({i \in Left : Key(i) \in 1 .. step})

\* The right row that a step asks for.
AskedAt(step) == IF SuffixWindows THEN step - 1 ELSE RightLen - step

\* Steps before the first active row ask nothing; the others come grouped by the
\* number of active rows, and a bin ends where the last step of its group does.
ReverseLayout ==
    LET silent == Cardinality({step \in 1 .. RightLen : ActiveBy(step) = 0})
    IN  [ order |-> Activated,
          queries |-> [n \in 1 .. RightLen - silent |->
                        [slot |-> AskedAt(silent + n),
                         threshold |-> RightThreshold(Residual, AskedAt(silent + n))]],
          ends |-> [v \in 0 .. Len(Activated) |->
                        Cardinality({step \in 1 .. RightLen : ActiveBy(step) \in 1 .. v})] ]

RankCount == IF call.reverse THEN Cardinality(Values(Residual.left)) ELSE RightRankCount

Ranks ==
    IF call.reverse THEN [i \in Left |-> LeftRank(Residual, i)]
    ELSE [j \in Right |-> RightRank(Residual, j)]

-----------------------------------------------------------------------------
\* The envelope sweep: whether it runs.

Planning == pc = "plan"

ReturnAt(p) ==
    /\ pc' = p
    /\ UNCHANGED <<call, row, windows, fillVars, pairVars, set, treeVars, sweepVars, regionVars>>

RefuseEmptyPlan == Planning /\ call.inputs = <<>> /\ ReturnAt("error")

NoCandidates == Planning /\ call.inputs # <<>> /\ ~SeesCandidates(call.anchors) /\ ReturnAt("none")

HasCandidates == Planning /\ call.inputs # <<>> /\ SeesCandidates(call.anchors)

RefusePlan == HasCandidates /\ Summarizable(call.inputs) /\ ~Fits /\ ReturnAt("error")

\* The estimates of its cost and of its workspace are left open: they may always
\* decline.
Decline == HasCandidates /\ (Summarizable(call.inputs) => Fits) /\ ReturnAt("measure")

Sweep ==
    /\ HasCandidates /\ Summarizable(call.inputs) /\ Fits
    /\ IsEnvelope(call.anchors[2], Residual)
    /\ \E layout \in {IF call.reverse THEN ReverseLayout ELSE ForwardLayout} :
        /\ insertion_order' = layout.order
        /\ queries' = layout.queries
        /\ bin_ends' = layout.ends
    /\ set' = NewSet(call.inputs, OutputLen)
    /\ tree' = NewSet(call.inputs, 2 * TreeSize(RankCount))
    /\ bin' = 1 /\ inserted' = 0
    /\ pc' = "sweep"
    /\ UNCHANGED <<call, row, windows, fillVars, pairVars, arriving, regionVars>>

-----------------------------------------------------------------------------
\* aggregate_rank_threshold_sweep.

BinQueries == bin_ends[bin - 1] + 1 .. bin_ends[bin]

\* A bin without queries takes no rows either; a later one takes them.
SkipBin ==
    /\ pc = "sweep" /\ bin \in DOMAIN bin_ends /\ BinQueries = {}
    /\ bin' = bin + 1
    /\ UNCHANGED <<call, pc, row, windows, fillVars, pairVars, set, treeVars, insertion_order,
                   queries, bin_ends, inserted, regionVars>>

\* Only the newest row is taken.
TakenLast == SubSeq(insertion_order, bin, bin)

\* The rows that the bin adds.
TakenNow == SubSeq(insertion_order, inserted + 1, Min({bin, Len(insertion_order)}))

OpenBin ==
    /\ pc = "sweep" /\ bin \in DOMAIN bin_ends /\ BinQueries # {}
    /\ arriving' = TakenNow
    /\ inserted' = Max({inserted, Min({bin, Len(insertion_order)})})
    /\ row' = bin_ends[bin - 1]
    /\ pc' = "ask"
    /\ UNCHANGED <<call, windows, fillVars, pairVars, set, tree, insertion_order, queries, bin_ends,
                   bin, regionVars>>

FileRow ==
    /\ pc = "ask" /\ arriving # <<>>
    /\ tree' = InsertPath(call.inputs, tree, Head(arriving), TreeSize(RankCount) + Ranks[Head(arriving)])
    /\ arriving' = Tail(arriving)
    /\ UNCHANGED <<call, pc, row, windows, fillVars, pairVars, set, sweepVars, regionVars>>

Query == queries[row + 1]

\* The nodes above the threshold; the leaves beyond the ranks hold nothing.
AskQuery ==
    /\ pc = "ask" /\ arriving = <<>> /\ row < bin_ends[bin]
    /\ LET size == TreeSize(RankCount)
       IN  set' = IF Query.threshold >= RankCount THEN set
                  ELSE MergeNodes(call.inputs, set, tree, Cover(size + Query.threshold, 2 * size),
                                  Query.slot)
    /\ row' = row + 1
    /\ UNCHANGED <<call, pc, windows, fillVars, pairVars, treeVars, sweepVars, regionVars>>

EndBin ==
    /\ pc = "ask" /\ arriving = <<>> /\ row = bin_ends[bin]
    /\ bin' = bin + 1
    /\ pc' = "sweep"
    /\ UNCHANGED <<call, row, windows, fillVars, pairVars, set, treeVars, insertion_order, queries,
                   bin_ends, inserted, regionVars>>

EndSweep ==
    /\ pc = "sweep" /\ bin \notin DOMAIN bin_ends
    /\ pc' = "return"
    /\ UNCHANGED <<call, row, windows, fillVars, pairVars, set, treeVars, sweepVars, regionVars>>

WindowNext ==
    Parse \/ MeasureRow \/ EndMeasure \/ Accumulate \/ WalkWindow \/ EndWalk
    \/ RefuseEmptyPlan \/ NoCandidates \/ RefusePlan \/ Decline \/ Sweep
    \/ SkipBin \/ OpenBin \/ FileRow \/ AskQuery \/ EndBin \/ EndSweep
=============================================================================
