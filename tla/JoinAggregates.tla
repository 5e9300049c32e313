--------------------------- MODULE JoinAggregates ---------------------------
(***************************************************************************)
(* The join aggregations together: those over windows (module              *)
(* WindowAggregates), those over dual regions                              *)
(* (aggregate_dual_region_core in src/src/conditional_join/regions.rs),    *)
(* and what each promises (module PairAggregation).                        *)
(*                                                                         *)
(* Dual regions reduce two range predicates to labels as the index joins   *)
(* do (modules RegionPaths and DualRegions); what is new is what is done   *)
(* with the candidates: every one is given to the accumulators, or a rank  *)
(* tree summarises the opened rows by label.                               *)
(***************************************************************************)
EXTENDS WindowAggregates

Regions == INSTANCE RegionPaths

RangeCall(c) ==
    /\ c.entry \in RangeEntries
    /\ Len(c.anchors) = IF c.entry = "extended" THEN 2 ELSE 1
    /\ \A n \in DOMAIN c.anchors :
        c.anchors[n] \in Predicate /\ c.anchors[n].op \in RangeOps /\ Ascends(c.anchors[n].right)
    /\ \A n \in DOMAIN c.residuals : c.residuals[n] \in Predicate
    /\ c.entry = "single" => c.residuals = <<>>
    /\ c.entry = "range_first" => c.residuals # <<>>

\* Boundaries instead of predicates, as in DualRegions.
RegionCall(c) ==
    /\ c.entry = "regions"
    /\ c.first \in Regions!Boundaries /\ c.second \in Regions!Boundaries
    /\ c.alignment \in Regions!Permutations(Right)
    /\ \A n \in DOMAIN c.residuals : c.residuals[n] \in Predicate

ASSUME CallsAssumption ==
    \A c \in Calls :
        /\ c.reverse \in BOOLEAN /\ (RangeCall(c) \/ RegionCall(c))
        /\ \A k \in DOMAIN c.inputs : \E n \in {LeftLen, RightLen} : c.inputs[k] \in Input(n)

Init ==
    /\ call \in Calls
    /\ pc = EntryPc(call)
    /\ row = 0 /\ windows = <<>>
    /\ ranges = [i \in Left |-> None] /\ plan = None /\ next = 0
    /\ left_position = 0 /\ found = <<>>
    /\ set = None /\ tree = None /\ arriving = <<>>
    /\ insertion_order = <<>> /\ queries = <<>> /\ bin_ends = <<>>
    /\ bin = 0 /\ inserted = 0
    /\ paths = None
    /\ left_has_match = {} /\ previous_end = RightLen
    /\ active_counts = [r \in Right |-> 0]

-----------------------------------------------------------------------------
\* build_dual_region_paths.

FirstLeft  == Regions!LeftLabels(call.first)
FirstRight == Regions!RightLabels(call.first)

\* A left row the first predicate excluded is not searched again.
SecondBoundaries == [i \in Left |-> IF FirstLeft[i] = 0 THEN RightLen ELSE call.second[i]]

SecondLeft == Regions!LeftLabels(SecondBoundaries)

SecondRight ==
    [j \in Right |-> IF FirstRight[j] = 0 THEN 0
                     ELSE Regions!RightLabels(SecondBoundaries)[call.alignment[j]]]

DescendingOrders ==
    { order \in Regions!Permutations(Left) :
        \A i, k \in Left : i < k => FirstLeft[order[i]] >= FirstLeft[order[k]] }

StartOf(i) ==
    IF FirstLeft[i] = 0 \/ SecondLeft[i] = 0 THEN RightLen
    ELSE Regions!PartitionPoint(FirstRight, FirstLeft[i])

NoRegions == Regions!NoWindow(call.first) \/ Regions!NoWindow(SecondBoundaries)

\* The operations are counted before the paths are built, and looked at after.
BuildRegions ==
    /\ pc = "paths"
    /\ pc' = CASE call.inputs = <<>> -> "error"
               [] NoRegions \/ \A i \in Left : StartOf(i) = RightLen -> "none"
               [] ~Fits -> "error"
               [] OTHER -> "filter"
    /\ IF pc' = "filter"
       THEN /\ \E order \in DescendingOrders :
                paths' = [ order |-> order, right |-> SecondRight,
                           left |-> [i \in Left |-> SecondLeft[order[i]]],
                           starts |-> [i \in Left |-> StartOf(order[i])] ]
            /\ set' = NewSet(call.inputs, OutputLen)
       ELSE UNCHANGED <<paths, set>>
    /\ UNCHANGED <<call, row, windows, fillVars, pairVars, treeVars, sweepVars, left_has_match, previous_end,
                   active_counts>>

-----------------------------------------------------------------------------
\* Label ranks.

Labels == {paths.right[j] : j \in Right} \ {0}

RankOf(label) == Cardinality({l \in Labels : l < label})

\* Rows without a label have no rank.
LabelRank(j) == IF paths.right[j] = 0 THEN NoRow ELSE RankOf(paths.right[j])

\* dual_region_match_filter: some opened row has at least the label of the left row.
Reaches(i) ==
    /\ paths.starts[i] # RightLen /\ paths.left[i] # 0
    /\ \E j \in paths.starts[i] .. RightLen - 1 : paths.right[j] >= paths.left[i]

\* The estimate of the tree's cost is left open.
FilterRegions ==
    /\ pc = "filter"
    /\ left_has_match' = {i \in Left : Reaches(i)}
    /\ \/ left_has_match' = {} /\ pc' = "none" /\ UNCHANGED tree
       \/ left_has_match' # {} /\ pc' = "visit" /\ UNCHANGED tree
       \/ /\ left_has_match' # {} /\ call.residuals = <<>> /\ ~call.reverse
          /\ Summarizable(call.inputs)
          /\ pc' = "ranks"
          /\ tree' = NewSet(call.inputs, 2 * TreeSize(Cardinality(Labels)))
    /\ UNCHANGED <<call, row, windows, fillVars, pairVars, set, arriving, sweepVars, paths,
                   previous_end, active_counts>>

-----------------------------------------------------------------------------
\* aggregate_dual_rank_tree.

\* The rows with a rank that the window opens, last first.
Opened ==
    LET start == paths.starts[row]
        HasRank(j) == LabelRank(j) # NoRow
    IN  SelectSeq([n \in 1 .. previous_end - start |-> previous_end - n], HasRank)

SkipRow ==
    /\ pc = "ranks" /\ row < LeftLen
    /\ paths.starts[row] > previous_end \/ paths.starts[row] >= RightLen
    /\ row' = row + 1
    /\ UNCHANGED <<call, pc, windows, fillVars, pairVars, set, treeVars, sweepVars, regionVars>>

OpenRow ==
    /\ pc = "ranks" /\ row < LeftLen
    /\ paths.starts[row] <= previous_end /\ paths.starts[row] < RightLen
    /\ arriving' = Opened
    /\ previous_end' = paths.starts[row]
    /\ pc' = "reach"
    /\ UNCHANGED <<call, row, windows, fillVars, pairVars, set, tree, sweepVars, paths,
                   left_has_match, active_counts>>

FileOpened ==
    /\ pc = "reach" /\ arriving # <<>>
    /\ tree' = InsertPath(call.inputs, tree, Head(arriving),
                          TreeSize(Cardinality(Labels)) + LabelRank(Head(arriving)))
    /\ arriving' = Tail(arriving)
    /\ UNCHANGED <<call, pc, row, windows, fillVars, pairVars, set, sweepVars, regionVars>>

\* The nodes of the labels that reach the row's.
Reached ==
    LET size == TreeSize(Cardinality(Labels))
    IN  Cover(size + RankOf(paths.left[row]), 2 * size)

ReachRow ==
    /\ pc = "reach" /\ arriving = <<>>
    /\ set' = IF row \in left_has_match /\ RankOf(paths.left[row]) < Cardinality(Labels)
              THEN MergeNodes(call.inputs, set, tree, Reached, paths.order[row])
              ELSE set
    /\ row' = row + 1
    /\ pc' = "ranks"
    /\ UNCHANGED <<call, windows, fillVars, pairVars, treeVars, sweepVars, regionVars>>

EndRanks ==
    /\ pc = "ranks" /\ row = LeftLen
    /\ pc' = "return"
    /\ UNCHANGED <<call, row, windows, fillVars, pairVars, set, treeVars, sweepVars, regionVars>>

-----------------------------------------------------------------------------
\* Candidate by candidate.

\* The search position whose window opens right row j.
OpenedAt(j) == Min({i \in Left : paths.starts[i] <= j})

\* build_ranked_region_position_layout: the right rows of a rank, in the order they
\* are opened.
Slice(r) ==
    SetToSortSeq({j \in Right : LabelRank(j) = r /\ \E i \in Left : paths.starts[i] <= j},
                 LAMBDA j, k : OpenedAt(j) < OpenedAt(k) \/ (OpenedAt(j) = OpenedAt(k) /\ j < k))

\* The opened rows of the ranks from lo on.
Candidates(lo, active) ==
    LET from[r \in lo .. RightLen] ==
            IF r = RightLen THEN <<>> ELSE SubSeq(Slice(r), 1, active[r]) \o from[r + 1]
    IN  from[lo]

SkipInactive ==
    /\ pc = "visit" /\ found = <<>> /\ row < LeftLen
    /\ paths.starts[row] = RightLen
    /\ row' = row + 1
    /\ UNCHANGED <<call, pc, windows, fillVars, pairVars, set, treeVars, sweepVars, regionVars>>

\* activate_ranked_positions, and the candidates of a row that matches.
VisitRow ==
    /\ pc = "visit" /\ found = <<>> /\ row < LeftLen
    /\ paths.starts[row] # RightLen
    /\ active_counts' = [r \in Right |-> active_counts[r] +
            Cardinality({j \in paths.starts[row] .. previous_end - 1 : LabelRank(j) = r})]
    /\ previous_end' = paths.starts[row]
    /\ pc' = IF paths.starts[row] > previous_end THEN "error" ELSE "visit"
    /\ left_position' = paths.order[row]
    /\ found' = IF row \in left_has_match
                THEN Candidates(RankOf(paths.left[row]), active_counts') ELSE <<>>
    /\ row' = row + 1
    /\ UNCHANGED <<call, windows, fillVars, set, treeVars, sweepVars, paths, left_has_match>>

EndVisit ==
    /\ pc = "visit" /\ found = <<>> /\ row = LeftLen
    /\ pc' = "return"
    /\ UNCHANGED <<call, row, windows, fillVars, pairVars, set, treeVars, sweepVars, regionVars>>

RegionNext ==
    BuildRegions \/ FilterRegions \/ SkipRow \/ OpenRow \/ FileOpened \/ ReachRow \/ EndRanks
    \/ SkipInactive \/ VisitRow \/ EndVisit

Next == StateNext \/ WindowNext \/ RegionNext

Spec == Init /\ [][Next]_vars /\ WF_vars(Next)

-----------------------------------------------------------------------------
\* What the aggregations promise.

\* The pair satisfies every predicate of the call.
Joined(i, j) ==
    /\ Survives(i, j)
    /\ IF call.entry = "regions" THEN call.first[i] <= j /\ call.second[i] <= call.alignment[j]
       ELSE \A n \in DOMAIN call.anchors : Accepts(call.anchors[n], i, j)

JoinedTo(o) ==
    IF call.reverse THEN {i \in Left : Joined(i, o)} ELSE {j \in Right : Joined(o, j)}

Request == [joined |-> [o \in 0 .. OutputLen - 1 |-> JoinedTo(o)],
            inputs |-> call.inputs, wellformed |-> Fits]

Answer ==
    CASE pc \in {"none", "error"} -> [returned |-> pc]
      [] pc = "done"  -> [results |-> set.results, matched |-> set.matched]
      [] OTHER -> None

Requests == [joined: [Left -> SUBSET Nat] \union [Right -> SUBSET Nat],
             inputs: {c.inputs : c \in Calls}, wellformed: BOOLEAN]

Aggregation == INSTANCE PairAggregation
    WITH Pending <- None, Absent <- [returned |-> "none"], Refused <- [returned |-> "error"],
         request <- Request, answer <- Answer

\* Whatever is planned, every slot holds what its joined rows come to, the slots
\* with a pair are marked, None is returned exactly when no pair is joined, and
\* the call returns.
ImplementsPairAggregation == Aggregation!Spec

\* "float reductions retain direct source order": over windows, the values of a
\* floating sum or product are met by source row, whichever plan is chosen.
FloatsKeepSourceOrder ==
    set # None /\ call.entry # "regions" =>
        \A k \in DOMAIN call.inputs : Ordered(call.inputs[k]) =>
            \A o \in DOMAIN set.matched :
                \A m, n \in DOMAIN set.results[k][o] :
                    m < n => set.results[k][o][m] < set.results[k][o][n]

\* The rows filed in the tree, with their ranks.
Filings ==
    IF call.entry = "regions"
    THEN {[at |-> j, rank |-> LabelRank(j)] :
            j \in {k \in previous_end .. RightLen - 1 : LabelRank(k) # NoRow} \ ToSet(arriving)}
    ELSE {[at |-> p, rank |-> Ranks[p]] :
            p \in {insertion_order[n] : n \in 1 .. inserted} \ ToSet(arriving)}

\* Every node of a rank tree, whose walks up stop as soon as nothing changes,
\* holds what the rows filed beneath it come to, so that no summary is ever stale.
RankTreeIsExact ==
    pc \in {"sweep", "ask", "ranks", "reach"} =>
        \A node \in DOMAIN tree.matched \ {0} :
            LET size == Cardinality(DOMAIN tree.matched) \div 2
                beneath == {f.at : f \in {g \in Filings : node \in PathFrom(size + g.rank)}}
            IN  /\ tree.matched[node] <=> beneath # {}
                /\ \A k \in DOMAIN call.inputs :
                    Aggregation!Permitted(call.inputs[k], beneath, tree.results[k][node])

\* When a slot asks the tree, the rows taken are those that the first predicate
\* joins to it, no fewer and no more, although bins without queries are passed over.
SweepSeesItsWindow ==
    pc = "ask" /\ row < bin_ends[bin] =>
        {insertion_order[n] : n \in 1 .. inserted} =
            IF call.reverse THEN {i \in Left : Accepts(call.anchors[1], i, Query.slot)}
            ELSE {j \in Right : Accepts(call.anchors[1], Query.slot, j)}
=============================================================================
