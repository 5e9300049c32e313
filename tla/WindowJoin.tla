----------------------------- MODULE WindowJoin -----------------------------
(***************************************************************************)
(* Index joins that read one half-open window of sorted right rows per     *)
(* left row: the state they share, the windows, and the policies that need *)
(* no more than a window (single_range_predicate.rs, range_join.rs and     *)
(* join_candidate_materialization.rs in src/src/conditional_join/).        *)
(*                                                                         *)
(* One or two predicates, the anchors, have right columns in ascending     *)
(* order and give the windows; the others, the residuals, are asked of     *)
(* every row of a window (predicate.rs).  They are asked pair by pair, or  *)
(* of a whole window at once, or one of them is promoted to a skip scan    *)
(* that leaves only its matches to the rest (WindowResidualScan in         *)
(* range_skip_scan.rs; the scan itself is module RangeSkipScan).           *)
(*                                                                         *)
(* Modules PackedExtremes, EnvelopeSweep and Staircase hold the longer     *)
(* ways to answer; WindowJoins composes them.                              *)
(***************************************************************************)
EXTENDS RangeWindows

CONSTANTS
    DirectProbe,    \* ANY_DIRECT_PROBE: 32 in the code
    MaskWidth,      \* narrower windows are asked pair by pair: 8 in the code
    Calls,          \* the calls considered
    None

Keeps == {"all", "any", "first", "last"}

\* The entry points: single_range_predicate_indices_*, range_join_indices,
\* materialize_range_first_indices, extended_join and range_exists_indices.
Entries == {"single", "dual", "range_first", "extended", "exists"}

\* Which rows of the two columns of a residual are null, and whether they are
\* columns of extension arrays.
NullMask == [masked: BOOLEAN, left: SUBSET Left, right: SUBSET Right, extension: BOOLEAN]

\* nulls: no masks at all, or for every residual its masks, if it has any.
Call == [entry: Entries, keep: Keeps, ordered: BOOLEAN, anchors: Seq(Predicate),
         residuals: Seq(Predicate), nulls: Seq(NullMask), right_index: [Right -> Int]]

\* What the parsers and the callers keep to: only != comes with masks, right rows
\* have labels of their own, the right columns of anchors ascend where windows are
\* searched, and a call that says its right labels ascend tells the truth.
IsCall(c) ==
    /\ c \in Call
    /\ Len(c.anchors) = IF c.entry \in {"single", "range_first"} THEN 1 ELSE 2
    /\ \A n \in DOMAIN c.anchors :
        /\ c.anchors[n].op \in RangeOps
        /\ c.entry # "exists" => Ascends(c.anchors[n].right)
    /\ c.entry \in {"single", "dual", "exists"} => c.residuals = <<>>
    /\ c.entry = "range_first" => c.residuals # <<>>
    /\ c.nulls # <<>> =>
        /\ DOMAIN c.nulls = DOMAIN c.residuals
        /\ \E n \in DOMAIN c.nulls : c.nulls[n].masked
        /\ \A n \in DOMAIN c.nulls : c.nulls[n].masked => c.residuals[n].op = "!="
    /\ c.entry = "exists" => c.keep = "any"
    /\ c.ordered => Ascends(c.right_index)
    /\ \A j, k \in Right : c.right_index[j] = c.right_index[k] => j = k

ASSUME WindowAssumption ==
    /\ None \notin Int
    /\ DirectProbe \in Nat \ {0} /\ MaskWidth \in Nat
    /\ \A c \in Calls : IsCall(c)

VARIABLES
    call,           \* arguments; never changes
    pc,             \* the loop that runs, or how the call returned
    row,            \* where it stands
    windows,        \* the windows found: [row, start, end]
    count,          \* result pairs counted before they are emitted
    reader,         \* how the residuals are asked of a window
    pending,        \* for keep="any": the windows not yet decided
    spans,          \* the right rows under a tree, as a sequence of intervals
    tree,           \* nodes of a segment tree or of a Fenwick tree
    query,          \* the query of a segment tree that runs
    order, witness, \* of the staircase
    selected,       \* for each left row the right row chosen for it
    output          \* the pairs emitted

anyVars   == <<reader, pending>>
treeVars  == <<spans, tree, query>>
stairVars == <<order, witness>>
vars == <<call, pc, row, windows, count, anyVars, treeVars, stairVars, selected, output>>

Unselected == [i \in Left |-> None]

Labels == call.right_index

\* extended_join considers the envelope sweep only for this shape.
SweepPossible ==
    /\ call.entry = "extended"
    /\ call.keep \in {"first", "last"} /\ Len(call.residuals) = 1 /\ call.nulls = <<>>

Init ==
    /\ call \in Calls
    /\ pc = IF call.entry = "exists" THEN "sort"
            ELSE IF SweepPossible THEN "width" ELSE "measure"
    /\ row = 0 /\ windows = <<>> /\ count = 0 /\ reader = "mask" /\ pending = <<>>
    /\ spans = <<>> /\ tree = <<>> /\ query = None
    /\ order = <<>> /\ witness = <<>>
    /\ selected = Unselected
    /\ output = <<>>

-----------------------------------------------------------------------------
\* Residuals.

Unmasked == [masked |-> FALSE, left |-> {}, right |-> {}, extension |-> FALSE]

MaskOf(nulls, n) == IF nulls = <<>> THEN Unmasked ELSE nulls[n]

\* predicates_match_with_nulls: a null in an extension array decides against the
\* pair, any other null for the predicate.
PredicatesMatch(ps, nulls, i, j) ==
    \A n \in DOMAIN ps :
        LET mask == MaskOf(nulls, n)
        IN  IF mask.masked /\ (i \in mask.left \/ j \in mask.right) THEN ~mask.extension
            ELSE Accepts(ps[n], i, j)

\* apply_window: what a predicate leaves of the rows that are still marked.
Marked(p, mask, i, rows) ==
    IF mask.masked /\ i \in mask.left THEN IF mask.extension THEN {} ELSE rows
    ELSE { j \in rows : IF mask.masked /\ j \in mask.right THEN ~mask.extension
                        ELSE Accepts(p, i, j) }

\* predicates_match_window.
MatchWindow(ps, nulls, i, rows) ==
    IF Cardinality(rows) < MaskWidth THEN {j \in rows : PredicatesMatch(ps, nulls, i, j)}
    ELSE FoldLeft(LAMBDA marked, n : Marked(ps[n], MaskOf(nulls, n), i, marked), rows,
                  [n \in DOMAIN ps |-> n])

\* The residuals whose summaries can be trusted: a masked row's stored value is
\* arbitrary.
Eligible == {n \in DOMAIN call.residuals :
                call.residuals[n].op \in RangeOps /\ ~MaskOf(call.nulls, n).masked}

Promoted == Min(Eligible)

\* All masks, though one residual fewer.
AllNulls == call.nulls

\* The masks of the others.
RestNulls == IF call.nulls = <<>> THEN <<>> ELSE RemoveAt(call.nulls, Promoted)

Rest == RemoveAt(call.residuals, Promoted)

\* Samples of the windows decide whether the scan pays off, and how it asks the
\* others; either may happen here.
Readers ==
    {"mask"} \union (IF Eligible = {} THEN {} ELSE {"scan"})
    \union (IF Eligible = {} \/ Len(call.residuals) = 1 THEN {} ELSE {"runs"})

Matching(i, rows) ==
    LET promoted == call.residuals[Promoted]
    IN  CASE reader = "mask" -> MatchWindow(call.residuals, call.nulls, i, rows)
          [] reader = "scan" ->
                {j \in rows : Accepts(promoted, i, j) /\ PredicatesMatch(Rest, RestNulls, i, j)}
          [] reader = "runs" ->
                {j \in MatchWindow(Rest, RestNulls, i, rows) : Accepts(promoted, i, j)}

-----------------------------------------------------------------------------
\* Windows.

\* The window of a left row under all anchors of the call.
RowWindow(i) == WindowOf(call.anchors, i)

\* Only the single-range join keeps the windows that are empty.
MeasureRow ==
    /\ pc = "measure" /\ row < LeftLen
    /\ \E w \in {RowWindow(row)} :
        windows' = IF Slots(w) # {} \/ call.entry = "single"
                   THEN Append(windows, w) ELSE windows
    /\ row' = row + 1
    /\ UNCHANGED <<call, pc, count, anyVars, treeVars, stairVars, selected, output>>

HasResiduals == call.entry \in {"range_first", "extended"}

\* How a keep policy reads the windows.
Pass ==
    CASE call.entry = "single" \/ call.keep = "all" -> "count"
      [] HasResiduals /\ call.keep = "any" -> "probe"
      [] call.entry = "dual" /\ call.keep # "any" /\ ~call.ordered -> "plan"
      [] OTHER -> "emit"

\* WindowResidualScan::plan, for the policies that read whole windows.
EndMeasure ==
    /\ pc = "measure" /\ row = LeftLen
    /\ row' = 0
    /\ pc' = IF \E n \in DOMAIN windows : Slots(windows[n]) # {} THEN Pass ELSE "none"
    /\ reader' \in IF HasResiduals /\ pc' \in {"count", "emit"} THEN Readers ELSE {"mask"}
    /\ UNCHANGED <<call, windows, count, pending, treeVars, stairVars, selected, output>>

-----------------------------------------------------------------------------
\* Counting and emitting.

Survivors(w) == Matching(w.row, Slots(w))

CountRow ==
    /\ pc = "count" /\ row < Len(windows)
    /\ count' = count + IF call.keep = "all" THEN Cardinality(Survivors(windows[row + 1]))
                        ELSE IF Slots(windows[row + 1]) = {} THEN 0 ELSE 1
    /\ row' = row + 1
    /\ UNCHANGED <<call, pc, windows, anyVars, treeVars, stairVars, selected, output>>

EndCount ==
    /\ pc = "count" /\ row = Len(windows)
    /\ row' = 0
    /\ pc' = IF count = 0 THEN "none" ELSE "emit"
    /\ UNCHANGED <<call, windows, count, anyVars, treeVars, stairVars, selected, output>>

Extreme(labels) == IF call.keep = "first" THEN Min(labels) ELSE Max(labels)

\* The rows summed up in the entry of the prefix or suffix table that is read.
TableRows(w) ==
    IF call.anchors[1].op \in SuffixOps THEN w.start .. RightLen - 1 ELSE 0 .. w.end - 1

\* The label chosen from a window in which some row survives.
ChosenLabel(w) ==
    CASE HasResiduals -> Extreme({Labels[j] : j \in Survivors(w)})
      [] call.keep = "any" \/ (call.ordered /\ call.keep = "first") -> Labels[w.start]
      [] call.ordered /\ call.keep = "last" -> Labels[w.end - 1]
      [] OTHER -> Extreme({Labels[j] : j \in TableRows(w)})

EmittedLabels(w) ==
    IF call.keep = "all"
    THEN [n \in 1 .. Cardinality(Survivors(w)) |-> Labels[SetToSortSeq(Survivors(w), <)[n]]]
    ELSE IF Survivors(w) = {} THEN <<>> ELSE <<ChosenLabel(w)>>

EmitRow ==
    /\ pc = "emit" /\ row < Len(windows)
    /\ \E w \in {windows[row + 1]} : \E labels \in {EmittedLabels(w)} :
        output' = output \o [n \in DOMAIN labels |-> [left |-> w.row, right |-> labels[n]]]
    /\ row' = row + 1
    /\ UNCHANGED <<call, pc, windows, count, anyVars, treeVars, stairVars, selected>>

\* The rows chosen one by one are emitted in left order.
EmitSelected ==
    /\ pc = "emit_selected" /\ row < LeftLen
    /\ output' = IF selected[row] = None THEN output
                 ELSE Append(output, [left |-> row, right |-> Labels[selected[row]]])
    /\ row' = row + 1
    /\ UNCHANGED <<call, pc, windows, count, anyVars, treeVars, stairVars, selected>>

Return ==
    /\ \/ pc = "emit" /\ row = Len(windows)
       \/ pc = "emit_selected" /\ row = LeftLen
    /\ pc' = IF output = <<>> THEN "none" ELSE "done"
    /\ UNCHANGED <<call, row, windows, count, anyVars, treeVars, stairVars, selected, output>>

-----------------------------------------------------------------------------
\* keep="any" with residuals: the first rows of every window are read, then its
\* last, and only what is still undecided is searched from where the reading
\* stopped.

FirstOf(rows) == IF rows = {} THEN None ELSE Min(rows)

\* The first row of lo .. hi - 1 that satisfies the residuals, pair by pair.
FirstMatch(i, lo, hi) ==
    FirstOf({j \in lo .. hi - 1 : PredicatesMatch(call.residuals, call.nulls, i, j)})

ProbeEnd(w) == Min({w.end, w.start + DirectProbe})

\* A plausible slip: the far end is never looked at.
WithoutLast(w) == FirstMatch(w.row, w.start, ProbeEnd(w))

\* What the first rows say, or else the last.
Probed(w) ==
    IF FirstMatch(w.row, w.start, ProbeEnd(w)) # None
    THEN FirstMatch(w.row, w.start, ProbeEnd(w))
    ELSE IF ProbeEnd(w) < w.end THEN FirstMatch(w.row, w.end - 1, w.end) ELSE None

ProbeRow ==
    /\ pc = "probe" /\ row < Len(windows)
    /\ \E w \in {windows[row + 1]} :
        /\ selected' = [selected EXCEPT ![w.row] = Probed(w)]
        /\ pending' = IF Probed(w) = None /\ ProbeEnd(w) < w.end
                      THEN Append(pending, [w EXCEPT !.start = ProbeEnd(w)]) ELSE pending
    /\ row' = row + 1
    /\ UNCHANGED <<call, pc, windows, count, reader, treeVars, stairVars, output>>

\* The plan is made for what is left of the windows.
EndProbe ==
    /\ pc = "probe" /\ row = Len(windows)
    /\ row' = 0
    /\ pc' = "pending"
    /\ reader' \in IF pending = <<>> THEN {"mask"} ELSE Readers
    /\ UNCHANGED <<call, windows, count, pending, treeVars, stairVars, selected, output>>

SearchRow ==
    /\ pc = "pending" /\ row < Len(pending)
    /\ \E w \in {pending[row + 1]} :
        selected' = [selected EXCEPT ![w.row] =
                        IF reader = "mask" THEN FirstMatch(w.row, w.start, w.end)
                        ELSE FirstOf(Matching(w.row, Slots(w)))]
    /\ row' = row + 1
    /\ UNCHANGED <<call, pc, windows, count, anyVars, treeVars, stairVars, output>>

EndSearch ==
    /\ pc = "pending" /\ row = Len(pending)
    /\ row' = 0
    /\ pc' = "emit_selected"
    /\ UNCHANGED <<call, windows, count, anyVars, treeVars, stairVars, selected, output>>

WindowNext ==
    MeasureRow \/ EndMeasure \/ CountRow \/ EndCount \/ EmitRow \/ EmitSelected \/ Return

ProbeNext == ProbeRow \/ EndProbe \/ SearchRow \/ EndSearch
=============================================================================
