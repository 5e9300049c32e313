------------------------- MODULE DualRegionIndices -------------------------
(***************************************************************************)
(* dual_regions_indices and dual_regions_and_residual_indices in           *)
(* src/src/conditional_join/regions.rs: the index join over two range      *)
(* predicates, from the region paths through the passes of the keep        *)
(* policy, and what it promises (module RangeJoin).                        *)
(***************************************************************************)
EXTENDS KeepAny, RegionLayout, ResidualPasses

PathsNext == BuildFirst \/ BuildSecond \/ OrderLeft \/ FindStarts \/ ReturnNone

Next ==
    PathsNext \/ SkipInactive \/ AnyNext \/ LayoutNext \/ AllNext \/ FirstLastNext
        \/ ResidualNext

Spec == Init /\ [][Next]_vars /\ WF_vars(Next)

-----------------------------------------------------------------------------

PathsTypeOK ==
    /\ call \in Calls
    /\ first \in [left: [Left -> Nat], right: [Right -> Nat]]
    /\ second \in [left: [Left -> Nat], right: [Right -> Nat]]
    /\ left_order \in Permutations(Left)
    /\ starts \in Boundaries

SweepTypeOK ==
    /\ row \in 0 .. LeftLen
    /\ previous_end \in 0 .. RightLen
    /\ match_count \in 0 .. LeftLen
    /\ left_has_match \in [Left -> BOOLEAN]
    /\ max_right_region \in BelowLabels .. LeftLen
    /\ max_right_position \in Right \union {None}
    /\ selected \in [Left -> Right \union {None}]

OutputTypeOK ==
    /\ rank \in 0 .. RightLen
    /\ active_counts \in [Right -> 0 .. RightLen]
    /\ left_match_counts \in [Left -> 0 .. RightLen]
    /\ left_output \in Seq(Left)
    /\ right_output \in Seq({call.right_index[j] : j \in Right})

TypeOK == PathsTypeOK /\ SweepTypeOK /\ OutputTypeOK

-----------------------------------------------------------------------------
\* What the join promises.

\* The pair satisfies both range predicates: the right row lies in both windows.
Matches(i, j) == call.first[i] <= j /\ call.second[i] <= call.alignment[j]

Joined(i, j) == Matches(i, j) /\ (call.has_residuals => <<i, j>> \in call.residual)

\* The right labels of a left row's matches.
MatchingLabels(i) == {call.right_index[j] : j \in {k \in Right : Joined(i, k)}}

\* The search positions whose output is complete.
Answered ==
    IF pc \in {"none", "done"} THEN Left
    ELSE IF pc \in {"emit_any", "translate", "best", "emit_selected", "ask_again"} THEN {k \in Left : k < row}
    ELSE {}

\* The labels emitted for original left row i.
Emitted(i) == {right_output[n] : n \in {m \in DOMAIN left_output : left_output[m] = i}}

\* The join that the call is an instance of.
Request == [keep |-> call.keep, matches |-> [i \in Left |-> MatchingLabels(i)]]

Answer ==
    [i \in Left |-> IF \E k \in Answered : left_order[k] = i THEN Emitted(i) ELSE None]

Requests == [keep: Keeps, matches: [Left -> SUBSET Int]]

Join == INSTANCE RangeJoin
            WITH Rows <- Left, Pending <- None, request <- Request, answer <- Answer

\* The passes together are the join: no left row is answered twice, or other than
\* with what its keep policy allows among the right rows that satisfy both
\* predicates and the residual ones, whatever the order they are answered in.
AnswersAsRangeJoin == Join!Safety

\* A pair is put out once, which RangeJoin, where an answer is a set, does not
\* see: if no two right rows have one label, no two places of the output agree.
NoPairTwice ==
    (\A j, k \in Right : call.right_index[j] = call.right_index[k] => j = k) =>
        \A m, n \in DOMAIN left_output :
            left_output[m] = left_output[n] /\ right_output[m] = right_output[n] => m = n

\* Whatever the paths, the policy and the residual predicates, no row is forgotten:
\* every left row has its answer in the end, be it that it has none.
AnswersEveryRow == <>Join!AllAnswered

\* The later pass of a policy yields exactly what its earlier pass counted, the
\* layout is filled as it was sized, and windows only grow: none of the
\* internal errors of the kernels can be returned.
PassesAgree == pc # "error"

\* In every sweep, the window of a row reaches at least as far left as all that
\* is open: "starts must be monotonically non-increasing" is never the answer,
\* whatever order the unstable sort gives to equal labels.
NeverOutOfOrder ==
    pc \in Sweeps /\ row < LeftLen /\ ~Inactive => starts[row] <= previous_end

\* Between the passes that size, fill and read the layout: at every row of the
\* counting and of the emitting sweep, and of the two walks that ask residual
\* predicates, the rows of a rank that are open are the prefix of its slice that the active count delimits.
ActivePrefix ==
    pc \in {"count", "count_ranks", "emit", "emit_ranks", "ask", "ask_again"} =>
        \A r \in 0 .. RankCount - 1 :
            OfRank(previous_end .. RightLen - 1, r) =
                { layout_positions[layout_offsets[r] + n] :
                    n \in 0 .. active_counts[r] - 1 }

\* The running maximum decides: once the filter is through, a left row is
\* flagged exactly when some right row satisfies both range predicates.
FilterIsExact ==
    pc \in {"totals", "slices", "place", "count", "best", "ask"} =>
        \A k \in Left :
            left_has_match[k] <=> \E j \in Right : Matches(left_order[k], j)

\* keep="any" selects soundly and completely: once its first pass is through, a
\* left row has a selected right row exactly when it has a match, and the
\* selected row, which an earlier left row may have opened, is one.
SelectionIsExact ==
    pc = "emit_any" =>
        \A k \in Left :
            /\ selected[k] = None <=> \A j \in Right : ~Matches(left_order[k], j)
            /\ selected[k] # None => Matches(left_order[k], selected[k])

\* "Emit every matching pair in physical right-array order", as Keep::All has
\* it: the right positions reserved for a left row ascend.
AllInRightOrder ==
    pc = "translate" =>
        \A k \in Left :
            \A m, n \in offsets[k] .. offsets[k] + left_match_counts[k] - 1 :
                m < n => positions[m] < positions[n]
=============================================================================
