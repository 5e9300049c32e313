---------------------------- MODULE RegionLayout ----------------------------
(***************************************************************************)
(* What keep="all", "first", "last" and residual predicates share: the     *)
(* filter (count_matching_left_rows) that finds which left rows match, and *)
(* the flat layout of right positions by label rank                        *)
(* (build_ranked_region_position_layout), both in                          *)
(* src/src/conditional_join/regions.rs.  Each rank owns a slice, filled in *)
(* the order the sweep opens positions, so that at any moment of a later   *)
(* sweep the opened positions of a rank are a prefix of its slice.         *)
(***************************************************************************)
EXTENDS DualRegions

\* Forgets the rows that earlier windows opened.
LargestOpened ==
    LET seen == {BelowLabels} \union {second.right[j] : j \in Opened}
    IN  CHOOSE l \in seen : \A k \in seen : k <= l

\* The largest second label in the window once the row's rows are opened.
LargestLabel ==
    LET seen == {max_right_region} \union {second.right[j] : j \in Opened}
    IN  CHOOSE l \in seen : \A k \in seen : k <= l

FilterRow ==
    /\ Sweeping("filter")
    /\ max_right_region' = LargestLabel
    /\ IF second.left[row] # 0 /\ second.left[row] <= max_right_region'
       THEN /\ left_has_match' = [left_has_match EXCEPT ![row] = TRUE]
            /\ match_count' = match_count + 1
       ELSE UNCHANGED <<left_has_match, match_count>>
    /\ row' = row + 1
    /\ Advance("filter")
    /\ UNCHANGED <<pathVars, anyVars, layoutVars, rank, active_counts, countVars,
                   emitVars, active_best, outVars>>

\* No left row matches: every later pass would be empty.
EndFilter ==
    /\ Swept("filter")
    /\ pc' = IF match_count = 0 THEN "none" ELSE "totals"
    /\ Rewind
    /\ UNCHANGED <<pathVars, passVars>>

\* Only positions some window opens get a place.
TotalRow ==
    /\ Sweeping("totals")
    /\ active_totals' =
        [r \in Right |-> active_totals[r] + Cardinality(OfRank(Opened, r))]
    /\ row' = row + 1
    /\ Advance("totals")
    /\ UNCHANGED <<pathVars, filterVars, anyVars, layout_offsets,
                   layout_positions, position_counts, rank, active_counts,
                   countVars, emitVars, active_best, outVars>>

EndTotals ==
    /\ Swept("totals")
    /\ pc' = "slices"
    /\ rank' = 0
    /\ UNCHANGED <<pathVars, sweepVars, filterVars, anyVars, layoutVars,
                   active_counts, countVars, emitVars, active_best, outVars>>

\* Where the next slice begins: position_total.
PositionTotal ==
    IF rank = 0 THEN 0 ELSE layout_offsets[rank - 1] + active_totals[rank - 1]

OffsetRank ==
    /\ pc = "slices" /\ rank < RankCount
    /\ layout_offsets' = [layout_offsets EXCEPT ![rank] = PositionTotal]
    /\ rank' = rank + 1
    /\ UNCHANGED <<pathVars, pc, sweepVars, filterVars, anyVars, active_totals,
                   layout_positions, position_counts, active_counts, countVars,
                   emitVars, active_best, outVars>>

EndOffsets ==
    /\ pc = "slices" /\ rank = RankCount
    /\ layout_positions' = [p \in 0 .. PositionTotal - 1 |-> 0]
    /\ Rewind
    /\ pc' = "place"
    /\ UNCHANGED <<pathVars, filterVars, anyVars, active_totals, layout_offsets,
                   position_counts, rank, active_counts, countVars, emitVars,
                   active_best, outVars>>


\* Every window fills its slices from the start.
PlaceUnshifted(j) ==
    layout_offsets[Rank(j)] + Cardinality({k \in OfRank(Opened, Rank(j)) : k < j})

\* The slot of an opened position: after those of its rank placed before it.
Place(j) ==
    layout_offsets[Rank(j)] + position_counts[Rank(j)]
        + Cardinality({k \in OfRank(Opened, Rank(j)) : k < j})

PlaceRow ==
    /\ Sweeping("place")
    /\ layout_positions' =
        [p \in DOMAIN layout_positions |->
            IF \E j \in Opened : Rank(j) # NoRank /\ Place(j) = p
            THEN CHOOSE j \in Opened : Rank(j) # NoRank /\ Place(j) = p
            ELSE layout_positions[p]]
    /\ position_counts' =
        [r \in Right |-> position_counts[r] + Cardinality(OfRank(Opened, r))]
    /\ row' = row + 1
    /\ Advance("place")
    /\ UNCHANGED <<pathVars, filterVars, anyVars, active_totals, layout_offsets,
                   rank, active_counts, countVars, emitVars, active_best, outVars>>

\* "layout count disagrees with the sweep", or on to the pass of the policy.
EndPlace ==
    /\ Swept("place")
    /\ pc' = IF position_counts # active_totals THEN "error"
             ELSE IF call.has_residuals THEN "ask"
             ELSE IF call.keep = "all" THEN "count" ELSE "best"
    /\ Rewind
    /\ UNCHANGED <<pathVars, passVars>>

LayoutNext ==
    FilterRow \/ EndFilter \/ TotalRow \/ EndTotals
        \/ OffsetRank \/ EndOffsets \/ PlaceRow \/ EndPlace
=============================================================================
