---------------------------- MODULE LayoutPasses ----------------------------
(***************************************************************************)
(* The passes over the layout of RegionLayout when there are no residual   *)
(* predicates (src/src/conditional_join/regions.rs).                       *)
(*                                                                         *)
(* keep="all": keep_all_first_pass counts the pairs of every left row,     *)
(* keep_all_second_pass opens the windows again and copies, rank by rank,  *)
(* the opened prefix of each slice to the place the counts reserved.  The  *)
(* two passes keep separate active counts and agree only if they see the   *)
(* same windows.                                                           *)
(*                                                                         *)
(* keep="first" and "last": keep_first_last_second_pass keeps the best     *)
(* right index of every rank's opened rows, and a left row takes the best  *)
(* over the ranks its label reaches.  The tree that answers the suffix     *)
(* query is in module ActiveRanks.                                         *)
(***************************************************************************)
EXTENDS DualRegions

-----------------------------------------------------------------------------
\* keep="all".

\* activate_ranked_positions: every opened row counts under its rank.
Activated ==
    [r \in Right |-> active_counts[r] + Cardinality(OfRank(Opened, r))]

\* The window of a row is opened whether or not the row matches.
CountRow ==
    /\ Sweeping("count")
    /\ active_counts' = Activated
    /\ IF left_has_match[row]
       THEN rank' = FirstRank /\ matches' = 0 /\ Advance("count_ranks") /\ UNCHANGED row
       ELSE row' = row + 1 /\ Advance("count") /\ UNCHANGED <<rank, matches>>
    /\ UNCHANGED <<pathVars, filterVars, anyVars, layoutVars, left_match_counts,
                   total_size, emitVars, active_best, outVars>>

\* One rank of iter_from(first_rank); ranks without rows add nothing.
CountRank ==
    /\ pc = "count_ranks" /\ rank < RankCount
    /\ matches' = matches + active_counts[rank]
    /\ rank' = rank + 1
    /\ UNCHANGED <<pathVars, pc, sweepVars, filterVars, anyVars, layoutVars,
                   active_counts, left_match_counts, total_size, emitVars,
                   active_best, outVars>>

EndCountRanks ==
    /\ pc = "count_ranks" /\ rank = RankCount
    /\ left_match_counts' = [left_match_counts EXCEPT ![row] = matches]
    /\ total_size' = total_size + matches
    /\ row' = row + 1
    /\ pc' = "count"
    /\ UNCHANGED <<pathVars, previous_end, filterVars, anyVars, layoutVars, rank,
                   active_counts, matches, emitVars, active_best, outVars>>

EndCount ==
    /\ Swept("count")
    /\ pc' = IF total_size = 0 THEN "none" ELSE "offsets"
    /\ Rewind
    /\ UNCHANGED <<pathVars, passVars>>

\* Where a row's pairs begin: after those of the rows before it.
OffsetRow ==
    /\ pc = "offsets" /\ row < LeftLen
    /\ offsets' = [offsets EXCEPT ![row] =
                    IF row = 0 THEN 0 ELSE offsets[row - 1] + left_match_counts[row - 1]]
    /\ row' = row + 1
    /\ UNCHANGED <<pathVars, pc, previous_end, filterVars, anyVars, layoutVars,
                   rank, active_counts, countVars, output_position, positions,
                   active_best, outVars>>

\* The second pass counts afresh.
NoneActive == [r \in Right |-> 0]

EndOffsetRows ==
    /\ Swept("offsets")
    /\ active_counts' = NoneActive
    /\ positions' = [p \in 0 .. total_size - 1 |-> 0]
    /\ Rewind
    /\ pc' = "emit"
    /\ UNCHANGED <<pathVars, filterVars, anyVars, layoutVars, rank, countVars,
                   offsets, output_position, active_best, outVars>>

EmitRow ==
    /\ Sweeping("emit")
    /\ active_counts' = Activated
    /\ IF left_match_counts[row] = 0
       THEN row' = row + 1 /\ Advance("emit") /\ UNCHANGED <<rank, output_position>>
       ELSE /\ rank' = FirstRank
            /\ output_position' = offsets[row]
            /\ Advance("emit_ranks")
            /\ UNCHANGED row
    /\ UNCHANGED <<pathVars, filterVars, anyVars, layoutVars, countVars, offsets,
                   positions, active_best, outVars>>

\* The opened prefix of the rank's slice is copied to the output.
EmitRank ==
    /\ pc = "emit_ranks" /\ rank < RankCount
    /\ positions' =
        [p \in DOMAIN positions |->
            IF p \in output_position .. output_position + active_counts[rank] - 1
            THEN layout_positions[layout_offsets[rank] + p - output_position]
            ELSE positions[p]]
    /\ output_position' = output_position + active_counts[rank]
    /\ rank' = rank + 1
    /\ UNCHANGED <<pathVars, pc, sweepVars, filterVars, anyVars, layoutVars,
                   active_counts, countVars, offsets, active_best, outVars>>

\* "second pass count disagrees with first pass", or on to the next row.
EndEmitRanks ==
    /\ pc = "emit_ranks" /\ rank = RankCount
    /\ pc' = IF output_position # offsets[row] + left_match_counts[row]
             THEN "error" ELSE "emit"
    /\ row' = row + 1
    /\ UNCHANGED <<pathVars, previous_end, passVars>>

EndEmit ==
    /\ Swept("emit")
    /\ pc' = "translate"
    /\ Rewind
    /\ UNCHANGED <<pathVars, passVars>>

\* Positions become index values, row by row.
Translate ==
    /\ pc = "translate" /\ row < LeftLen
    /\ left_output' =
        left_output \o [n \in 1 .. left_match_counts[row] |-> left_order[row]]
    /\ right_output' =
        right_output \o [n \in 1 .. left_match_counts[row] |->
                            call.right_index[positions[offsets[row] + n - 1]]]
    /\ row' = row + 1
    /\ UNCHANGED <<pathVars, pc, previous_end, filterVars, anyVars, layoutVars,
                   rank, active_counts, countVars, emitVars, active_best>>

FinishAll ==
    /\ Swept("translate")
    /\ pc' = "done"
    /\ UNCHANGED <<pathVars, sweepVars, passVars>>

AllNext ==
    CountRow \/ CountRank \/ EndCountRanks \/ EndCount \/ OffsetRow
        \/ EndOffsetRows \/ EmitRow \/ EmitRank \/ EndEmitRanks \/ EndEmit
        \/ Translate \/ FinishAll

-----------------------------------------------------------------------------
\* keep="first" and "last".

\* The value the policy prefers; None of nothing.
Best(S) ==
    IF S = {} THEN None
    ELSE CHOOSE x \in S : \A y \in S : IF call.keep = "first" THEN x <= y ELSE x >= y

\* active_best.update for every opened row with a rank.
Updated ==
    [r \in Right |-> Best(({active_best[r]} \ {None})
                            \union {call.right_index[j] : j \in OfRank(Opened, r)})]

\* suffix_extreme over the ranks from first_rank on.
SuffixBest(best) == Best({best[r] : r \in FirstRank .. RankCount - 1} \ {None})

EmitBest ==
    /\ Sweeping("best")
    /\ active_best' = Updated
    /\ IF /\ left_has_match[row] /\ second.left[row] # 0
          /\ SuffixBest(active_best') # None
       THEN /\ left_output' = Append(left_output, left_order[row])
            /\ right_output' = Append(right_output, SuffixBest(active_best'))
       ELSE UNCHANGED outVars
    /\ row' = row + 1
    /\ Advance("best")
    /\ UNCHANGED <<pathVars, filterVars, anyVars, layoutVars, rank,
                   active_counts, countVars, emitVars>>

FinishBest ==
    /\ Swept("best")
    /\ Compare(match_count)
    /\ UNCHANGED <<pathVars, sweepVars, passVars>>

FirstLastNext == EmitBest \/ FinishBest
=============================================================================
