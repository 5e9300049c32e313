------------------------------ MODULE KeepAny ------------------------------
(***************************************************************************)
(* keep="any": count_any_matches and keep_any_second_pass in               *)
(* src/src/conditional_join/regions.rs.  The sweep remembers the largest   *)
(* second label opened so far and the right row it was seen at first; a    *)
(* left row whose label it reaches takes that row as its match.            *)
(***************************************************************************)
EXTENDS DualRegions

\* The opened rows that raise the running maximum to its new value.
NewLargest ==
    { j \in Opened :
        /\ second.right[j] > max_right_region
        /\ \A k \in Opened : second.right[k] <= second.right[j] }

\* The comparison is strict, so the leftmost of them is remembered.
RaiseMaximum ==
    IF NewLargest = {}
    THEN UNCHANGED <<max_right_region, max_right_position>>
    ELSE LET j == CHOOSE j \in NewLargest : \A k \in NewLargest : j <= k
         IN  max_right_region' = second.right[j] /\ max_right_position' = j

\* The largest label in the row's window is at least the row's own.
Reached == second.left[row] # 0 /\ second.left[row] <= max_right_region'

CountAny ==
    /\ Sweeping("any")
    /\ RaiseMaximum
    /\ IF Reached
       THEN /\ selected' = [selected EXCEPT ![row] = max_right_position']
            /\ match_count' = match_count + 1
       ELSE UNCHANGED <<selected, match_count>>
    /\ row' = row + 1
    /\ Advance("any")
    /\ UNCHANGED <<pathVars, left_has_match, layoutVars, rank, active_counts,
                   countVars, emitVars, active_best, outVars>>

EndAny ==
    /\ Swept("any")
    /\ pc' = IF match_count = 0 THEN "none" ELSE "emit_any"
    /\ Rewind
    /\ UNCHANGED <<pathVars, passVars>>

EmitAny ==
    /\ pc = "emit_any" /\ row < LeftLen
    /\ IF selected[row] = None
       THEN UNCHANGED outVars
       ELSE /\ left_output' = Append(left_output, left_order[row])
            /\ right_output' = Append(right_output, call.right_index[selected[row]])
    /\ row' = row + 1
    /\ UNCHANGED <<pathVars, pc, previous_end, filterVars, anyVars, layoutVars,
                   rank, active_counts, countVars, emitVars, active_best>>

FinishAny ==
    /\ Swept("emit_any")
    /\ Compare(match_count)
    /\ UNCHANGED <<pathVars, sweepVars, passVars>>

AnyNext == CountAny \/ EndAny \/ EmitAny \/ FinishAny
=============================================================================
