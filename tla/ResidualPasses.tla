--------------------------- MODULE ResidualPasses ---------------------------
(***************************************************************************)
(* The passes of dual_regions_and_residual_indices                         *)
(* (src/src/conditional_join/regions.rs), after the filter and the layout. *)
(* Every candidate of a left row, rank by rank through the opened          *)
(* prefixes, is asked of the residual predicates.  The first walk counts   *)
(* those that pass, or finds the first; the second walk, with active       *)
(* counts of its own, asks again and puts out.                             *)
(***************************************************************************)
EXTENDS LayoutPasses

\* The candidates of the row: the slots of the opened prefixes, from the row's
\* rank on.  Slices lie in the order of their ranks, so a walk over ranks and,
\* in each, over its prefix takes the slots in ascending order.
Slots(active) ==
    UNION { layout_offsets[r] .. layout_offsets[r] + active[r] - 1 :
            r \in FirstRank .. RankCount - 1 }

\* Residual predicates are asked of the original left row.
AcceptsResidual(j) == <<left_order[row], j>> \in call.residual

Passing(active) == {s \in Slots(active) : AcceptsResidual(layout_positions[s])}

\* stop_after_first, for every policy but all.
Met(found) ==
    IF call.keep = "all" THEN found ELSE {s \in found : \A t \in found : s <= t}

\* A row of collect_dual_residual_candidates.
AskRow ==
    /\ Sweeping("ask")
    /\ active_counts' = Activated
    /\ \E found \in {IF left_has_match[row] /\ second.left[row] # 0
                     THEN Met(Passing(active_counts')) ELSE {}} :
        /\ left_match_counts' = [left_match_counts EXCEPT ![row] = Cardinality(found)]
        /\ total_size' = total_size + Cardinality(found)
        /\ \/ (call.keep = "all" \/ found = {}) /\ UNCHANGED selected
           \/ /\ call.keep # "all"
              /\ \E s \in found : selected' = [selected EXCEPT ![row] = layout_positions[s]]
    /\ row' = row + 1
    /\ Advance("ask")
    /\ UNCHANGED <<pathVars, filterVars, max_right_position, layoutVars, rank, matches,
                   emitVars, active_best, outVars>>

\* any has its rows already.
EndAsk ==
    /\ Swept("ask")
    /\ pc' = IF total_size = 0 THEN "none"
             ELSE IF call.keep = "any" THEN "emit_selected" ELSE "ask_again"
    /\ active_counts' = NoneActive
    /\ Rewind
    /\ UNCHANGED <<pathVars, filterVars, anyVars, layoutVars, rank, countVars, emitVars,
                   active_best, outVars>>

EmitSelected ==
    /\ pc = "emit_selected" /\ row < LeftLen
    /\ IF selected[row] = None
       THEN UNCHANGED outVars
       ELSE /\ left_output' = Append(left_output, left_order[row])
            /\ right_output' = Append(right_output, call.right_index[selected[row]])
    /\ row' = row + 1
    /\ UNCHANGED <<pathVars, pc, previous_end, filterVars, anyVars, layoutVars, rank,
                   active_counts, countVars, emitVars, active_best>>

FinishSelected ==
    /\ Swept("emit_selected")
    /\ pc' = "done"
    /\ UNCHANGED <<pathVars, sweepVars, passVars>>

\* A walk that is started over for every slot.
NthRestarted(found, n) == CHOOSE s \in found : Cardinality({t \in found : t <= s}) = 1

\* The n-th slot that the walk meets.
Nth(found, n) == CHOOSE s \in found : Cardinality({t \in found : t <= s}) = n

LabelOf(slot) == call.right_index[layout_positions[slot]]

\* All labels, or the best of them.
Chosen(found) ==
    IF call.keep = "all" \/ found = {}
    THEN [n \in 1 .. Cardinality(found) |-> LabelOf(Nth(found, n))]
    ELSE <<Best({LabelOf(s) : s \in found})>>

\* A row of materialize_dual_residual_indices or of its selecting counterpart.
AskAgainRow ==
    /\ Sweeping("ask_again")
    /\ active_counts' = Activated
    /\ \E labels \in {Chosen(IF second.left[row] # 0 /\ left_match_counts[row] # 0
                             THEN Passing(active_counts') ELSE {})} :
        /\ left_output' = left_output \o [n \in DOMAIN labels |-> left_order[row]]
        /\ right_output' = right_output \o labels
    /\ row' = row + 1
    /\ Advance("ask_again")
    /\ UNCHANGED <<pathVars, filterVars, anyVars, layoutVars, rank, countVars, emitVars,
                   active_best>>

\* "count disagrees with first pass"
FinishAsk ==
    /\ Swept("ask_again")
    /\ Compare(total_size)
    /\ UNCHANGED <<pathVars, sweepVars, passVars>>

ResidualNext ==
    AskRow \/ EndAsk \/ EmitSelected \/ FinishSelected \/ AskAgainRow \/ FinishAsk
=============================================================================
