--------------------------- MODULE EnvelopeSweep ---------------------------
(***************************************************************************)
(* keep="first" and keep="last" of the extended join when its second       *)
(* anchor is the running extreme, the envelope, of its only residual       *)
(* (select_envelope_rank_sweep in range_join.rs).  The envelope can then   *)
(* be dropped: right rows are inserted, in the order in which the windows  *)
(* of the first anchor grow, into a Fenwick tree over the ranks of the     *)
(* residual's values, and each left row asks it once.                      *)
(*                                                                         *)
(* An estimate of the candidates, from samples, comes first; estimates of  *)
(* the work then allow the sweep or not, which is left open here.          *)
(***************************************************************************)
EXTENDS WindowJoin

\* No candidates, no pairs.
NoCandidates ==
    /\ pc = "width"
    /\ ~SeesCandidates(call.anchors)
    /\ pc' = "none"
    /\ UNCHANGED <<call, row, windows, count, anyVars, treeVars, stairVars, selected, output>>

\* The windows are measured and their rows read.
Decline ==
    /\ pc = "width"
    /\ SeesCandidates(call.anchors)
    /\ pc' = "measure"
    /\ UNCHANGED <<call, row, windows, count, anyVars, treeVars, stairVars, selected, output>>

-----------------------------------------------------------------------------
\* The sweep.

Residual == call.residuals[1]

RankCount == Cardinality(Values(Residual.right))

Rank(j) == RightRank(Residual, j)

Threshold(i) == LeftThreshold(Residual, i)

StartSweep ==
    /\ pc = "width"
    /\ SeesCandidates(call.anchors)
    /\ IsEnvelope(call.anchors[2], Residual)
    /\ tree' = [slot \in 1 .. RankCount |-> None]
    /\ pc' = "sweep"
    /\ UNCHANGED <<call, row, windows, count, anyVars, spans, query, stairVars,
                   selected, output>>

\* Right rows visible to left row i, in the order of insertion; none if no rank
\* reaches its threshold.
Visible(i) ==
    IF Threshold(i) >= RankCount THEN 0
    ELSE IF call.anchors[1].op \in SuffixOps
    THEN RightLen - Start(call.anchors[1], i)
    ELSE End(call.anchors[1], i)

\* The right row that is the nth to be inserted, counting from 0.
Inserted(n) == IF call.anchors[1].op \in SuffixOps THEN RightLen - 1 - n ELSE n

LowestBit(slot) ==
    CHOOSE bit \in 1 .. slot :
        /\ slot % bit = 0 /\ (slot \div bit) % 2 = 1
        /\ \E k \in 0 .. slot : bit = 2 ^ k

\* The slots that cover a slot, and those that together cover all up to it.
Covering(slot) == {s \in slot .. RankCount : slot > s - LowestBit(s)}

Better(j, k) == k = None \/ (j # k /\ Labels[j] = Extreme({Labels[j], Labels[k]}))

\* A plausible slip: a slot keeps the row that came last.
InsertLast(j) ==
    [slot \in 1 .. RankCount |-> IF slot \in Covering(RankCount - Rank(j)) THEN j ELSE tree[slot]]

\* The tree with right row j in it.
Insert(j) ==
    [slot \in 1 .. RankCount |->
        IF slot \in Covering(RankCount - Rank(j)) /\ Better(j, tree[slot]) THEN j ELSE tree[slot]]

\* The best right row at or below a slot.
Best(nodes, slot) ==
    LET path[s \in 0 .. RankCount] == IF s = 0 THEN {} ELSE {nodes[s]} \union path[s - LowestBit(s)]
        rows == path[slot] \ {None}
    IN  IF rows = {} THEN None ELSE CHOOSE j \in rows : \A k \in rows \ {j} : Better(j, k)

\* One right row becomes visible, and the left rows that see no more are answered.
SweepRow ==
    /\ pc = "sweep" /\ row < RightLen
    /\ \E nodes \in {Insert(Inserted(row))} :
        /\ tree' = nodes
        /\ selected' = [i \in Left |-> IF Visible(i) = row + 1
                                       THEN Best(nodes, RankCount - Threshold(i)) ELSE selected[i]]
    /\ row' = row + 1
    /\ UNCHANGED <<call, pc, windows, count, anyVars, spans, query, stairVars, output>>

EndSweep ==
    /\ pc = "sweep" /\ row = RightLen
    /\ row' = 0
    /\ pc' = "emit_selected"
    /\ UNCHANGED <<call, windows, count, anyVars, treeVars, stairVars, selected, output>>

SweepNext == NoCandidates \/ Decline \/ StartSweep \/ SweepRow \/ EndSweep
=============================================================================
