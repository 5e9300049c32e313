----------------------------- MODULE WindowJoins -----------------------------
(***************************************************************************)
(* The index joins over windows together (module WindowJoin and those that *)
(* extend it), and what each entry point promises (module RangeJoin).      *)
(***************************************************************************)
EXTENDS PackedExtremes, EnvelopeSweep, Staircase

Next == WindowNext \/ ExtremesNext \/ ProbeNext \/ SweepNext \/ StaircaseNext

Spec == Init /\ [][Next]_vars /\ WF_vars(Next)

-----------------------------------------------------------------------------
\* What the joins promise.

\* A comparison with a null: not known, which rejects, in an extension array; in
\* NumPy != holds for it.
Judged(n, i, j) ==
    IF call.nulls # <<>> /\ call.nulls[n].masked
       /\ (i \in call.nulls[n].left \/ j \in call.nulls[n].right)
    THEN ~call.nulls[n].extension
    ELSE Accepts(call.residuals[n], i, j)

\* The pair satisfies every predicate of the call.
Matches(i, j) ==
    /\ \A n \in DOMAIN call.anchors : Accepts(call.anchors[n], i, j)
    /\ \A n \in DOMAIN call.residuals : Judged(n, i, j)

MatchingLabels(i) == {Labels[j] : j \in {k \in Right : Matches(i, k)}}

\* The left rows whose output is complete.
Answered ==
    CASE pc \in {"none", "done"} -> Left
      [] pc \in {"emit_selected", "batches", "tail"} -> {i \in Left : i < row}
      [] pc = "emit" -> {i \in Left : \E n \in 1 .. row : i <= windows[n].row}
      [] OTHER -> {}

Emitted(i) == {output[n].right : n \in {m \in DOMAIN output : output[m].left = i}}

\* The join that the call is an instance of.
Request == [keep |-> call.keep, matches |-> [i \in Left |-> MatchingLabels(i)]]

Answer == [i \in Left |-> IF i \in Answered THEN Emitted(i) ELSE None]

Requests == [keep: Keeps, matches: [Left -> SUBSET Int]]

Join == INSTANCE RangeJoin
            WITH Rows <- Left, Pending <- None, request <- Request, answer <- Answer

\* Each entry point is the join: whichever way the windows are found and read,
\* every left row is answered once with what its keep policy allows among the
\* right rows that satisfy all predicates; and the call returns.
ImplementsRangeJoin == Join!Spec

\* "preserve left input order" and "emit every physical right row": pairs are
\* emitted by left row and within a row by right position, each of them once.
KeepsInputOrder ==
    \A m, n \in DOMAIN output : m < n =>
        \/ output[m].left < output[n].left
        \/ /\ output[m].left = output[n].left
           /\ \E j, k \in Right :
                j < k /\ output[m].right = Labels[j] /\ output[n].right = Labels[k]

\* The anchors bound the windows on opposite sides.
Opposing == call.anchors[1].op \in SuffixOps <=> call.anchors[2].op \notin SuffixOps

\* "A window whose second anchor is the cumulative envelope of the only residual
\* always has a match at one of its two ends": when the anchors are opposing, the
\* first rows and the last one decide every window, and nothing is left pending.
EnvelopeEndsDecide ==
    /\ pc = "pending" /\ call.entry = "extended" /\ Len(call.residuals) = 1
    /\ Opposing /\ IsEnvelope(call.anchors[2], Residual)
    => pending = <<>>

\* The slots s - LowestBit(s) + 1 .. s hold the rows inserted so far whose ranks,
\* counted down, fall among them; node s of the tree is the best of these,
\* although rows come in window order and ranks repeat.
FenwickIsExact ==
    pc = "sweep" =>
        \A slot \in DOMAIN tree :
            LET rows == {j \in {Inserted(n) : n \in 0 .. row - 1} :
                            RankCount - Rank(j) \in slot - LowestBit(slot) + 1 .. slot}
            IN  IF rows = {} THEN tree[slot] = None
                ELSE /\ tree[slot] \in rows
                     /\ \A j \in rows : Labels[tree[slot]] = Extreme({Labels[tree[slot]], Labels[j]})
=============================================================================
