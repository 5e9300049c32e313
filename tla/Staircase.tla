----------------------------- MODULE Staircase -----------------------------
(***************************************************************************)
(* The existence join over two range predicates, whose right columns come  *)
(* in any order (staircase_any in src/src/conditional_join/                *)
(* staircase_any.rs).  The right rows are sorted by the first column.      *)
(* What satisfies the first predicate is then a suffix or a prefix, and    *)
(* for each of those a witness is kept, the row that is best in the second *)
(* column.  Left rows are searched several at a time, and the rest one by  *)
(* one.                                                                    *)
(***************************************************************************)
EXTENDS WindowJoin

CONSTANT Lanes      \* left rows searched together: 8 in the code

ASSUME StaircaseAssumption == Lanes \in Nat \ {0}

X == call.anchors[1]
Y == call.anchors[2]

\* The nth row of the sorted right side.
SortedX(n) == X.right[order[n]]
SortedY(n) == Y.right[order[n]]

Suffix == X.op \in SuffixOps

\* The orders the sort may give: it leaves rows with equal values in any order,
\* and is not run on a column that ascends.
Orders ==
    IF Ascends(X.right) THEN {[n \in Right |-> n]}
    ELSE {o \in Permutations(Right) : Ascends([n \in Right |-> X.right[o[n]]])}

Sort ==
    /\ pc = "sort"
    /\ order' \in Orders
    /\ pc' = "witness"
    /\ UNCHANGED <<call, row, windows, count, anyVars, treeVars, witness, selected, output>>

\* Is the second value of sorted row n better than that of m?
BetterY(n, m) ==
    IF Y.op \in {">", ">="} THEN SortedY(n) < SortedY(m) ELSE SortedY(n) > SortedY(m)

\* The best sorted row of every suffix, or of every prefix.
Witnesses ==
    LET best[n \in Right] ==
            IF n = IF Suffix THEN RightLen - 1 ELSE 0 THEN n
            ELSE LET held == best[IF Suffix THEN n + 1 ELSE n - 1]
                 IN  IF BetterY(n, held) THEN n ELSE held
    IN  best

KeepWitnesses ==
    /\ pc = "witness"
    /\ witness' = Witnesses
    /\ pc' = "batches"
    /\ UNCHANGED <<call, row, windows, count, anyVars, treeVars, order, selected, output>>

-----------------------------------------------------------------------------
\* The search.

\* Counted are the values below the key: strictly for <= and >, else equals too.
BelowKey(i, n) ==
    IF X.op \in {"<=", ">"} THEN SortedX(n) < X.left[i] ELSE SortedX(n) <= X.left[i]

\* prefix_lens, one lane of it: every key halves the same sizes.
PrefixLens(i) ==
    LET base[b \in Right, size \in 1 .. RightLen] ==
            IF size = 1 THEN b + (IF BelowKey(i, b) THEN 1 ELSE 0)
            ELSE LET half == size \div 2
                 IN  base[IF BelowKey(i, b + half - 1) THEN b + half ELSE b, size - half]
    IN  base[0, RightLen]

\* prefix_len, the standard library's partition point.
PrefixLen(i) == Cardinality({n \in Right : BelowKey(i, n)})

\* The pair of left row i, if the witness of its cut satisfies the second
\* predicate.
Finished(i, cut) ==
    IF cut = IF Suffix THEN RightLen ELSE 0 THEN <<>>
    ELSE LET held == witness[IF Suffix THEN cut ELSE cut - 1]
         IN  IF Apply(Y.op, Y.left[i], SortedY(held))
             THEN <<[left |-> i, right |-> Labels[order[held]]]>>
             ELSE <<>>

Batches == LeftLen \div Lanes

\* The rows of a batch are finished one after the other.
FinishLane ==
    /\ pc = "batches" /\ row < Batches * Lanes
    /\ output' = output \o Finished(row, PrefixLens(row))
    /\ row' = row + 1
    /\ UNCHANGED <<call, pc, windows, count, anyVars, treeVars, stairVars, selected>>

\* A plausible slip: the tail is every row.
FromTheFirst == 0

TailStart == Batches * Lanes

EndBatches ==
    /\ pc = "batches" /\ row = Batches * Lanes
    /\ row' = TailStart
    /\ pc' = "tail"
    /\ UNCHANGED <<call, windows, count, anyVars, treeVars, stairVars, selected, output>>

FinishTail ==
    /\ pc = "tail" /\ row < LeftLen
    /\ output' = output \o Finished(row, PrefixLen(row))
    /\ row' = row + 1
    /\ UNCHANGED <<call, pc, windows, count, anyVars, treeVars, stairVars, selected>>

EndStaircase ==
    /\ pc = "tail" /\ row = LeftLen
    /\ pc' = IF output = <<>> THEN "none" ELSE "done"
    /\ UNCHANGED <<call, row, windows, count, anyVars, treeVars, stairVars, selected, output>>

StaircaseNext ==
    Sort \/ KeepWitnesses \/ FinishLane \/ EndBatches \/ FinishTail \/ EndStaircase
=============================================================================
