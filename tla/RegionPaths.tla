---------------------------- MODULE RegionPaths ----------------------------
(***************************************************************************)
(* Region labels as a function of the window boundaries                    *)
(* (src/src/conditional_join/regions.rs).  A range predicate gives every   *)
(* left row the offset at which its window of right rows begins; the label *)
(* of a right row is the number of windows that have begun by then, and a  *)
(* left row wears the label of the offset its own window begins at.  Left  *)
(* row i then matches right row j exactly when its label does not exceed   *)
(* the label of j, which is how one integer stands for a comparison.       *)
(***************************************************************************)
EXTENDS Integers, FiniteSets

CONSTANTS LeftLen, RightLen     \* lengths of the two columns

ASSUME LengthsAssumption == LeftLen \in Nat /\ RightLen \in Nat

Left  == 0 .. LeftLen - 1
Right == 0 .. RightLen - 1

\* A boundary of RightLen is an empty window.
Boundaries == [Left -> 0 .. RightLen]

\* Off by one: a window begins just after its boundary.
BegunAfter(b, j) == {i \in Left : b[i] < j}

\* The left rows whose windows have begun by right offset j.
Begun(b, j) == {i \in Left : b[i] <= j}

RightLabels(b) == [j \in Right |-> Cardinality(Begun(b, j))]

\* 0 is reserved for rows whose window is empty.
LeftLabels(b) ==
    [i \in Left |-> IF b[i] = RightLen THEN 0 ELSE Cardinality(Begun(b, b[i]))]

NoWindow(b) == \A i \in Left : b[i] = RightLen

\* The offset before which an ascending f stays below x, and at and after
\* which it does not: partition_point, whose loop is module JoinSearch.
PartitionPoint(f, x) ==
    CHOOSE s \in 0 .. RightLen : \A j \in Right : j < s <=> f[j] < x

Permutations(S) == {f \in [S -> S] : \A x, y \in S : f[x] = f[y] => x = y}
=============================================================================
