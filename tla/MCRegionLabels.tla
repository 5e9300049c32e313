--------------------------- MODULE MCRegionLabels ---------------------------
(* Every pair of columns over 0..MaxValue in every operator's search order, *)
(* as the first predicate (no optional argument) and as a later one (a      *)
(* filter, an alignment that may be faulty, and a mask that zeroes a prefix, *)
(* which is what the first predicate's ascending labels can zero).           *)
EXTENDS RegionLabels

CONSTANT MaxValue

Columns ==
    { c \in [op: RangeOps, left: [Left -> 0 .. MaxValue],
             right: [Right -> 0 .. MaxValue]] : SearchOrder(c.op, c.right) }

\* Permutations, and one alignment for each way of not being one: a repeated
\* position, a negative one, one beyond the column, and a wrong length.
Alignments ==
    Permutations(Right) \union
    { [j \in Right |-> 0],
      [j \in Right |-> j - 1],
      [j \in Right |-> j + 1],
      [j \in 0 .. RightLen |-> j] }

Filters == { f \in [Left -> 0 .. 1] : \E i \in Left : f[i] # 0 }

Masks == { [j \in Right |-> IF j < k THEN 0 ELSE 1] : k \in 0 .. RightLen - 1 }

Extended(c, f, a, m) ==
    [op |-> c.op, left |-> c.left, right |-> c.right,
     filter |-> f, alignment |-> a, mask |-> m]

MCCalls ==
    { Extended(c, None, None, None) : c \in Columns } \union
    { Extended(c, f, a, m) :
        c \in Columns, f \in Filters, a \in Alignments, m \in Masks }
=============================================================================
