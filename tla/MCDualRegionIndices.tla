------------------------ MODULE MCDualRegionIndices ------------------------
(* Every second predicate against one first predicate for each multiset of   *)
(* windows: exchanging left rows in both predicates changes only the names   *)
(* of the rows, so the windows of the first may be listed in any fixed       *)
(* order, here one that the search order must change.  The alignments are    *)
(* an exchange and a rotation, which is not its own inverse.                 *)
(* Right labels neither ascend nor descend.  Residual predicates, where there *)
(* are any, reject a pair of each row.                                       *)
EXTENDS DualRegionIndices

Listed(b) == \A i, k \in Left : (i + 1) % LeftLen < (k + 1) % LeftLen => b[i] <= b[k]

Exchange == [j \in Right |-> IF j = 0 THEN 1 ELSE IF j = 1 THEN 0 ELSE j]
Rotation == [j \in Right |-> (j + 1) % RightLen]

Built(alignments, flags, residuals) ==
    [keep: Keeps, first: {b \in Boundaries : Listed(b)}, second: Boundaries,
     alignment: alignments, right_index: {[j \in Right |-> (2 * j + 1) % RightLen]},
     has_residuals: flags, residual: residuals]

Selective == {p \in Left \X Right : p[1] # p[2]}

MCCalls ==
    Built({Exchange, Rotation}, {FALSE}, {{}}) \union Built({Rotation}, {TRUE}, {Selective})
=============================================================================
