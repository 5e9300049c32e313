-------------------------- MODULE MCRangeSkipScan --------------------------
(* Blocks of two rows, super-blocks of two blocks, and a last block that is *)
(* half full.  For each operator a probe that one of the two values passes. *)
(* Windows are wide enough to be walked, or just too narrow, or empty.      *)
EXTENDS RangeSkipScan

Probe(op) == IF op \in {"<", ">="} THEN 0 ELSE 1

Wide == {w \in (0 .. RightLen) \X (0 .. RightLen) : w[2] - w[1] >= DirectWidth - 1 \/ w = <<3, 3>>}

Every ==
    { [walk |-> k, op |-> o, left |-> Probe(o), values |-> v, start |-> w[1], end |-> w[2],
       summarized |-> b, stop |-> s] :
      k \in Walks, o \in RangeOps, v \in [Positions -> 0 .. 1], w \in Wide,
      b \in BOOLEAN, s \in BOOLEAN }

MCScans == {s \in Every : s.walk = "count" => ~s.stop}
=============================================================================
