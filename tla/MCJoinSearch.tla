---------------------------- MODULE MCJoinSearch ----------------------------
(* Every sorted column of MCLen values drawn from 0..MaxValue, ties          *)
(* included, searched for every value inside, between and beyond them.      *)
EXTENDS JoinSearch

CONSTANT MaxValue

MCSearches ==
    { s \in [caller: Callers, op: RangeOps, left: -1 .. MaxValue + 1,
             right: [Offsets -> 0 .. MaxValue]] :
        InOrder(s.caller, s.op, s.right) }
=============================================================================
