----------------------------- MODULE CompareOp -----------------------------
(***************************************************************************)
(* The comparison operators shared by every join kernel                    *)
(* (src/src/conditional_join/compare_op.rs).  Values are integers here:    *)
(* the kernels are generic over a totally ordered dtype and use nothing of *)
(* a value but its order.                                                  *)
(***************************************************************************)
EXTENDS Integers

\* The operators that bound a range; the decoder also knows "==" and "!=".
RangeOps == {"<", "<=", ">", ">="}

Operators == RangeOps \union {"==", "!="}

\* CompareOp::apply: does the pair (l, r) satisfy l op r?
Apply(op, l, r) ==
    \/ op = ">"  /\ l > r
    \/ op = ">=" /\ l >= r
    \/ op = "<"  /\ l < r
    \/ op = "<=" /\ l <= r
    \/ op = "==" /\ l = r
    \/ op = "!=" /\ l # r
=============================================================================
