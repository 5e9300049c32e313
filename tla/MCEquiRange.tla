---------------------------- MODULE MCEquiRange ----------------------------
(* Three right rows: one key that two left rows share, a key with one row   *)
(* beside a key with two, an inactive left row, and windows out of bounds.  *)
(* The first column has a tie; the second takes every shape of three values *)
(* for index joins.  Aggregations go both ways, with arrays of the right    *)
(* length or not; without windows the right side is as long as the left or  *)
(* shorter, and two rows may have one label.                                *)
EXTENDS EquiJoins

Shared   == [starts |-> <<0, 0>>, ends |-> <<3, 3>>, right1 |-> <<0, 1, 1>>]
Separate == [starts |-> <<0, 1>>, ends |-> <<1, 3>>, right1 |-> <<1, 0, 1>>]
Inactive == [starts |-> <<-1, 0>>, ends |-> <<3, 3>>, right1 |-> <<0, 1, 1>>]
Beyond   == [starts |-> <<0, 2>>, ends |-> <<3, 4>>, right1 |-> <<0, 1, 1>>]
Empty    == [starts |-> <<0, 3>>, ends |-> <<3, 3>>, right1 |-> <<0, 1, 1>>]

OnLeft(s)  == [i \in Left |-> s[i + 1]]
OnRight(s) == [j \in 0 .. Len(s) - 1 |-> s[j + 1]]

Second == [Right -> 0 .. 2]
Humped == {OnRight(s) : s \in {<<0, 1, 2>>, <<1, 0, 2>>, <<0, 2, 1>>, <<2, 1, 0>>}}

Unrestricted == Left \X Right
Residuals == {Unrestricted, {p \in Left \X Right : p[1] # p[2]}}

Built(k, w, o1, l1, o2, l2, r2, r) ==
    [entry |-> "range", keep |-> k, windowed |-> TRUE, reverse |-> FALSE, ordered |-> FALSE,
     starts |-> OnLeft(w.starts), ends |-> OnLeft(w.ends),
     op1 |-> o1, left1 |-> OnLeft(l1), right1 |-> OnRight(w.right1),
     op2 |-> o2, left2 |-> OnLeft(l2), right2 |-> r2,
     has_residuals |-> r # Unrestricted, residual |-> r, requests |-> <<>>,
     right_index |-> OnRight(<<1, 0, 2>>)]

Indexes ==
    { Built(k, w, o1, l1, o2, <<1, 0>>, r2, r) :
      k \in Keeps, w \in {Shared, Separate}, o1 \in RangeOps, l1 \in {<<0, 1>>, <<1, 0>>},
      o2 \in RangeOps, r2 \in Second, r \in Residuals }
    \union
    { Built(k, w, o1, l1, None, <<1, 1>>, [j \in Right |-> j], r) :
      k \in Keeps, w \in {Shared, Separate, Inactive, Beyond}, o1 \in RangeOps,
      l1 \in {<<0, 1>>, <<1, 0>>}, r \in Residuals }

\* No range predicate.
Bare(k, w, r) == Built(k, w, None, <<0, 0>>, None, <<0, 0>>, OnRight(<<0, 0, 0>>), r)

OnlyResiduals ==
    { [Bare(k, w, r) EXCEPT !.entry = "ne"] :
      k \in Keeps, w \in {Shared, Separate, Inactive, Beyond, Empty},
      r \in Residuals \union {{<<1, 0>>, <<1, 2>>}} }

OnlyKeys ==
    { c \in { [Bare(k, w, Unrestricted) EXCEPT !.entry = "only", !.ordered = o,
                    !.right_index = IF o THEN [j \in Right |-> j] ELSE @] :
              k \in Keeps, w \in {Shared, Separate, Inactive, Beyond, Empty}, o \in BOOLEAN } :
      IsCall(c) }

Aggregates ==
    { [Built("all", w, o1, <<0, 1>>, o2, <<1, 1>>, r2, r) EXCEPT
            !.entry = "aggregate", !.reverse = v,
            !.requests = <<IF v THEN LeftLen ELSE RightLen>>] :
      w \in {Shared, Separate, Inactive, Beyond}, o1 \in {None, "<", ">="},
      o2 \in {"<=", ">"}, r2 \in Humped, r \in Residuals, v \in BOOLEAN }

WithoutWindows ==
    { [Built("all", Shared, o1, <<0, 1>>, o2, <<1, 1>>, [j \in Right |-> 0], r) EXCEPT
            !.entry = e, !.windowed = FALSE, !.reverse = v, !.requests = q,
            !.right_index = OnRight(s), !.right1 = [j \in 0 .. Len(s) - 1 |-> j],
            !.right2 = [j \in 0 .. Len(s) - 1 |-> 1 - j]] :
      e \in {"uniq", "aggregate"}, o1 \in {None, "<", ">="}, o2 \in {None, "<="},
      r \in Residuals, v \in BOOLEAN, q \in {<<>>, <<2>>, <<2, 1>>, <<1>>},
      s \in {<<5>>, <<5, 5>>, <<5, 4>>} }

MCCalls ==
    Indexes \union OnlyResiduals \union OnlyKeys
    \union { IF c.op1 = None THEN [c EXCEPT !.op2 = None] ELSE c : c \in Aggregates }
    \union { c \in WithoutWindows : IsCall(c) }
=============================================================================
