---------------------------- MODULE MCNotEquals ----------------------------
(* Three left rows with values 0, 1, 1, each of which may be null, against  *)
(* three right rows with values 0 to 2 or null, equal values in any order.  *)
(* Residual predicates reject some pairs of every row.  The lists that are  *)
(* no partition repeat, omit, exceed, undercut or disagree in length.       *)
EXTENDS NotEquals

Three == 0 .. 2

Null == -1

\* The compact form of a column, in the order of the given rows.
Compact(column, rows, nulls) ==
    [len |-> 3, values |-> [n \in DOMAIN rows |-> column[rows[n]]],
     positions |-> rows, nulls |-> nulls]

NonNull(column) == {i \in Three : column[i] # Null}

LeftSides ==
    { Compact([i \in Three |-> IF i = 0 THEN 0 ELSE 1],
              SetToSortSeq(v, <), SetToSortSeq(Three \ v, <)) : v \in SUBSET Three }

Sorted(column) == {s \in SetToSeqs(NonNull(column)) : Ascends([n \in DOMAIN s |-> column[s[n]]])}

RightSides ==
    UNION { { Compact(c, s, SetToSortSeq(Three \ NonNull(c), >)) : s \in Sorted(c) } :
            c \in [Three -> Null .. 2] }

Faulty ==
    { [len |-> 2, values |-> <<0, 1>>, positions |-> <<0, 1>>, nulls |-> <<1>>],
      [len |-> 2, values |-> <<0>>, positions |-> <<0>>, nulls |-> <<0>>],
      [len |-> 2, values |-> <<0, 1>>, positions |-> <<0, 0>>, nulls |-> <<>>],
      [len |-> 2, values |-> <<0, 1>>, positions |-> <<0, 2>>, nulls |-> <<>>],
      [len |-> 2, values |-> <<0, 1>>, positions |-> <<-1, 0>>, nulls |-> <<>>],
      [len |-> 2, values |-> <<0>>, positions |-> <<0>>, nulls |-> <<>>],
      [len |-> 2, values |-> <<0, 1>>, positions |-> <<0>>, nulls |-> <<1>>],
      [len |-> 0, values |-> <<>>, positions |-> <<>>, nulls |-> <<>>] }

Good == [len |-> 2, values |-> <<0, 1>>, positions |-> <<0, 1>>, nulls |-> <<>>]

Sides == (LeftSides \X RightSides) \union (Faulty \X {Good}) \union ({Good} \X Faulty)

Built(e, k, s, x) ==
    [entry |-> e, keep |-> k, left |-> s[1], right |-> s[2], is_extension_array |-> x,
     residual |-> {p \in RowsOf(s[1]) \X RowsOf(s[2]) : e = "single" \/ p[1] # p[2]}]

MCCalls ==
    { Built(u[1], u[2], s, x) :
      u \in ({"single", "extended"} \X Keeps) \union ({"aggregate", "aggregate_reverse"} \X {"all"}),
      s \in Sides, x \in BOOLEAN }
=============================================================================
