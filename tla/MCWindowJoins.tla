--------------------------- MODULE MCWindowJoins ---------------------------
(* Four left rows, the least for which a tree answers first and last, and    *)
(* four right rows.  Each family of calls lets vary what its entry point     *)
(* tells apart: ties and empty windows for one range; gaps and overlaps      *)
(* between windows for two; the residual's column, and whether the second    *)
(* anchor is its envelope, for the extended join; both columns and their     *)
(* order for the staircase.                                                  *)
EXTENDS WindowJoins

Column(values) == [j \in Right |-> values[j + 1]]

\* What follows the first row is less, as much or more.
Columns == {v \in [Right -> 0 .. 2] : v[0] = 1}
TwoValued == {v \in [Right -> {0, 2}] : v[0] = 0}

Ascending == {v \in [Right -> 0 .. 2] : Ascends(v)}

InOrder  == [j \in Right |-> j]
Shuffled == Column(<<2, 0, 3, 1>>)
InPairs  == Column(<<0, 0, 2, 2>>)

Anchor(op, left, right) == [op |-> op, left |-> left, right |-> right]

Some == [i \in Left |-> (i + 1) % 3]
Wide == [i \in Left |-> ((2 * i + 3) % 5) - 1]

Single ==
    { [entry |-> "single", keep |-> k, ordered |-> l = InOrder,
       anchors |-> <<Anchor(op, Some, right)>>, residuals |-> <<>>, nulls |-> <<>>, right_index |-> l] :
        k \in Keeps, op \in RangeOps, right \in Ascending, l \in {InOrder, Shuffled} }

\* Windows left .. left2, the lefts listed: they nest, touch, overlap or leave gaps.
Gaps ==
    { [entry |-> "dual", keep |-> k, ordered |-> FALSE,
       anchors |-> <<Anchor("<=", left, InOrder), Anchor(">=", left2, InOrder)>>,
       residuals |-> <<>>, nulls |-> <<>>, right_index |-> Shuffled] :
        k \in {"last"},
        left \in {v \in [Left -> {0, 1, 3}] : Ascends(v)}, left2 \in [Left -> {0, 1, 3}] }

Dual ==
    { [entry |-> "dual", keep |-> k, ordered |-> l = InOrder,
       anchors |-> <<Anchor(op, Some, right), Anchor(op2, Wide, right2)>>,
       residuals |-> <<>>, nulls |-> <<>>, right_index |-> l] :
        k \in Keeps, op \in RangeOps, op2 \in RangeOps,
        right \in {InOrder, InPairs}, right2 \in {InOrder, InPairs}, l \in {InOrder, Shuffled} }

RangeFirst ==
    { [entry |-> "range_first", keep |-> k, ordered |-> FALSE,
       anchors |-> <<Anchor(op, Some, right)>>,
       residuals |-> <<Anchor(op2, Wide, right2)>>, nulls |-> <<>>, right_index |-> Shuffled] :
        k \in Keeps, op \in {"<", ">="}, right \in {InPairs},
        op2 \in Operators, right2 \in [Right -> {0, 2}] }

Envelope(p) == Anchor(p.op, p.left, EnvelopeOf(p))

Extended(keeps, anchored, columns, anchor(_), residuals(_)) ==
    { [entry |-> "extended", keep |-> k, ordered |-> FALSE,
       anchors |-> <<Anchor(op, Wide, right), anchor(p)>>,
       residuals |-> residuals(p), nulls |-> <<>>, right_index |-> Shuffled] :
        k \in keeps, op \in RangeOps, right \in anchored,
        p \in {Anchor(op2, Some, column) : op2 \in RangeOps, column \in columns} }

Enveloped == Extended(Keeps \ {"all"}, {InOrder}, Columns, Envelope, LAMBDA p : <<p>>)

\* The envelope of a column that is compared otherwise.
OtherLeft == Extended({"any", "first"}, {InPairs}, TwoValued, Envelope,
                      LAMBDA p : <<[p EXCEPT !.left = Wide]>>)
OtherOp == Extended({"any", "first"}, {InPairs}, TwoValued, Envelope,
                    LAMBDA p : <<[p EXCEPT !.op = "!="]>>)

\* No residual, and one more than the envelope's.
NoResidual == Extended({"all", "first"}, {InPairs}, {InPairs}, Envelope, LAMBDA p : <<>>)
TwoResiduals == Extended({"any", "last"}, {InPairs}, TwoValued, Envelope,
                         LAMBDA p : <<p, Anchor("!=", Some, InPairs)>>)

\* Nulls on both sides of !=, before or after a range that can be promoted.
Nulls(extension) == [masked |-> TRUE, left |-> {1}, right |-> {0, 2}, extension |-> extension]

Masked ==
    { [entry |-> e, keep |-> k, ordered |-> FALSE,
       anchors |-> IF e = "extended" THEN <<Anchor("<=", Some, InOrder), Anchor(">", Wide, InOrder)>>
                   ELSE <<Anchor("<=", Some, InOrder)>>,
       residuals |-> IF first THEN <<Anchor("!=", Wide, right), Anchor(op, Wide, Shuffled)>>
                     ELSE <<Anchor(op, Wide, Shuffled), Anchor("!=", Wide, right)>>,
       nulls |-> IF first THEN <<Nulls(x), Unmasked>> ELSE <<Unmasked, Nulls(x)>>,
       right_index |-> Shuffled] :
        e \in {"extended", "range_first"}, k \in Keeps, first \in BOOLEAN, x \in BOOLEAN,
        op \in {"<=", ">", "=="}, right \in {InPairs, Column(<<2, 0, 1, 0>>)} }
    \union
    { [entry |-> "extended", keep |-> k, ordered |-> FALSE,
       anchors |-> <<Anchor("<=", Some, InOrder), Anchor(">", Wide, InOrder)>>,
       residuals |-> <<Anchor("!=", Wide, InPairs)>>, nulls |-> <<Nulls(x)>>,
       right_index |-> Shuffled] : k \in Keeps, x \in BOOLEAN }

Exists ==
    { [entry |-> "exists", keep |-> "any", ordered |-> FALSE,
       anchors |-> <<Anchor(op, Some, right), Anchor(op2, Wide, right2)>>,
       residuals |-> <<>>, nulls |-> <<>>, right_index |-> Shuffled] :
        op \in RangeOps, op2 \in RangeOps,
        right \in {InPairs, Shuffled, Column(<<2, 0, 1, 0>>)},
        right2 \in Columns }

MCCalls ==
    Single \union Gaps \union Dual \union RangeFirst \union Enveloped \union OtherLeft
    \union OtherOp \union NoResidual \union TwoResiduals \union Masked \union Exists
=============================================================================
