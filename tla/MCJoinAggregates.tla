-------------------------- MODULE MCJoinAggregates --------------------------
(* Four left and five right rows: one query more than is answered directly,  *)
(* and leaves that do not fill a tree.  One list of operations asks for      *)
(* everything at once, one for what a rank tree can hold; sums and products  *)
(* exceed the four bits of an integer, minima and maxima tie, one row is     *)
(* null.                                                                     *)
EXTENDS JoinAggregates

Values5 == <<7, -6, 3, 7, 5>>

Nulled == {2}

Op(op, dtype, n) ==
    [op |-> op, dtype |-> dtype,
     values |-> [p \in 0 .. n - 1 |-> IF dtype = "unsigned" THEN Values5[p + 1] + 8 ELSE Values5[p + 1]],
     nulls |-> [p \in 0 .. n - 1 |-> p \in Nulled]]

Everything(n) ==
    << Op("size", "signed", n), Op("count", "signed", n), Op("sum", "signed", n),
       Op("sum", "unsigned", n), Op("prod", "signed", n), Op("prod", "unsigned", n),
       Op("min", "signed", n), Op("max", "float", n), Op("sum", "float", n),
       Op("prod", "float", n) >>

InATree(n) ==
    << Op("size", "signed", n), Op("count", "signed", n), Op("sum", "signed", n),
       Op("sum", "unsigned", n), Op("min", "float", n), Op("max", "signed", n) >>

Length(reverse) == IF reverse THEN LeftLen ELSE RightLen

\* No operation, and columns of the other side.
Malformed(reverse) == {<<>>, Everything(Length(~reverse)), InATree(Length(~reverse))}

Column(values) == [j \in Right |-> values[j + 1]]
LeftColumn(values) == [i \in Left |-> values[i + 1]]

InOrder == [j \in Right |-> j]
InPairs == Column(<<0, 0, 2, 2, 4>>)
Anchor(op, left, right) == [op |-> op, left |-> left, right |-> right]

Some == LeftColumn(<<1, 3, 0, 2>>)
Wide == LeftColumn(<<4, -1, 2, 5>>)
Low  == LeftColumn(<<0, 1, 0, -1>>)
High == LeftColumn(<<4, 5, 3, 4>>)

WindowCall(entry, reverse, anchors, residuals, inputs) ==
    [entry |-> entry, reverse |-> reverse, anchors |-> anchors, residuals |-> residuals,
     inputs |-> inputs]

Single ==
    { WindowCall("single", reverse, <<Anchor(op, left, right)>>, <<>>, Everything(Length(reverse))) :
        reverse \in BOOLEAN, op \in RangeOps, left \in {Some, Wide, Low, High},
        right \in {InOrder, InPairs} }

Dense ==
    { WindowCall("extended", reverse, <<Anchor(op, left, InOrder), Anchor(op2, left2, right)>>, <<>>,
               Everything(Length(reverse))) :
        reverse \in BOOLEAN, op \in {"<", ">="}, op2 \in RangeOps, left \in {Some, Low, High},
        left2 \in {Wide, Low, High}, right \in {InOrder, InPairs} }

Residuals ==
    { WindowCall("range_first", reverse, <<Anchor(op, Wide, InOrder)>>, <<Anchor(op2, left, InPairs)>>,
               Everything(Length(reverse))) :
        reverse \in BOOLEAN, op \in RangeOps, op2 \in Operators, left \in {Some, Low} }
    \union
    { WindowCall("extended", reverse, <<Anchor(op, Wide, InOrder), Anchor("<=", Low, InPairs)>>,
               <<Anchor("!=", Some, InPairs), Anchor(op2, Some, Column(<<2, 0, 1, 2, 0>>))>>,
               Everything(Length(reverse))) :
        reverse \in BOOLEAN, op \in RangeOps, op2 \in RangeOps }

Columns ==
    {Column(v) : v \in {<<1, 0, 2, 1, 2>>, <<4, 3, 2, 1, 0>>, <<0, 3, 0, 3, 1>>}}

Envelope(p) == Anchor(p.op, p.left, EnvelopeOf(p))

Enveloped ==
    { WindowCall("extended", reverse, <<Anchor(op, lefts[1], right), Envelope(Anchor(op2, lefts[2], column))>>,
               <<Anchor(op2, lefts[2], column)>>,
               InATree(Length(reverse))) :
        reverse \in BOOLEAN, op \in RangeOps, right \in {InOrder, InPairs},
        lefts \in {<<Some, Low>>, <<Wide, Some>>}, op2 \in RangeOps, column \in Columns }

\* What the sweep declines or refuses.
Declined ==
    { WindowCall("extended", reverse, <<Anchor(op, Wide, InOrder), Envelope(p)>>, residuals, inputs) :
        reverse \in BOOLEAN, op \in {"<", ">"},
        p \in {Anchor(op2, Some, Column(<<1, 0, 2, 1, 2>>)) : op2 \in {"<=", ">"}},
        residuals \in {<<Anchor("!=", Some, InPairs)>>, <<Anchor("<", Wide, InPairs)>>},
        inputs \in {InATree(4), InATree(5), Everything(4), Everything(5), <<>>} }
    \union
    { WindowCall("extended", reverse, <<Anchor("<", High, InOrder), Anchor(op, High, InOrder)>>,
               <<Anchor(op, High, InOrder)>>, inputs) :
        reverse \in BOOLEAN, op \in {">", "<"}, inputs \in {InATree(4), InATree(5), <<>>} }

Refused ==
    { WindowCall(entry, reverse, anchors, <<>>, inputs) :
        entry \in {"single"}, reverse \in BOOLEAN, anchors \in {<<Anchor("<", Some, InOrder)>>},
        inputs \in {<<>>, Everything(4), Everything(5)} }
    \union
    { WindowCall("extended", reverse, <<Anchor("<", left, InOrder), Anchor(">", left, InOrder)>>, <<>>, inputs) :
        left \in {Some}, reverse \in BOOLEAN, inputs \in {<<>>, Everything(4), Everything(5)} }

Region(reverse, first, second, alignment, residuals, inputs) ==
    [entry |-> "regions", reverse |-> reverse, first |-> first, second |-> second,
     alignment |-> alignment, residuals |-> residuals, inputs |-> inputs]

Turned == Column(<<3, 0, 4, 1, 2>>)

DualRegions ==
    { Region(reverse, first, second, alignment, residuals, inputs) :
        reverse \in BOOLEAN,
        first \in {LeftColumn(v) : v \in {<<2, 0, 5, 3>>, <<1, 1, 4, 0>>, <<5, 5, 4, 5>>, <<0, 0, 0, 1>>}},
        second \in {LeftColumn(v) : v \in {<<0, 3, 1, 2>>, <<4, 1, 5, 1>>, <<2, 2, 3, 5>>, <<3, 1, 0, 2>>}},
        alignment \in {InOrder, Turned},
        residuals \in {<<>>, <<Anchor("!=", Some, InPairs)>>},
        inputs \in {InATree(4), InATree(5), Everything(4), Everything(5)} }
    \union
    { Region(reverse, LeftColumn(<<5, 5, 5, 5>>), LeftColumn(<<0, 3, 1, 2>>), InOrder, <<>>, inputs) :
        reverse \in BOOLEAN, inputs \in {InATree(4), <<>>} }

MCCalls ==
    Single \union Dense \union Residuals \union Enveloped \union Declined \union Refused
    \union DualRegions
=============================================================================
