----------------------------- MODULE MCNRegion -----------------------------
(* Three predicates, and four for the aggregations.  Windows of the first    *)
(* are listed in an order that the search order must change; the aligners    *)
(* are a rotation and an exchange.  Budgets of 2 are kept by some calls and  *)
(* spent by others; the residual predicates accept everything or reject one  *)
(* row's pairs.  The refused calls lack a predicate, an aligner, a row of    *)
(* one, or a request, or request an array of the wrong length.               *)
EXTENDS NRegion

Listed(b) == \A i, k \in Left : (i + 1) % LeftLen < (k + 1) % LeftLen => b[i] <= b[k]

Exchange == [j \in Right |-> IF j = 0 THEN 1 ELSE IF j = 1 THEN 0 ELSE j]
Rotation == [j \in Right |-> (j + 1) % RightLen]
Shorter  == [j \in Right \ {RightLen - 1} |-> j]

ListedWindows == {w \in Boundaries : Listed(w)}

Selective == {p \in Left \X Right : p[1] # p[2]}

Labels == [j \in Right |-> (2 * j + 1) % RightLen]

Indexed == { c \in
    [entry: {"index"}, keep: Keeps,
     windows: {<<a, b, c>> : a \in ListedWindows, b \in Boundaries, c \in Boundaries},
     aligners: {<<Rotation, Exchange>>}, requests: {<<>>}, right_index: {Labels},
     residual: {Left \X Right, Selective}, limit: {2}, left_smaller: BOOLEAN] :
    c.keep = "any" => ~c.left_smaller }

Opening == [i \in Left |-> 0]
Narrow  == [i \in Left |-> i]

Aggregated(entry, windows, aligners, requests) ==
    [entry: {entry}, keep: {"all"}, windows: windows, aligners: {aligners},
     requests: {requests}, right_index: {Labels}, residual: {Selective}, limit: {2},
     left_smaller: BOOLEAN]

Full == {<<a, b, Narrow, c>> : a \in ListedWindows, b \in {Opening, Narrow}, c \in Boundaries}

Fed ==
    Aggregated("aggregate", Full, <<Rotation, Exchange, Rotation>>, <<RightLen>>)
    \union
    Aggregated("aggregate_reverse", Full, <<Exchange, Rotation, Rotation>>, <<LeftLen, LeftLen>>)

Three == {<<a, Opening, Narrow>> : a \in ListedWindows}

Refused ==
    Aggregated("aggregate", {<<a, Opening>> : a \in ListedWindows}, <<Rotation>>, <<RightLen>>)
    \union
    Aggregated("aggregate", Three, <<Rotation>>, <<RightLen>>)
    \union
    Aggregated("aggregate", Three, <<Rotation, Shorter>>, <<RightLen>>)
    \union
    Aggregated("aggregate", Three, <<Rotation, Exchange>>, <<>>)
    \union
    Aggregated("aggregate_reverse", Three, <<Rotation, Exchange>>, <<LeftLen, RightLen>>)

MCCalls == Indexed \union Fed \union Refused
=============================================================================
