--------------------------- MODULE MCRegionKdTree ---------------------------
(* Five rows in leaves of at most two: a root, one inner node, three leaves, *)
(* one of which holds a single row.  In no dimension do the labels decide    *)
(* alone; the first ascends among unmasked rows, as the global right order   *)
(* makes it.  Queries take every label up to 2.                              *)
EXTENDS RegionKdTree

Masked == <<0, 0, 0>>
Labels == {Masked, <<1, 1, 2>>, <<1, 2, 1>>, <<2, 1, 2>>, <<2, 2, 1>>}

MCClouds ==
    { c \in [Positions -> Labels] :
        \A x, y \in Positions :
            x < y /\ c[x] # Masked /\ c[y] # Masked => c[x][1] <= c[y][1] }

MCQueries ==
    [side: {"above", "below"}, label: {Masked} \union [Axes -> 1 .. 2], stop: BOOLEAN]
=============================================================================
