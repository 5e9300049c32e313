---------------------------- MODULE RegionKdTree ----------------------------
(***************************************************************************)
(* The static k-d tree over region labels                                  *)
(* (src/src/conditional_join/region_kd_tree.rs).  A point holds one label  *)
(* per predicate, 0 in every place if its row cannot match.  A tree over   *)
(* right rows is asked for the points at or above a left row, one over     *)
(* left rows for the points at or below a right row.  Building and         *)
(* querying are recursive in the code; here a list of what is left to do   *)
(* stands for the recursion, and one action handles one node.              *)
(***************************************************************************)
EXTENDS Sequences, FiniteSetsExt, Functions

CONSTANTS
    PointCount, Dimensions,
    LeafSize,   \* most points of a leaf
    Clouds,     \* the point sets considered
    Queries     \* the queries considered: [side, label, stop]

Positions == 0 .. PointCount - 1
Axes      == 1 .. Dimensions
Point     == [Axes -> Nat]

\* side: the points wanted lie at or "above" the query, or at or "below" it;
\* stop: the callback has enough with the first point.
Query == [side: {"above", "below"}, label: Point, stop: BOOLEAN]

ASSUME TreeAssumption ==
    /\ PointCount \in Nat /\ Dimensions \in Nat \ {0} /\ LeafSize \in Nat \ {0}
    /\ \A c \in Clouds : c \in [Positions -> Point]
    /\ \A q \in Queries : q \in Query

VARIABLES
    points,     \* the labels of the rows; never change
    order,      \* permutation of the rows; a node owns a slice of it
    nodes,      \* the arena: [start, end, lower, upper, left, right]
    ranges,     \* slices that are still to become nodes
    query,      \* the running query, or none yet
    pending,    \* nodes the query still has to look at
    visited,    \* the rows handed to the callback
    pc

treeVars == <<points, order, nodes, ranges>>
vars     == <<treeVars, query, pending, visited, pc>>

NoQuery == [side |-> "none"]

-----------------------------------------------------------------------------
\* Building.

\* The code's None: no child, no parent.
NoNode == 0

\* The rows that the slice start .. end - 1 holds.
Slice(start, end) == {order[p] : p \in start .. end - 1}

Lower(rows) == [d \in Axes |-> Min({points[x][d] : x \in rows})]
Upper(rows) == [d \in Axes |-> Max({points[x][d] : x \in rows})]

Spread(rows, d) == Upper(rows)[d] - Lower(rows)[d]

\* max_by_key: the widest dimension, the last of several.
SplitDimension(rows) ==
    CHOOSE d \in Axes : \A e \in Axes :
        \/ Spread(rows, e) < Spread(rows, d)
        \/ Spread(rows, e) = Spread(rows, d) /\ e <= d

Midpoint(range) == range.start + ((range.end - range.start) \div 2)

\* Ties between equal labels are broken by row.
Precedes(d, x, y) ==
    \/ points[x][d] < points[y][d]
    \/ points[x][d] = points[y][d] /\ x < y

\* The rows ordered before x along dimension d.
Before(rows, d, x) == {y \in rows : Precedes(d, y, x)}

\* select_nth_unstable: the row that belongs at the midpoint is there, the rows
\* before it lie on its left in some order, the others on its right.
Arrangements(range, small, pivot, large) ==
    { [p \in Positions |->
        IF p \in DOMAIN f THEN f[p] ELSE IF p \in DOMAIN g THEN g[p]
        ELSE IF p = Midpoint(range) THEN pivot ELSE order[p]] :
      f \in Bijection(range.start .. Midpoint(range) - 1, small),
      g \in Bijection(Midpoint(range) + 1 .. range.end - 1, large) }

Partition(range) ==
    \E rows \in {Slice(range.start, range.end)} : \E d \in {SplitDimension(rows)} :
        \E pivot \in rows : \E small \in {Before(rows, d, pivot)} :
            /\ Cardinality(small) = Midpoint(range) - range.start
            /\ order' \in Arrangements(range, small, pivot, rows \ (small \union {pivot}))

\* The halves overlap in the midpoint.
HalvesOverlapping(range, parent) ==
    << [start |-> range.start, end |-> Midpoint(range) + 1, parent |-> parent, side |-> "left"],
       [start |-> Midpoint(range), end |-> range.end, parent |-> parent, side |-> "right"] >>

Halves(range, parent) ==
    << [start |-> range.start, end |-> Midpoint(range), parent |-> parent, side |-> "left"],
       [start |-> Midpoint(range), end |-> range.end, parent |-> parent, side |-> "right"] >>

NewNode(range) ==
    LET rows == Slice(range.start, range.end)
    IN  [start |-> range.start, end |-> range.end,
         lower |-> Lower(rows), upper |-> Upper(rows), left |-> NoNode, right |-> NoNode]

\* The arena with a node added and known to its parent.
Grown(range) ==
    LET index == Len(nodes) + 1
        linked ==
            [n \in DOMAIN nodes |->
                IF n # range.parent THEN nodes[n]
                ELSE [nodes[n] EXCEPT ![range.side] = index]]
    IN  Append(linked, NewNode(range))

\* The node comes before its children, the left subtree before the right.
BuildNode ==
    /\ pc = "build" /\ ranges # <<>>
    /\ LET range == Head(ranges)
       IN  /\ nodes' = Grown(range)
           /\ IF range.end - range.start > LeafSize
              THEN /\ Partition(range)
                   /\ ranges' = Halves(range, Len(nodes) + 1) \o Tail(ranges)
              ELSE ranges' = Tail(ranges) /\ UNCHANGED order
    /\ UNCHANGED <<points, query, pending, visited, pc>>

EndBuild ==
    /\ pc = "build" /\ ranges = <<>>
    /\ pc' = "ready"
    /\ UNCHANGED <<treeVars, query, pending, visited>>

-----------------------------------------------------------------------------
\* Querying.

\* The sentinel is taken for a rank.
NeverSentinel(label) == FALSE

Sentinel(label) == \E d \in Axes : label[d] = 0

\* A label 0 in the query, or no point in the tree: nothing to visit.
StartQuery ==
    /\ pc = "ready"
    /\ query' \in Queries
    /\ pending' = IF nodes = <<>> \/ Sentinel(query'.label) THEN <<>> ELSE <<1>>
    /\ pc' = "visit"
    /\ UNCHANGED <<treeVars, visited>>

AtMost(x, y) == \A d \in Axes : x[d] <= y[d]

\* The point is wanted, apart from the sentinel.
InReach(p) ==
    IF query.side = "above" THEN AtMost(query.label, p) ELSE AtMost(p, query.label)

\* Some bound shows that no point of the node is wanted.
Unreachable(node) ==
    IF query.side = "above" THEN ~AtMost(query.label, node.upper)
    ELSE ~AtMost(node.lower, query.label)

\* All bounds show that every point of the node is.
Inside(node) ==
    IF query.side = "above" THEN AtMost(query.label, node.lower)
    ELSE AtMost(node.upper, query.label)

\* The rows of the node in tree order.
Rows(node) == [n \in 1 .. node.end - node.start |-> order[node.start + n - 1]]

\* Only the query from above accepts whole nodes unseen: it is above 0.
Accepted(node) ==
    LET Wanted(x) == query.side = "below" => ~Sentinel(points[x])
    IN  SelectSeq(Rows(node), Wanted)

\* Each point of a leaf is compared.
Compared(node) ==
    LET Wanted(x) == ~Sentinel(points[x]) /\ InReach(points[x])
    IN  SelectSeq(Rows(node), Wanted)

\* The nodes left when the first in the list is done with.
Rest == Tail(pending)

\* The rows go to the callback, which may have enough with the first.
Report(rows) ==
    IF query.stop /\ rows # <<>>
    THEN visited' = Append(visited, Head(rows)) /\ pending' = <<>>
    ELSE visited' = visited \o rows /\ pending' = Rest

\* Bound on the recorded visits; a query that visits rows once stays below it.
MaxVisits == PointCount

Visiting == pc = "visit" /\ pending # <<>> /\ Len(visited) <= MaxVisits

Node == nodes[Head(pending)]

Prune ==
    /\ Visiting
    /\ Unreachable(Node)
    /\ pending' = Rest
    /\ UNCHANGED <<treeVars, query, visited, pc>>

Accept ==
    /\ Visiting
    /\ ~Unreachable(Node) /\ Inside(Node)
    /\ Report(Accepted(Node))
    /\ UNCHANGED <<treeVars, query, pc>>

Descend ==
    /\ Visiting
    /\ ~Unreachable(Node) /\ ~Inside(Node) /\ Node.left # NoNode
    /\ pending' = <<Node.left, Node.right>> \o Rest
    /\ UNCHANGED <<treeVars, query, visited, pc>>

ScanLeaf ==
    /\ Visiting
    /\ ~Unreachable(Node) /\ ~Inside(Node) /\ Node.left = NoNode
    /\ Report(Compared(Node))
    /\ UNCHANGED <<treeVars, query, pc>>

EndQuery ==
    /\ pc = "visit" /\ pending = <<>>
    /\ pc' = "answered"
    /\ UNCHANGED <<treeVars, query, pending, visited>>

-----------------------------------------------------------------------------

Init ==
    /\ points \in Clouds
    /\ order = [p \in Positions |-> p]
    /\ nodes = <<>>
    /\ ranges = IF PointCount = 0 THEN <<>>
                ELSE <<[start |-> 0, end |-> PointCount, parent |-> NoNode, side |-> "root"]>>
    /\ query = NoQuery
    /\ pending = <<>>
    /\ visited = <<>>
    /\ pc = "build"

Next ==
    \/ BuildNode \/ EndBuild
    \/ StartQuery \/ Prune \/ Accept \/ Descend \/ ScanLeaf \/ EndQuery

Spec == Init /\ [][Next]_vars /\ WF_vars(Next)

-----------------------------------------------------------------------------

\* The rows the query asks for: label 0 matches nothing, and in every dimension
\* the labels lie on the query's side.
Matching ==
    { x \in Positions : \A d \in Axes :
        /\ points[x][d] # 0 /\ query.label[d] # 0
        /\ IF query.side = "above" THEN query.label[d] <= points[x][d]
           ELSE points[x][d] <= query.label[d] }

\* A query is answered, and has then visited every matching row once and no other;
\* or one of them, if the callback stops it.  Boxes only save work: no point is
\* lost to a pruned node, none is let in by an accepted one, none sits in two nodes.
VisitIsExact ==
    <>(/\ pc = "answered"
       /\ Range(visited) \subseteq Matching
       /\ \A m, n \in DOMAIN visited : visited[m] = visited[n] => m = n
       /\ IF query.stop THEN Len(visited) = Min({1, Cardinality(Matching)})
          ELSE Range(visited) = Matching)

\* The box of a node is the exact extent of its slice at every later time, and
\* the children of a built node divide its slice: splitting rearranges the
\* permutation they all share, yet moves no row across the border of a node.
TreeIsSound ==
    \A n \in DOMAIN nodes :
        LET node == nodes[n]
            rows == Slice(node.start, node.end)
        IN  /\ node.lower = Lower(rows) /\ node.upper = Upper(rows)
            /\ pc # "build" =>
                IF node.left = NoNode THEN node.end - node.start <= LeafSize
                ELSE /\ nodes[node.left].start = node.start
                     /\ nodes[node.left].end = nodes[node.right].start
                     /\ nodes[node.right].end = node.end
=============================================================================
