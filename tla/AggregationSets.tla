-------------------------- MODULE AggregationSets --------------------------
(***************************************************************************)
(* The accumulators of a join aggregation (AggregationSet in               *)
(* src/src/aggregation/state.rs) as values: one result per requested       *)
(* operation and output slot, and the slots that a pair has reached.  A    *)
(* rank tree is such a set too, with a slot for every node.                *)
(*                                                                         *)
(* Integers wrap at their width.  What a floating sum or product is, is    *)
(* decided by the order in which its values are met, so that order is its  *)
(* result here.  Minima and maxima are source positions.  The matched      *)
(* array is always kept here; the code drops it unless it is asked for.    *)
(***************************************************************************)
EXTENDS Integers, SequencesExt

CONSTANT Modulus        \* 2^w for integers of w bits

ASSUME ModulusAssumption == Modulus \in Nat \ {0} /\ Modulus % 2 = 0

Ops == {"size", "count", "sum", "prod", "min", "max"}

Dtypes == {"signed", "unsigned", "float"}

\* What parse_inputs lets through: one operation over a column of n source rows; a
\* row whose mask is TRUE is null.  The column of size, and the values of count,
\* are never read: their requests carry none.
Input(n) == [op: Ops, dtype: Dtypes, values: [0 .. n - 1 -> Int], nulls: [0 .. n - 1 -> BOOLEAN]]

\* Floating sums and products.
Ordered(s) == s.dtype = "float" /\ s.op \in {"sum", "prod"}

Extreme(s) == s.op \in {"min", "max"}

\* No row: -1 in a buffer of positions.
NoRow == -1

Wrap(s, x) ==
    IF s.dtype = "unsigned" THEN x % Modulus
    ELSE ((x + Modulus \div 2) % Modulus) - Modulus \div 2

Identity(s) ==
    CASE Extreme(s) -> NoRow
      [] Ordered(s) -> <<>>
      [] s.op = "prod" -> 1
      [] OTHER -> 0

\* is_less, is_greater: row p is strictly better than row q.
Beats(s, p, q) ==
    IF s.op = "min" THEN s.values[p] < s.values[q] ELSE s.values[p] > s.values[q]

\* better_extreme, merge_extreme_positions: of equals the first stays.
Better(s, p, q) ==
    IF p = NoRow THEN q
    ELSE IF q # NoRow /\ Beats(s, q, p) THEN q ELSE p

\* Two partial results in one; they are met in this order.
Merge(s, a, b) ==
    CASE Extreme(s) -> Better(s, a, b)
      [] Ordered(s) -> a \o b
      [] s.op = "sum"  -> Wrap(s, a + b)
      [] s.op = "prod" -> Wrap(s, a * b)
      [] OTHER -> a + b

\* What row p adds; nulls add nothing but to the number of pairs.
Element(s, p) ==
    IF s.op # "size" /\ s.nulls[p] THEN Identity(s)
    ELSE CASE Extreme(s) -> p
           [] Ordered(s) -> <<p>>
           [] s.op \in {"sum", "prod"} -> Wrap(s, s.values[p])
           [] OTHER -> 1

Add(s, total, p) == Merge(s, total, Element(s, p))

\* Rows one after the other, ascending.
Direct(s, rows) ==
    LET total[n \in Nat] ==
            IF n = 0 THEN Identity(s)
            ELSE IF n - 1 \in rows THEN Add(s, total[n - 1], n - 1) ELSE total[n - 1]
    IN  total[IF rows = {} THEN 0 ELSE Max(rows) + 1]

-----------------------------------------------------------------------------
\* Sets.

NewSet(inputs, n) ==
    [ results |-> [k \in DOMAIN inputs |-> [o \in 0 .. n - 1 |-> Identity(inputs[k])]],
      matched |-> [o \in 0 .. n - 1 |-> FALSE],
      successful |-> FALSE ]

\* AggregationSet::new: every column has one value and one mask entry per source
\* row; size reads no column.
Aligned(inputs, n) ==
    \A k \in DOMAIN inputs : inputs[k].op # "size" =>
        DOMAIN inputs[k].values = 0 .. n - 1 /\ DOMAIN inputs[k].nulls = 0 .. n - 1

\* mark_matched, mark_ranges and mark_matched_range.
Mark(set, slots) ==
    [ set EXCEPT !.matched = [o \in DOMAIN @ |-> @[o] \/ o \in slots],
                 !.successful = @ \/ slots # {} ]

\* AggregationSet::update: source row p reaches output slot o.
Update(inputs, set, p, o) ==
    IF o \in DOMAIN set.matched /\ \A k \in DOMAIN inputs : p \in DOMAIN inputs[k].nulls
    THEN [ Mark(set, {o}) EXCEPT !.results =
            [k \in DOMAIN inputs |-> [@[k] EXCEPT ![o] = Add(inputs[k], @, p)]] ]
    ELSE set

-----------------------------------------------------------------------------
\* Rank trees: node n has the children 2n and 2n + 1; leaf r of a tree of the
\* given size is the node size + r.

\* next_power_of_two.
TreeSize(n) == CHOOSE size \in {2 ^ k : k \in 0 .. n} : size >= n /\ (size = 1 \/ size < 2 * n)

\* The nodes from a leaf to the root.
PathFrom(leaf) == {leaf \div 2 ^ k : k \in 0 .. leaf} \ {0}

\* The walk up from a leaf reaches node n, if it ends where `ends` holds.
Climbs(leaf, n, ends(_)) ==
    n \in PathFrom(leaf) /\ \A m \in PathFrom(leaf) : m >= n => ~ends(m)

\* insert_path: counts and sums change on the whole path, an extreme up to the first
\* node that row p does not improve, marks up to the first node that has one.
InsertPath(inputs, tree, p, leaf) ==
    [ results |-> [k \in DOMAIN inputs |->
        LET s == inputs[k]
            nodes == tree.results[k]
            Stays(n) == nodes[n] # NoRow /\ ~Beats(s, p, nodes[n])
        IN  IF s.op # "size" /\ s.nulls[p] THEN nodes
            ELSE IF Extreme(s)
            THEN [n \in DOMAIN nodes |-> IF Climbs(leaf, n, Stays) THEN p ELSE nodes[n]]
            ELSE [n \in DOMAIN nodes |->
                    IF n \in PathFrom(leaf) THEN Add(s, nodes[n], p) ELSE nodes[n]]],
      matched |->
        LET Marked(n) == tree.matched[n]
        IN  [n \in DOMAIN tree.matched |-> Marked(n) \/ Climbs(leaf, n, Marked)],
      successful |-> TRUE ]

\* The nodes that cover the leaves lo .. hi - 1, in that order: an odd boundary
\* gives up its node at every level.
Cover(lo, hi) ==
    LET nodes[l, h \in 0 .. hi] ==
            IF l >= h THEN <<>>
            ELSE (IF l % 2 = 1 THEN <<l>> ELSE <<>>)
                 \o nodes[(l + 1) \div 2, h \div 2]
                 \o (IF h % 2 = 1 THEN <<h - 1>> ELSE <<>>)
    IN  nodes[lo, hi]

\* merge_output_from: the summaries of nodes, first to last, join an output slot.
MergeNodes(inputs, set, tree, nodes, o) ==
    LET total(k) ==
            LET merged[n \in 0 .. Len(nodes)] ==
                    IF n = 0 THEN set.results[k][o]
                    ELSE Merge(inputs[k], merged[n - 1], tree.results[k][nodes[n]])
            IN  merged[Len(nodes)]
        matched == \E n \in DOMAIN nodes : tree.matched[nodes[n]]
    IN  [ results |-> [k \in DOMAIN inputs |-> [set.results[k] EXCEPT ![o] = total(k)]],
          matched |-> [set.matched EXCEPT ![o] = @ \/ matched],
          successful |-> set.successful \/ matched ]

\* supports_dual_rank_tree: what an insert-only tree can hold.
Summarizable(inputs) ==
    \A k \in DOMAIN inputs : ~Ordered(inputs[k]) /\ inputs[k].op # "prod"
=============================================================================
