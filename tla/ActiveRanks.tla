---------------------------- MODULE ActiveRanks ----------------------------
(***************************************************************************)
(* The three structures that follow which label ranks a sweep has opened   *)
(* (src/src/conditional_join/regions.rs): DenseActiveRankCounts, counts    *)
(* under a two-level bitset whose iterator jumps over empty words;         *)
(* FenwickCounts, suffix cardinalities for choosing a candidate generator; *)
(* and RankedExtremeTree, the best right index over a suffix of ranks.     *)
(* All three are fed the same activations here, and each is compared with  *)
(* the plain record of what was activated.  A word is the set of its bits. *)
(***************************************************************************)
EXTENDS Integers, Sequences, FiniteSets

CONSTANTS
    RankCount,      \* number of label ranks
    WordBits,       \* BITSET_WORD_BITS: 64 in the code
    Values,         \* right index values
    MaxActivations, \* bound on the length of a sweep
    None

ASSUME RanksAssumption ==
    /\ RankCount \in Nat \ {0}
    /\ WordBits \in Nat \ {0}
    /\ Values \subseteq Int
    /\ MaxActivations \in Nat

Ranks == 0 .. RankCount - 1

\* rank_count.div_ceil(BITSET_WORD_BITS), and once more for the summary.
Words(n)     == 0 .. (n + WordBits - 1) \div WordBits - 1
ActiveWords  == Words(RankCount)
SummaryWords == Words(Cardinality(ActiveWords))

VARIABLES
    opened,         \* what was activated, in order: pairs <<rank, value>>
    counts,         \* positions opened per rank
    active_words,   \* bits of the ranks with a nonzero count
    summary_words,  \* bits of the nonzero active words
    active_end,     \* one past the largest active rank
    fenwick,        \* FenwickCounts.values
    min, max,       \* RankedExtremeTree
    scan            \* iter_from: [first, next_rank, yielded], or None

denseVars == <<counts, active_words, summary_words, active_end>>
treeVars  == <<min, max>>
vars == <<opened, denseVars, fenwick, treeVars, scan>>

Least(S) == CHOOSE x \in S : \A y \in S : x <= y
Greatest(S) == CHOOSE x \in S : \A y \in S : x >= y

-----------------------------------------------------------------------------
\* FenwickCounts: cell i covers the lowest_one(i) ranks that end at i.

lowest_one[i \in 1 .. RankCount] ==
    IF i % 2 = 1 THEN 1 ELSE 2 * lowest_one[i \div 2]

\* The cells that add() increments from cell i on.
cells[i \in 1 .. 2 * RankCount] ==
    IF i > RankCount THEN {} ELSE {i} \union cells[i + lowest_one[i]]

\* Climbs one cell at a time: cells that do not cover the rank change too.
EveryCell(rank) == rank + 1 .. RankCount

Cells(rank) == cells[rank + 1]

PrefixSum(length) ==
    LET sum[i \in 0 .. RankCount] ==
            IF i = 0 THEN 0 ELSE fenwick[i] + sum[i - lowest_one[i]]
    IN  sum[length]

SuffixSum(first) == PrefixSum(RankCount) - PrefixSum(first)

-----------------------------------------------------------------------------
\* RankedExtremeTree: a heap whose leaves are base .. 2 * base - 1.

\* rank_count.next_power_of_two()
Base == Least({n \in RankCount .. 2 * RankCount : \E k \in 0 .. RankCount : n = 2 ^ k})

Nodes == 0 .. 2 * Base - 1

\* min_optional and max_optional: None loses against every value.
Smaller(x, y) == IF {x, y} = {None} THEN None ELSE Least({x, y} \ {None})
Larger(x, y)  == IF {x, y} = {None} THEN None ELSE Greatest({x, y} \ {None})

\* keep="first" reads the tree of minima, "last" the tree of maxima.
Better(keep, x, y) == IF keep = "first" THEN Smaller(x, y) ELSE Larger(x, y)

\* Forgets to recombine the root's right subtree with its left.
PathBelow(leaf) == {leaf \div (2 ^ k) : k \in 1 .. RankCount} \ {0, 1}

\* The ancestors that update() recomputes, the root included.
Path(leaf) == {leaf \div (2 ^ k) : k \in 1 .. RankCount} \ {0}

Updated(tree, keep, rank, value) ==
    LET leaf == Base + rank
        new[n \in Nodes] ==
            IF n = leaf THEN Better(keep, tree[n], value)
            ELSE IF n \in Path(leaf) THEN Better(keep, new[2 * n], new[2 * n + 1])
            ELSE tree[n]
    IN  new

\* The nodes suffix_extreme visits: they cover leaves left .. right - 1.
Cover(start) ==
    LET nodes[left, right \in 0 .. 2 * Base] ==
            IF left >= right THEN {}
            ELSE (IF left % 2 = 1 THEN {left} ELSE {})
                 \union (IF right % 2 = 1 THEN {right - 1} ELSE {})
                 \union nodes[(left + 1) \div 2, right \div 2]
    IN  nodes[Base + start, 2 * Base]

\* keep="first" takes the smallest, "last" the largest of them.
SuffixExtreme(start, keep) ==
    LET tree == IF keep = "first" THEN min ELSE max
        found == {tree[n] : n \in Cover(start)} \ {None}
    IN  IF found = {} THEN None
        ELSE IF keep = "first" THEN Least(found) ELSE Greatest(found)

-----------------------------------------------------------------------------
\* DenseActiveRankCounts.

Init ==
    /\ opened = <<>>
    /\ counts = [r \in Ranks |-> 0]
    /\ active_words = [w \in ActiveWords |-> {}]
    /\ summary_words = [s \in SummaryWords |-> {}]
    /\ active_end = 0
    /\ fenwick = [i \in 0 .. RankCount |-> 0]
    /\ min = [n \in Nodes |-> None]
    /\ max = [n \in Nodes |-> None]
    /\ scan = None

\* The summary bit of a word, by the rank instead of by the word.
SummaryBitOfRank(rank) == rank % WordBits

SummaryBit(rank) == (rank \div WordBits) % WordBits

\* The first position of a rank sets its bit and the bit of its word.
MarkRank(rank) ==
    LET word == rank \div WordBits
    IN  IF counts[rank] = 0
        THEN /\ active_words' = [active_words EXCEPT ![word] = @ \union {rank % WordBits}]
             /\ summary_words' =
                    [summary_words EXCEPT ![word \div WordBits] = @ \union {SummaryBit(rank)}]
        ELSE UNCHANGED <<active_words, summary_words>>

\* A right position of this rank and index value is opened by the sweep.
Activate(rank, value) ==
    /\ scan = None /\ Len(opened) < MaxActivations
    /\ opened' = Append(opened, <<rank, value>>)
    /\ MarkRank(rank)
    /\ counts' = [counts EXCEPT ![rank] = @ + 1]
    /\ active_end' = IF rank + 1 > active_end THEN rank + 1 ELSE active_end
    /\ fenwick' = [i \in 0 .. RankCount |-> fenwick[i] + (IF i \in Cells(rank) THEN 1 ELSE 0)]
    /\ min' = Updated(min, "first", rank, value)
    /\ max' = Updated(max, "last", rank, value)
    /\ UNCHANGED scan

\* iter_from: a label beyond all ranks starts at the end.
StartScan(first) ==
    /\ scan = None
    /\ scan' = [first |-> first, next_rank |-> first, yielded |-> <<>>]
    /\ UNCHANGED <<opened, denseVars, fenwick, treeVars>>

\* The first nonempty word from start on; None beyond the last.
NextActiveWord(start) ==
    LET summary == start \div WordBits
        here    == {b \in summary_words[summary] : b >= start % WordBits}
        later   == {s \in SummaryWords : s > summary /\ summary_words[s] # {}}
    IN  IF start \notin ActiveWords THEN None
        ELSE IF here # {} THEN summary * WordBits + Least(here)
        ELSE IF later # {} THEN Least(later) * WordBits + Least(summary_words[Least(later)])
        ELSE None

\* The rank the iterator's next() returns, or None.
NextActiveRank ==
    LET word  == scan.next_rank \div WordBits
        here  == {b \in active_words[word] : b >= scan.next_rank % WordBits}
        later == NextActiveWord(word + 1)
    IN  IF scan.next_rank >= active_end THEN None
        ELSE IF here # {} THEN word * WordBits + Least(here)
        ELSE IF later = None THEN None
        ELSE later * WordBits + Least(active_words[later])

\* The scan goes on after the rank it returned.
Beyond(rank) == rank + 1

\* Bound on the recorded scan; one that repeats no rank stays below it.
MaxYields == RankCount

Yield ==
    /\ scan # None /\ NextActiveRank # None /\ Len(scan.yielded) <= MaxYields
    /\ scan' = [scan EXCEPT !.next_rank = Beyond(NextActiveRank),
                            !.yielded = Append(@, <<NextActiveRank, counts[NextActiveRank]>>)]
    /\ UNCHANGED <<opened, denseVars, fenwick, treeVars>>

\* The caller's loop ends with the iterator.
EndScan ==
    /\ scan # None /\ NextActiveRank = None
    /\ scan' = None
    /\ UNCHANGED <<opened, denseVars, fenwick, treeVars>>

Next ==
    \/ \E rank \in Ranks, value \in Values : Activate(rank, value)
    \/ \E first \in 0 .. RankCount : StartScan(first)
    \/ Yield
    \/ EndScan

Spec == Init /\ [][Next]_vars

-----------------------------------------------------------------------------

\* The positions opened at ranks from first on, and those of one rank.
OpenedFrom(first) == {n \in DOMAIN opened : opened[n][1] >= first}
OpenedAt(rank)    == {n \in DOMAIN opened : opened[n][1] = rank}

\* A scan returns the active ranks from its start on, in ascending order, none
\* skipped and none repeated, each with the number of its opened positions:
\* the jump over empty words and empty groups of words loses no rank.
ScanIsExact ==
    scan # None =>
        LET reached == {r \in Ranks : scan.first <= r /\ OpenedAt(r) # {}
                            /\ (NextActiveRank # None => r < NextActiveRank)}
            n == Len(scan.yielded)
        IN  /\ {scan.yielded[i] : i \in 1 .. n}
                    = {<<r, Cardinality(OpenedAt(r))>> : r \in reached}
            /\ \A i, k \in 1 .. n : i < k => scan.yielded[i][1] < scan.yielded[k][1]

\* The index that chooses a candidate generator counts the same positions
\* that the sweep would emit.
SuffixSumIsExact ==
    \A first \in 0 .. RankCount : SuffixSum(first) = Cardinality(OpenedFrom(first))

\* The tree's answer is the extreme over every opened position of a suffix,
\* the empty suffix beyond the last rank included.
SuffixExtremeIsExact ==
    \A first \in 0 .. RankCount :
        LET values == {opened[n][2] : n \in OpenedFrom(first)}
        IN  /\ SuffixExtreme(first, "first") = IF values = {} THEN None ELSE Least(values)
            /\ SuffixExtreme(first, "last") = IF values = {} THEN None ELSE Greatest(values)
=============================================================================
