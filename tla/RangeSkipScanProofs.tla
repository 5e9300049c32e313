------------------------ MODULE RangeSkipScanProofs ------------------------
(***************************************************************************)
(* The skip scan reports what a plain scan of the window would, for every  *)
(* column length, every size of blocks and super-blocks, every column of   *)
(* integers and every window.  A summary that fails speaks for all rows it *)
(* summarizes, because the most permissive of several values passes if any *)
(* of them does; so what lies before the block the walk stands at is       *)
(* always settled (SettledInv).                                            *)
(***************************************************************************)
EXTENDS RangeSkipScan, FiniteSetTheorems, TLAPS

-----------------------------------------------------------------------------
\* Rows in ascending order.

\* How many of the rows lie before p.
Rank(rows, p) == Cardinality({q \in rows : q < p})

\* A later row has a higher rank, and no rank exceeds the number of rows.
LEMMA RanksRise ==
    ASSUME NEW rows \in SUBSET Int, IsFiniteSet(rows), NEW p \in rows
    PROVE  /\ Rank(rows, p) \in 0 .. Cardinality(rows) - 1
           /\ \A q \in rows : p < q => Rank(rows, p) < Rank(rows, q)
<1> DEFINE before(q) == {x \in rows : x < q}
<1>1. \A q : before(q) \in SUBSET rows /\ IsFiniteSet(before(q)) /\ Cardinality(before(q)) \in Nat
    BY FS_Subset, FS_CardinalityType
<1>2. Cardinality(rows) \in Nat
    BY FS_CardinalityType
<1>3. p \notin before(p) /\ p \in Int
    OBVIOUS
<1>4. /\ IsFiniteSet(before(p) \union {p})
      /\ Cardinality(before(p) \union {p}) = Cardinality(before(p)) + 1
    <2> HIDE DEF before
    <2> QED
        BY <1>1, <1>3, FS_AddElement
<1>5. Cardinality(before(p)) + 1 <= Cardinality(rows)
    <2>1. before(p) \union {p} \in SUBSET rows
        OBVIOUS
    <2> HIDE DEF before
    <2> QED
        BY <1>4, <2>1, FS_Subset
<1>6. ASSUME NEW q \in rows, p < q
      PROVE  Cardinality(before(p)) < Cardinality(before(q))
    <2>1. ASSUME NEW x \in before(p) \union {p} PROVE x \in before(q)
        <3>1. x \in rows /\ x \in Int /\ p \in Int /\ q \in Int /\ (x < p \/ x = p)
            OBVIOUS
        <3> QED
            BY <1>6, <3>1
    <2>0. before(p) \union {p} \in SUBSET before(q)
        BY <2>1
    <2> HIDE DEF before
    <2>2. Cardinality(before(p) \union {p}) <= Cardinality(before(q))
        BY <1>1, <2>0, FS_Subset
    <2> QED
        BY <1>1, <1>4, <2>2
<1> QED
    BY <1>1, <1>2, <1>5, <1>6 DEF Rank

\* The ranks are all the numbers below the number of rows.
LEMMA EveryRankIsTaken ==
    ASSUME NEW rows \in SUBSET Int, IsFiniteSet(rows), NEW n \in 1 .. Cardinality(rows)
    PROVE  \E p \in rows : Rank(rows, p) = n - 1
<1> DEFINE size == Cardinality(rows)
           ranking == [p \in rows |-> Rank(rows, p) + 1]
<1>1. size \in Nat
    BY FS_CardinalityType
<1>2. \A p \in rows : Rank(rows, p) \in 0 .. size - 1
    BY RanksRise
<1>3. ASSUME NEW p \in rows, NEW q \in rows, Rank(rows, p) = Rank(rows, q)
      PROVE  p = q
    <2>1. p \in Int /\ q \in Int /\ Rank(rows, p) \in Int
        BY <1>1, <1>2
    <2>2. ~(p < q) /\ ~(q < p)
        BY <1>3, <2>1, RanksRise
    <2> QED
        BY <2>1, <2>2
<1>4. ranking \in [rows -> 1 .. size]
    BY <1>1, <1>2
<1>5. ranking \in Injection(rows, 1 .. size)
    <2>1. \A p, q \in rows : ranking[p] = ranking[q] => p = q
        BY <1>1, <1>2, <1>3
    <2> HIDE DEF ranking
    <2> QED
        BY <1>4, <2>1 DEF Injection, IsInjective
<1>6. IsFiniteSet(1 .. size) /\ Cardinality(1 .. size) = size
    <2> HIDE DEF size
    <2> QED
        BY <1>1, FS_Interval
<1>7. ranking \in Surjection(rows, 1 .. size)
    <2> HIDE DEF ranking
    <2> QED
        BY <1>5, <1>6, FS_Injection
<1>8. PICK p \in rows : ranking[p] = n
    <2> HIDE DEF ranking
    <2> QED
        BY <1>7 DEF Surjection
<1> QED
    BY <1>1, <1>2, <1>8

\* Ascending lists every row once, by rank.
LEMMA AscendingListsRows ==
    ASSUME NEW rows \in SUBSET Int, IsFiniteSet(rows)
    PROVE  /\ Cardinality(rows) \in Nat
           /\ Ascending(rows) \in Seq(Int) /\ Len(Ascending(rows)) = Cardinality(rows)
           /\ \A n \in 1 .. Cardinality(rows) :
                Ascending(rows)[n] \in rows /\ Rank(rows, Ascending(rows)[n]) = n - 1
           /\ \A p \in rows : /\ Rank(rows, p) + 1 \in 1 .. Cardinality(rows)
                              /\ Ascending(rows)[Rank(rows, p) + 1] = p
<1> DEFINE size == Cardinality(rows)
           list == Ascending(rows)
<1>1. size \in Nat
    BY FS_CardinalityType
<1>2. list = [n \in 1 .. size |-> CHOOSE p \in rows : Rank(rows, p) = n - 1]
    BY DEF Ascending, Rank
<1>3. ASSUME NEW n \in 1 .. size
      PROVE  list[n] \in rows /\ Rank(rows, list[n]) = n - 1
    <2>1. \E p \in rows : Rank(rows, p) = n - 1
        BY EveryRankIsTaken
    <2>2. list[n] = CHOOSE p \in rows : Rank(rows, p) = n - 1
        BY <1>2
    <2> QED
        BY <2>1, <2>2, Zenon
<1>4. list \in Seq(Int) /\ Len(list) = size
    <2>1. list \in [1 .. size -> Int]
        BY <1>2, <1>3
    <2> HIDE DEF list, size
    <2> QED
        BY <1>1, <2>1
<1>5. ASSUME NEW p \in rows
      PROVE  Rank(rows, p) + 1 \in 1 .. size /\ list[Rank(rows, p) + 1] = p
    <2> DEFINE n == Rank(rows, p) + 1
    <2>1. Rank(rows, p) \in 0 .. size - 1 /\ n \in 1 .. size /\ p \in Int
        BY <1>1, RanksRise
    <2>2. list[n] \in rows /\ Rank(rows, list[n]) = n - 1
        BY <1>3, <2>1
    <2>3. Rank(rows, list[n]) = Rank(rows, p) /\ list[n] \in Int /\ Rank(rows, p) \in Int
        <3>1. n - 1 = Rank(rows, p) /\ Rank(rows, p) \in Int
            BY <2>1
        <3> HIDE DEF n, list
        <3> QED
            BY <2>2, <3>1
    <2> HIDE DEF n, list
    <2>4. ~(list[n] < p) /\ ~(p < list[n])
        BY <2>2, <2>3, RanksRise
    <2>5. list[n] = p
        BY <2>1, <2>3, <2>4
    <2> QED
        BY <2>1, <2>5 DEF n
<1> QED
    BY <1>1, <1>3, <1>4, <1>5

\* A nonempty finite set of numbers has a least and a greatest.
LEMMA Extremes ==
    ASSUME NEW S \in SUBSET Int, IsFiniteSet(S), S # {}
    PROVE  /\ Min(S) \in S /\ \A q \in S : Min(S) <= q
           /\ Max(S) \in S /\ \A q \in S : Max(S) >= q
           /\ Cardinality(S) \in Nat \ {0} /\ Ascending(S)[1] = Min(S)
<1> DEFINE size == Cardinality(S)
           list == Ascending(S)
<1>0. \A q \in S : q \in Int
    OBVIOUS
<1>1. /\ size \in Nat
      /\ \A n \in 1 .. size : list[n] \in S /\ Rank(S, list[n]) = n - 1
      /\ \A p \in S : Rank(S, p) \in 0 .. size - 1
    BY AscendingListsRows, RanksRise
<1> HIDE DEF list
<1>2. size # 0 /\ 1 \in 1 .. size /\ size \in 1 .. size
    <2>1. PICK p \in S : TRUE
        OBVIOUS
    <2>2. Rank(S, p) \in 0 .. size - 1
        BY <1>1, <2>1
    <2> HIDE DEF size
    <2> QED
        BY <1>1, <2>2
<1> HIDE DEF size
<1>3. list[1] \in S /\ \A q \in S : list[1] <= q
    <2>1. list[1] \in S /\ Rank(S, list[1]) = 0
        BY <1>1, <1>2
    <2>2. ASSUME NEW q \in S
          PROVE  list[1] <= q
        <3>1. q \in Int /\ list[1] \in Int
            BY <1>0, <2>1
        <3>2. q < list[1] => Rank(S, q) < Rank(S, list[1])
            BY <2>1, RanksRise
        <3>3. Rank(S, q) \in 0 .. size - 1
            BY <1>1
        <3> QED
            BY <1>1, <2>1, <3>1, <3>2, <3>3
    <2> QED
        BY <2>1, <2>2
<1>4. list[size] \in S /\ \A q \in S : list[size] >= q
    <2>1. list[size] \in S /\ Rank(S, list[size]) = size - 1
        BY <1>1, <1>2
    <2>2. ASSUME NEW q \in S
          PROVE  list[size] >= q
        <3>1. q \in Int /\ list[size] \in Int
            BY <1>0, <2>1
        <3>2. list[size] < q => Rank(S, list[size]) < Rank(S, q)
            BY <2>1, RanksRise
        <3>3. Rank(S, q) \in 0 .. size - 1
            BY <1>1
        <3> QED
            BY <1>1, <2>1, <3>1, <3>2, <3>3
    <2> QED
        BY <2>1, <2>2
<1>5. Min(S) \in S /\ \A q \in S : Min(S) <= q
    BY <1>3 DEF Min
<1>6. Max(S) \in S /\ \A q \in S : Max(S) >= q
    BY <1>4 DEF Max
<1>7. list[1] = Min(S)
    <2>1. list[1] <= Min(S) /\ Min(S) <= list[1] /\ list[1] \in Int /\ Min(S) \in Int
        BY <1>0, <1>3, <1>5
    <2> QED
        BY <2>1
<1> QED
    BY <1>1, <1>2, <1>5, <1>6, <1>7 DEF list, size

LEMMA NoRows == Cardinality({}) = 0 /\ Ascending({}) = <<>>
<1>1. Cardinality({}) = 0
    BY FS_EmptySet
<1>2. Ascending({}) \in Seq(Int) /\ Len(Ascending({})) = 0
    BY <1>1, AscendingListsRows, FS_EmptySet
<1> QED
    BY <1>1, <1>2

\* Lists of one length with the same entries are the same.
LEMMA SameList ==
    ASSUME NEW s \in Seq(Int), NEW t \in Seq(Int), Len(s) = Len(t),
           \A n \in 1 .. Len(s) : s[n] = t[n]
    PROVE  s = t
<1>1. DOMAIN s = 1 .. Len(s) /\ DOMAIN t = 1 .. Len(s)
    OBVIOUS
<1>2. s = [n \in 1 .. Len(s) |-> s[n]] /\ t = [n \in 1 .. Len(s) |-> t[n]]
    BY <1>1
<1> QED
    BY <1>2

LEMMA Appended ==
    ASSUME NEW s \in Seq(Int), NEW t \in Seq(Int)
    PROVE  /\ s \o t \in Seq(Int) /\ Len(s \o t) = Len(s) + Len(t)
           /\ \A n \in 1 .. Len(s) : (s \o t)[n] = s[n]
    OBVIOUS

\* Rows listed after all others are appended to their list.
LEMMA AscendingJoins ==
    ASSUME NEW S \in SUBSET Int, IsFiniteSet(S), NEW T \in SUBSET Int, IsFiniteSet(T),
           \A p \in S, q \in T : p < q
    PROVE  /\ IsFiniteSet(S \union T)
           /\ Cardinality(S \union T) = Cardinality(S) + Cardinality(T)
           /\ Ascending(S \union T) = Ascending(S) \o Ascending(T)
<1> DEFINE U == S \union T
           a == Cardinality(S)
           b == Cardinality(T)
           first == Ascending(S)
           second == Ascending(T)
           whole == Ascending(U)
<1>0. (\A p \in S : p \in Int) /\ \A p \in T : p \in Int
    OBVIOUS
<1>1. S \intersect T = {} /\ U \in SUBSET Int
    BY <1>0
<1>2. IsFiniteSet(U) /\ a \in Nat /\ b \in Nat /\ Cardinality(U) = a + b
    <2>1. IsFiniteSet(U) /\ Cardinality(U) = a + b - Cardinality(S \intersect T)
        BY FS_Union
    <2>2. Cardinality(S \intersect T) = 0
        BY <1>1, FS_EmptySet
    <2>3. a \in Nat /\ b \in Nat
        BY FS_CardinalityType
    <2> HIDE DEF U, a, b
    <2> QED
        BY <2>1, <2>2, <2>3
<1>3. /\ first \in Seq(Int) /\ Len(first) = a
      /\ \A n \in 1 .. a : first[n] \in S /\ Rank(S, first[n]) = n - 1
    BY AscendingListsRows
<1>4. /\ second \in Seq(Int) /\ Len(second) = b
      /\ \A n \in 1 .. b : second[n] \in T /\ Rank(T, second[n]) = n - 1
    BY AscendingListsRows
<1>5. /\ whole \in Seq(Int) /\ Len(whole) = a + b
      /\ \A p \in U : whole[Rank(U, p) + 1] = p
    BY <1>1, <1>2, AscendingListsRows
<1>6. ASSUME NEW p \in S PROVE Rank(U, p) = Rank(S, p)
    <2>1. \A q \in T : ~(q < p)
        BY <1>0
    <2>2. {q \in U : q < p} = {q \in S : q < p}
        BY <2>1
    <2> QED
        BY <2>2 DEF Rank
<1>7. ASSUME NEW p \in T PROVE Rank(U, p) = a + Rank(T, p)
    <2> DEFINE before == {q \in T : q < p}
    <2>1. {q \in U : q < p} = S \union before
        OBVIOUS
    <2>2. IsFiniteSet(before) /\ S \intersect before = {}
        BY <1>1, FS_Subset
    <2> HIDE DEF before
    <2>3. Cardinality(S \union before) = a + Cardinality(before) - Cardinality(S \intersect before)
        BY <2>2, FS_Union
    <2>4. Cardinality(S \intersect before) = 0 /\ Cardinality(before) \in Nat
        BY <2>2, FS_EmptySet, FS_CardinalityType
    <2>5. Cardinality(S \union before) = a + Cardinality(before)
        BY <1>2, <2>3, <2>4
    <2> QED
        BY <2>1, <2>5 DEF Rank, before
<1> HIDE DEF U, a, b, first, second, whole
<1>8. ASSUME NEW n \in 1 .. a + b
      PROVE  whole[n] = (first \o second)[n]
    <2>1. CASE n <= a
        <3>1. n \in 1 .. a /\ first[n] \in S /\ Rank(S, first[n]) = n - 1
            BY <1>2, <1>3, <2>1
        <3>4. n \in Int
            BY <1>2
        <3>5. Rank(U, first[n]) = n - 1
            BY <1>6, <3>1
        <3>2. Rank(U, first[n]) + 1 = n
            BY <3>4, <3>5
        <3>0. first[n] \in U
            BY <3>1 DEF U
        <3>3. whole[n] = first[n]
            BY <1>5, <3>0, <3>2
        <3> QED
            BY <1>2, <1>3, <1>4, <3>1, <3>3
    <2>2. CASE ~(n <= a)
        <3>1. n - a \in 1 .. b
            BY <1>2, <2>2
        <3>2. second[n - a] \in T /\ Rank(T, second[n - a]) = (n - a) - 1
            BY <1>4, <3>1
        <3>5. n \in Int /\ a \in Int
            BY <1>2
        <3>6. Rank(U, second[n - a]) = a + ((n - a) - 1)
            BY <1>7, <3>2
        <3>3. Rank(U, second[n - a]) + 1 = n
            BY <3>5, <3>6
        <3>0. second[n - a] \in U
            BY <3>2 DEF U
        <3>4. whole[n] = second[n - a]
            BY <1>5, <3>0, <3>3
        <3> QED
            BY <1>2, <1>3, <1>4, <2>2, <3>1, <3>4
    <2> QED
        BY <2>1, <2>2
<1>9. whole = first \o second
    <2>1. first \o second \in Seq(Int) /\ Len(first \o second) = a + b
        <3>1. first \in Seq(Int) /\ second \in Seq(Int) /\ Len(first) = a /\ Len(second) = b
            BY <1>3, <1>4
        <3>2. first \o second \in Seq(Int) /\ Len(first \o second) = Len(first) + Len(second)
            BY <3>1, Appended
        <3> QED
            BY <3>1, <3>2
    <2> QED
        BY <1>5, <1>8, <2>1, SameList
<1> QED
    BY <1>2, <1>9 DEF U, a, b, first, second, whole

-----------------------------------------------------------------------------
\* Blocks.

LEMMA Multiples ==
    ASSUME NEW b \in Int
    PROVE  b * Block \in Int /\ (b + 1) * Block = b * Block + Block
    BY ScanAssumption

LEMMA BlocksAscend ==
    ASSUME NEW b \in Int, NEW c \in Int
    PROVE  b <= c <=> b * Block <= c * Block
<1>1. b <= c => b * Block <= c * Block
    BY ScanAssumption
<1>2. c < b => c * Block + Block <= b * Block
    <2>1. c + 1 <= b => (c + 1) * Block <= b * Block
        BY ScanAssumption
    <2> QED
        BY <2>1, Multiples
<1> QED
    BY <1>1, <1>2, ScanAssumption, Multiples

LEMMA BlockOf ==
    ASSUME NEW p \in Nat
    PROVE  /\ p \div Block \in Nat
           /\ (p \div Block) * Block <= p /\ p < ((p \div Block) + 1) * Block
    BY ScanAssumption

\* Every row is in a block, and every block has a row.
LEMMA BlocksHaveRows ==
    /\ BlockCount \in Int
    /\ \A p \in Positions : p \div Block < BlockCount
    /\ \A b \in Nat : b < BlockCount => b * Block < RightLen
<1> DEFINE last == RightLen + Block - 1
           n == BlockCount
<1>1. last \in Nat /\ RightLen \in Nat /\ Block \in Nat /\ last = RightLen + (Block - 1)
    BY ScanAssumption
<1>2. n = last \div Block
    BY DEF BlockCount
<1>3. n \in Nat /\ n * Block <= last /\ last < (n + 1) * Block
    BY <1>1, <1>2, BlockOf
<1>4. n * Block \in Int /\ (n + 1) * Block = n * Block + Block
    BY <1>3, Multiples
<1> HIDE DEF last, n
<1>5. ASSUME NEW p \in Positions PROVE p \div Block < n
    <2> DEFINE c == p \div Block
    <2>1. p \in Nat /\ p < RightLen
        BY <1>1, <1>5 DEF Positions
    <2>2. c \in Nat /\ c * Block <= p /\ c * Block \in Int
        BY <2>1, BlockOf, Multiples
    <2> HIDE DEF c
    <2>3. c * Block < n * Block
        BY <1>1, <1>3, <1>4, <2>1, <2>2
    <2>4. ~(n <= c)
        BY <1>3, <1>4, <2>2, <2>3, BlocksAscend
    <2>5. c < n
        BY <1>3, <2>2, <2>4
    <2> QED
        BY <2>5 DEF c
<1>6. ASSUME NEW b \in Nat, b < n PROVE b * Block < RightLen
    <2>1. (b + 1) * Block <= n * Block
        BY <1>3, <1>6, BlocksAscend
    <2>2. (b + 1) * Block = b * Block + Block /\ b * Block \in Int
        BY Multiples
    <2> QED
        BY <1>1, <1>3, <1>4, <2>1, <2>2
<1> QED
    BY <1>3, <1>5, <1>6 DEF n

LEMMA LesserOf ==
    ASSUME NEW a \in Int, NEW b \in Int
    PROVE  /\ Min({a, b}) = IF a <= b THEN a ELSE b
           /\ Max({a, b}) = IF a <= b THEN b ELSE a
<1> DEFINE least == IF a <= b THEN a ELSE b
           most == IF a <= b THEN b ELSE a
<1>1. /\ least \in {a, b} /\ \A q \in {a, b} : least <= q
      /\ \A m \in {a, b} : (\A q \in {a, b} : m <= q) => m = least
    OBVIOUS
<1>2. /\ most \in {a, b} /\ \A q \in {a, b} : most >= q
      /\ \A m \in {a, b} : (\A q \in {a, b} : m >= q) => m = most
    OBVIOUS
<1> HIDE DEF least, most
<1>3. Min({a, b}) = least
    BY <1>1 DEF Min
<1>4. Max({a, b}) = most
    BY <1>2 DEF Max
<1> QED
    BY <1>3, <1>4 DEF least, most

-----------------------------------------------------------------------------
\* Summaries.

LEMMA ScanFacts ==
    ASSUME scan \in Scans
    PROVE  /\ scan.walk \in Walks /\ scan.op \in RangeOps /\ scan.left \in Int
           /\ scan.values \in [Positions -> Int]
           /\ scan.start \in 0 .. RightLen /\ scan.end \in 0 .. RightLen
           /\ scan.start <= scan.end
           /\ scan.stop \in BOOLEAN /\ scan.summarized \in BOOLEAN
<1> QED
    BY ScanAssumption DEF Scan

ValuesAt(f, a, b) == {f[m] : m \in a .. b}

\* If one of several values passes, the most permissive of them does.
LEMMA PermissivePasses ==
    ASSUME scan \in Scans, NEW a \in Int, NEW b \in Int, NEW f,
           \A m \in a .. b : f[m] \in Int, NEW k \in a .. b
    PROVE  /\ MostPermissive(ValuesAt(f, a, b)) \in Int
           /\ Passes(f[k]) => Passes(MostPermissive(ValuesAt(f, a, b)))
<1> DEFINE column == [m \in a .. b |-> f[m]]
           values == ValuesAt(f, a, b)
<1>1. values \in SUBSET Int /\ f[k] \in values
    BY DEF ValuesAt
<1>2. IsFiniteSet(values)
    <2>1. column \in [a .. b -> values] /\ \A v \in values : \E m \in a .. b : column[m] = v
        BY DEF ValuesAt
    <2>2. IsFiniteSet(a .. b)
        BY FS_Interval
    <2> HIDE DEF column, values
    <2>3. column \in Surjection(a .. b, values)
        BY <2>1 DEF Surjection
    <2> QED
        BY <2>2, <2>3, FS_Surjection
<1> HIDE DEF values
<1>3. /\ Min(values) \in values /\ \A q \in values : Min(values) <= q
      /\ Max(values) \in values /\ \A q \in values : Max(values) >= q
    BY <1>1, <1>2, Extremes
<1>4. /\ Min(values) \in Int /\ Max(values) \in Int /\ f[k] \in Int
      /\ Min(values) <= f[k] /\ Max(values) >= f[k]
    BY <1>1, <1>3
<1>5. scan.op \in RangeOps /\ scan.left \in Int
    BY ScanFacts
<1>6. MostPermissive(values) \in Int
    BY <1>4 DEF MostPermissive
<1>7. Passes(f[k]) => Passes(MostPermissive(values))
    BY <1>4, <1>5 DEF MostPermissive, Passes, Apply, RangeOps
<1> QED
    BY <1>6, <1>7 DEF values

\* A block has an integer for a summary, which passes if one of its rows does.
LEMMA BlockSpeaks ==
    ASSUME scan \in Scans, NEW b \in Nat, NEW p \in Positions,
           b * Block <= p, p < (b + 1) * Block
    PROVE  BlockSummary(b) \in Int /\ (Passes(scan.values[p]) => Passes(BlockSummary(b)))
<1> DEFINE from == b * Block
           to == Min({(b + 1) * Block, RightLen}) - 1
<1>1. from \in Nat /\ (b + 1) * Block \in Int /\ RightLen \in Nat /\ p \in Nat /\ p < RightLen
    BY ScanAssumption DEF Positions
<1>2. to = (IF (b + 1) * Block <= RightLen THEN (b + 1) * Block ELSE RightLen) - 1
    BY <1>1, LesserOf
<1>3. to \in Int /\ p \in from .. to /\ to < RightLen
    BY <1>1, <1>2
<1>4. BlockSummary(b) = MostPermissive(ValuesAt(scan.values, from, to))
    BY DEF BlockSummary, BlockRows, ValuesAt
<1> HIDE DEF from, to
<1>5. \A m \in from .. to : m \in Positions
    BY <1>1, <1>3 DEF Positions
<1>6. \A m \in from .. to : scan.values[m] \in Int
    BY <1>5, ScanFacts
<1> QED
    BY <1>1, <1>3, <1>4, <1>6, PermissivePasses

\* So does a super-block speak for its blocks.
LEMMA SuperSpeaks ==
    ASSUME scan \in Scans, NEW s \in Nat, NEW b \in Nat, b < BlockCount,
           s * Super <= b, b < (s + 1) * Super
    PROVE  Passes(BlockSummary(b)) => Passes(SuperSummary(s))
<1> DEFINE from == s * Super
           to == Min({(s + 1) * Super, BlockCount}) - 1
           summaries == [c \in from .. to |-> BlockSummary(c)]
<1>1. from \in Nat /\ (s + 1) * Super \in Int /\ BlockCount \in Int
    BY ScanAssumption, BlocksHaveRows
<1>2. to = (IF (s + 1) * Super <= BlockCount THEN (s + 1) * Super ELSE BlockCount) - 1
    BY <1>1, LesserOf
<1>3. to \in Int /\ b \in from .. to /\ to < BlockCount
    BY <1>1, <1>2
<1>4. SuperSummary(s) = MostPermissive(ValuesAt(summaries, from, to))
    <2>1. {BlockSummary(c) : c \in from .. to} = {summaries[c] : c \in from .. to}
        OBVIOUS
    <2> QED
        BY <2>1 DEF SuperSummary, ValuesAt
<1>6. summaries[b] = BlockSummary(b)
    BY <1>3
<1>7. ASSUME NEW c \in from .. to PROVE summaries[c] \in Int
    <2>1. c \in Nat /\ c < BlockCount /\ summaries[c] = BlockSummary(c)
        BY <1>1, <1>3
    <2>2. c * Block < RightLen /\ c * Block \in Nat /\ c * Block < (c + 1) * Block
        BY <2>1, BlocksHaveRows, Multiples, ScanAssumption
    <2>3. c * Block \in Positions
        BY <2>2, ScanAssumption DEF Positions
    <2> HIDE DEF from, to, summaries
    <2> QED
        BY <2>1, <2>2, <2>3, BlockSpeaks
<1> HIDE DEF from, to, summaries
<1>8. Passes(summaries[b]) => Passes(MostPermissive(ValuesAt(summaries, from, to)))
    BY <1>1, <1>3, <1>7, PermissivePasses
<1> QED
    BY <1>4, <1>6, <1>8

\* What is passed over cannot match.
LEMMA SkippedIsSettled ==
    ASSUME scan \in Scans, block \in Nat, SuperFails \/ ~Passes(BlockSummary(block)),
           NEW p \in Positions, block * Block <= p, p < (block + SkippedBlocks) * Block
    PROVE  ~Passes(scan.values[p])
<1>1. p \in Nat /\ Super \in Nat \ {0}
    BY ScanAssumption DEF Positions
<1>2. CASE ~SuperFails
    BY <1>2, BlockSpeaks DEF SkippedBlocks
<1>3. CASE SuperFails
    <2> DEFINE c == p \div Block
               s == block \div Super
    <2>1. s \in Nat /\ s * Super = block /\ (s + 1) * Super = block + Super
        BY <1>1, <1>3 DEF SuperFails
    <2>2. c \in Nat /\ c * Block <= p /\ p < (c + 1) * Block /\ c < BlockCount
        BY <1>1, BlockOf, BlocksHaveRows
    <2>3. ~Passes(SuperSummary(s)) /\ SkippedBlocks = Super
        BY <1>3 DEF SuperFails, SkippedBlocks
    <2> HIDE DEF c, s
    <2>4. /\ c * Block \in Int /\ (c + 1) * Block \in Int /\ block * Block \in Int
          /\ (block + Super) * Block \in Int
        BY <1>1, <2>2, Multiples
    <2>5. ~((block + Super) <= c) /\ ~(c + 1 <= block)
        <3>1. c + 1 \in Int /\ block + Super \in Int
            BY <1>1, <2>2
        <3>2. (block + Super) <= c => (block + Super) * Block <= c * Block
            BY <2>2, <3>1, BlocksAscend
        <3>3. c + 1 <= block => (c + 1) * Block <= block * Block
            BY <3>1, BlocksAscend
        <3> QED
            BY <1>1, <2>2, <2>3, <2>4, <3>2, <3>3
    <2>6. block <= c /\ c < block + Super
        BY <1>1, <2>2, <2>5
    <2>7. Passes(BlockSummary(c)) => Passes(SuperSummary(s))
        BY <2>1, <2>2, <2>6, SuperSpeaks
    <2> QED
        BY <2>2, <2>3, <2>7, BlockSpeaks
<1> QED
    BY <1>2, <1>3

-----------------------------------------------------------------------------
\* The walks.

\* The matching rows before block b.
Settled(b) == {p \in Expected : p < b * Block}

RunsAreSound ==
    \A n \in DOMAIN reported :
        /\ scan.start <= reported[n][1]
        /\ reported[n][1] < reported[n][2] /\ reported[n][2] <= scan.end
        /\ n > 1 => reported[n - 1][2] < reported[n][1]

InRun(p) == \E n \in DOMAIN reported : reported[n][1] <= p /\ p < reported[n][2]

\* The open run lies in the window and before the block; where none is open, the
\* last one ended before a block that was passed over.
RunsInv ==
    /\ reported \in Seq(Int \X Int) /\ run_start \in Int
    /\ RunsAreSound
    /\ run_start # NoRun =>
        scan.start <= run_start /\ run_start < scan.end /\ run_start < block * Block
    /\ reported # <<>> =>
        reported[Len(reported)][2] < IF run_start = NoRun THEN block * Block ELSE run_start
    /\ scan.stop => reported = <<>>
    /\ \A p \in Settled(block) : InRun(p) \/ (run_start # NoRun /\ run_start <= p)

\* What the walk has to show for the rows before its block.
SettledInv ==
    /\ scan.walk = "count" => count = Cardinality(Settled(block))
    /\ scan.walk = "matches" =>
        IF scan.stop THEN reported = <<>> /\ Settled(block) = {}
        ELSE reported = Ascending(Settled(block))
    /\ scan.walk = "runs" => RunsInv
    /\ scan.walk # "runs" => run_start = NoRun

ScanInv ==
    /\ scan \in Scans /\ block \in Nat /\ pc \in {"start", "walk", "done"}
    /\ pc = "start" => run_start = NoRun /\ reported = <<>> /\ count = 0
    /\ pc = "walk" => ~Direct /\ scan.start \div Block <= block /\ SettledInv
    /\ ScanIsExact /\ RunsCoverMatches

LEMMA ExpectedFacts ==
    ASSUME scan \in Scans
    PROVE  /\ Expected \in SUBSET Int /\ IsFiniteSet(Expected)
           /\ \A p \in Int : p \in Expected <=>
                /\ scan.start <= p /\ p < scan.end /\ p \in Positions
                /\ Passes(scan.values[p])
           /\ \A b : Settled(b) \in SUBSET Int /\ IsFiniteSet(Settled(b))
<1> DEFINE window == scan.start .. scan.end - 1
<1>1. /\ scan.start \in Nat /\ scan.end \in Nat /\ RightLen \in Nat /\ scan.end <= RightLen
    BY ScanFacts, ScanAssumption
<1>2. IsFiniteSet(window)
    <2>1. scan.start \in Int /\ scan.end - 1 \in Int
        BY <1>1
    <2> QED
        BY <2>1, FS_Interval
<1>3. Expected \in SUBSET window /\ window \in SUBSET Int
    BY <1>1 DEF Expected
<1>4. \A p \in Int : p \in window <=> scan.start <= p /\ p < scan.end /\ p \in Positions
    BY <1>1 DEF Positions
<1>5. \A p \in window : p \in Int /\ (p \in Expected <=> Passes(scan.values[p]))
    BY <1>1 DEF Expected, Passes
<1> HIDE DEF window
<1>6. IsFiniteSet(Expected)
    BY <1>2, <1>3, FS_Subset
<1>7. \A b : Settled(b) \in SUBSET Expected
    BY DEF Settled
<1>8. \A b : Settled(b) \in SUBSET Int /\ IsFiniteSet(Settled(b))
    BY <1>3, <1>6, <1>7, FS_Subset
<1> QED
    BY <1>3, <1>4, <1>5, <1>6, <1>8

\* Rows before the window need no looking at.
LEMMA NothingBefore ==
    ASSUME scan \in Scans, NEW b \in Int, b * Block <= scan.start
    PROVE  Settled(b) = {}
<1>1. b * Block \in Int /\ scan.start \in Int
    BY Multiples, ScanFacts
<1>2. \A p \in Expected : p \in Int /\ scan.start <= p
    BY ExpectedFacts
<1> QED
    BY <1>1, <1>2 DEF Settled

LEMMA SkipSettles ==
    ASSUME scan \in Scans, block \in Nat, SuperFails \/ ~Passes(BlockSummary(block))
    PROVE  /\ block + SkippedBlocks \in Nat /\ block < block + SkippedBlocks
           /\ Settled(block + SkippedBlocks) = Settled(block)
<1> DEFINE next == block + SkippedBlocks
<1>1. next \in Nat /\ block < next
    BY ScanAssumption DEF SkippedBlocks
<1>2. block * Block \in Int /\ next * Block \in Int /\ block * Block <= next * Block
    BY <1>1, Multiples, BlocksAscend
<1>3. ASSUME NEW p \in Expected
      PROVE  p < next * Block <=> p < block * Block
    <2>1. p \in Int /\ p \in Positions /\ Passes(scan.values[p])
        BY ExpectedFacts
    <2>2. ~(block * Block <= p /\ p < next * Block)
        BY <2>1, SkippedIsSettled
    <2> QED
        BY <1>2, <2>1, <2>2
<1> QED
    BY <1>1, <1>3 DEF Settled

\* The rows of an opened block that belong to the window.
LEMMA OpenFacts ==
    ASSUME scan \in Scans, block \in Nat
    PROVE  /\ From(block) = (IF block * Block <= scan.start THEN scan.start ELSE block * Block)
           /\ To(block) = (IF (block + 1) * Block <= scan.end THEN (block + 1) * Block
                           ELSE scan.end)
<1>1. /\ block * Block \in Int /\ (block + 1) * Block \in Int
      /\ scan.start \in Int /\ scan.end \in Int
    BY Multiples, ScanFacts
<1> QED
    BY <1>1, LesserOf DEF From, To

LEMMA OpenSettles ==
    ASSUME scan \in Scans, block \in Nat
    PROVE  LET found == Matching(From(block), To(block))
           IN  /\ found \in SUBSET Int /\ IsFiniteSet(found)
               /\ Settled(block + 1) = Settled(block) \union found
               /\ \A p \in Settled(block), q \in found : p < q
               /\ found \in SUBSET Expected
               /\ \A p \in Expected : p \in found \/ p \in Settled(block) \/ \A q \in found : q < p
<1> DEFINE found == Matching(From(block), To(block))
           low == block * Block
           high == (block + 1) * Block
<1>1. /\ low \in Int /\ high \in Int /\ low <= high
      /\ scan.start \in Nat /\ scan.end \in Nat /\ RightLen \in Nat /\ scan.end <= RightLen
    BY Multiples, BlocksAscend, ScanFacts, ScanAssumption
<1>2. /\ From(block) = (IF low <= scan.start THEN scan.start ELSE low)
      /\ To(block) = (IF high <= scan.end THEN high ELSE scan.end)
    BY OpenFacts
<1> HIDE DEF low, high
<1>3. From(block) \in Int /\ To(block) \in Int
    BY <1>1, <1>2
<1>4. ASSUME NEW p \in Int
      PROVE  p \in found <=> p \in Expected /\ low <= p /\ p < high
    <2>1. p \in found <=> From(block) <= p /\ p < To(block) /\ Passes(scan.values[p])
        BY <1>3 DEF Matching
    <2>2. p \in Expected <=>
            scan.start <= p /\ p < scan.end /\ p \in Positions /\ Passes(scan.values[p])
        BY ExpectedFacts
    <2>3. scan.start <= p /\ p < scan.end => p \in Positions
        BY <1>1 DEF Positions
    <2> HIDE DEF found
    <2>4. From(block) <= p /\ p < To(block) <=>
            scan.start <= p /\ p < scan.end /\ low <= p /\ p < high
        BY <1>1, <1>2
    <2> QED
        BY <2>1, <2>2, <2>3, <2>4
<1>5. found \in SUBSET Int
    BY <1>3 DEF Matching
<1> HIDE DEF found
<1>6. /\ \A p \in Settled(block) : p \in Int /\ p \in Expected /\ p < low
      /\ \A p \in Expected : p \in Int /\ (p < low => p \in Settled(block))
      /\ \A p \in Settled(block + 1) : p \in Int /\ p \in Expected /\ p < high
      /\ \A p \in Expected : p < high => p \in Settled(block + 1)
    BY ExpectedFacts DEF Settled, low, high
<1>7. \A p \in found : p \in Int /\ p \in Expected /\ low <= p /\ p < high
    BY <1>4, <1>5
<1>8. Settled(block + 1) = Settled(block) \union found
    <2>1. ASSUME NEW p \in Settled(block + 1) PROVE p \in Settled(block) \union found
        BY <1>1, <1>4, <1>6
    <2>2. ASSUME NEW p \in Settled(block) \union found PROVE p \in Settled(block + 1)
        <3>1. p \in Int /\ p \in Expected /\ p < high
            BY <1>1, <1>6, <1>7
        <3> QED
            BY <1>6, <3>1
    <2> QED
        BY <2>1, <2>2
<1>9. IsFiniteSet(found)
    BY <1>7, ExpectedFacts, FS_Subset
<1>10. \A p \in Settled(block), q \in found : p < q
    BY <1>1, <1>6, <1>7
<1>11. ASSUME NEW p \in Expected, p \notin found, p \notin Settled(block), NEW q \in found
       PROVE  q < p
    BY <1>1, <1>4, <1>6, <1>7, <1>11
<1> QED
    BY <1>5, <1>7, <1>8, <1>9, <1>10, <1>11 DEF found

\* Beyond the last block of the window everything is settled.
LEMMA EverythingSettled ==
    ASSUME scan \in Scans, ~Direct, block \in Nat
    PROVE  /\ scan.start < scan.end
           /\ block <= LastBlock => block * Block < scan.end
           /\ block > LastBlock => scan.end <= block * Block /\ Settled(block) = Expected
<1> DEFINE last == scan.end - 1
           b == last \div Block
<1>1. scan.start \in Nat /\ scan.end \in Nat /\ scan.start < scan.end /\ last \in Nat
    BY ScanFacts, ScanAssumption DEF Direct
<1>2. b \in Nat /\ b * Block <= last /\ last < (b + 1) * Block /\ LastBlock = b
    BY <1>1, BlockOf DEF LastBlock
<1>3. b * Block \in Int /\ (b + 1) * Block \in Int /\ block * Block \in Int
    BY <1>2, Multiples
<1>4. last < scan.end /\ (\A x \in Int : last < x => scan.end <= x)
    BY <1>1
<1> HIDE DEF b, last
<1>5. block <= b => block * Block < scan.end
    BY <1>1, <1>2, <1>3, <1>4, BlocksAscend
<1>6. block > b => scan.end <= block * Block
    <2>1. block > b => (b + 1) * Block <= block * Block
        BY <1>2, BlocksAscend
    <2> QED
        BY <1>1, <1>2, <1>3, <1>4, <2>1
<1>7. scan.end <= block * Block => Settled(block) = Expected
    <2>1. \A p \in Expected : p \in Int /\ p < scan.end
        BY ExpectedFacts
    <2>2. scan.end <= block * Block => \A p \in Expected : p < block * Block
        BY <1>1, <1>3, <2>1
    <2> QED
        BY <2>2 DEF Settled
<1> QED
    BY <1>1, <1>2, <1>5, <1>6, <1>7

-----------------------------------------------------------------------------
\* Steps.

LEMMA ScanStays ==
    ASSUME scan' = scan
    PROVE  /\ Expected' = Expected /\ Direct' = Direct
           /\ Settled(block)' = Settled(block')
           /\ LastBlock' = LastBlock
<1> QED
    BY DEF Expected, Direct, Settled, LastBlock

LEMMA DirectMatches ==
    ASSUME scan \in Scans, ReadDirectly, pc = "start" => reported = <<>>, scan.walk = "matches"
    PROVE  reported' = IF scan.stop /\ Expected # {} THEN <<Min(Expected)>>
                       ELSE Ascending(Expected)
<1> DEFINE found == Ascending(Matching(scan.start, scan.end))
<1>1. Matching(scan.start, scan.end) = Expected
    BY DEF Matching, Expected, Passes
<1>2. ReportMatches(scan.start, scan.end, "done") /\ reported = <<>>
    BY DEF ReadDirectly
<1>3. IF scan.stop /\ found # <<>> THEN reported' = <<found[1]>> ELSE reported' = <<>> \o found
    BY <1>2 DEF ReportMatches
<1>4. found = Ascending(Expected)
    BY <1>1
<1>5. /\ found \in Seq(Int) /\ Len(found) = Cardinality(Expected)
      /\ Expected # {} => found # <<>> /\ found[1] = Min(Expected)
      /\ Expected = {} => found = <<>>
    <2>1. Expected \in SUBSET Int /\ IsFiniteSet(Expected)
        BY ExpectedFacts
    <2>2. Ascending(Expected) \in Seq(Int) /\ Len(Ascending(Expected)) = Cardinality(Expected)
        BY <2>1, AscendingListsRows
    <2>3. ASSUME Expected # {}
          PROVE  Ascending(Expected) # <<>> /\ Ascending(Expected)[1] = Min(Expected)
        <3>1. Cardinality(Expected) \in Nat \ {0} /\ Ascending(Expected)[1] = Min(Expected)
            BY <2>1, <2>3, Extremes
        <3> QED
            BY <2>2, <3>1
    <2> HIDE DEF found
    <2> QED
        BY <1>4, <2>2, <2>3, NoRows
<1> HIDE DEF found
<1>6. <<>> \o found = found
    BY <1>5
<1> QED
    BY <1>3, <1>4, <1>5, <1>6

LEMMA DirectStep == ScanInv /\ ReadDirectly => ScanInv'
<1> SUFFICES ASSUME ScanInv, ReadDirectly PROVE ScanInv'
    OBVIOUS
<1>1. /\ scan \in Scans /\ scan' = scan /\ block' = block /\ run_start' = run_start
      /\ block \in Nat /\ pc = "start" /\ reported = <<>> /\ count = 0
    BY DEF ScanInv, ReadDirectly
<1>2. pc' = "done"
    BY DEF ReadDirectly, ReportMatches, AddMatches
<1>3. Expected' = Expected
    BY <1>1, ScanStays
<1>4. scan.walk \in Walks /\ scan.start \in Int /\ scan.end \in Int /\ scan.start <= scan.end
    BY <1>1, ScanFacts
<1>5. scan.walk = "count" => count' = Cardinality(Expected)
    <2>1. Matching(scan.start, scan.end) = Expected
        BY DEF Matching, Expected, Passes
    <2>2. Cardinality(Expected) \in Nat
        BY <1>1, ExpectedFacts, FS_CardinalityType
    <2>3. scan.walk = "count" => count' = 0 + Cardinality(Expected)
        BY <1>1, <2>1 DEF ReadDirectly, AddMatches
    <2> QED
        BY <2>2, <2>3
<1>6. scan.walk = "matches" =>
        reported' = IF scan.stop /\ Expected # {} THEN <<Min(Expected)>> ELSE Ascending(Expected)
    BY <1>1, DirectMatches
<1>7. ScanIsExact'
    BY <1>1, <1>3, <1>5, <1>6 DEF ScanIsExact
<1>8. RunsCoverMatches'
    <2> SUFFICES ASSUME scan.walk = "runs" PROVE RunsCoverMatches'
        BY <1>1 DEF RunsCoverMatches
    <2>1. reported' = IF scan.start = scan.end THEN <<>> ELSE << <<scan.start, scan.end>> >>
        BY DEF ReadDirectly
    <2>2. \A p \in Expected : p \in Int /\ scan.start <= p /\ p < scan.end
        BY <1>1, ExpectedFacts
    <2>3. CASE scan.start = scan.end
        <3>1. reported' = <<>> /\ Expected = {}
            BY <1>4, <2>1, <2>2, <2>3
        <3> QED
            BY <1>3, <3>1 DEF RunsCoverMatches
    <2>4. CASE scan.start # scan.end
        <3> DEFINE run == <<scan.start, scan.end>>
        <3>1. reported' = <<run>> /\ run[1] = scan.start /\ run[2] = scan.end /\ scan.start < scan.end
            BY <1>4, <2>1, <2>4
        <3> HIDE DEF run
        <3>2. DOMAIN reported' = {1} /\ reported'[1] = run
            BY <3>1
        <3>3. \A n \in DOMAIN reported' :
                /\ scan.start <= reported'[n][1]
                /\ reported'[n][1] < reported'[n][2] /\ reported'[n][2] <= scan.end
                /\ n > 1 => reported'[n - 1][2] < reported'[n][1]
            BY <1>4, <3>1, <3>2
        <3>4. \A p \in Expected : \E n \in DOMAIN reported' : reported'[n][1] <= p /\ p < reported'[n][2]
            BY <2>2, <3>1, <3>2
        <3> QED
            BY <1>1, <1>3, <3>3, <3>4 DEF RunsCoverMatches
    <2> QED
        BY <2>3, <2>4
<1> QED
    BY <1>1, <1>2, <1>7, <1>8 DEF ScanInv

LEMMA EnterStep == ScanInv /\ Enter => ScanInv'
<1> SUFFICES ASSUME ScanInv, Enter PROVE ScanInv'
    OBVIOUS
<1>1. /\ scan \in Scans /\ scan' = scan /\ block' = scan.start \div Block
      /\ run_start' = NoRun /\ reported' = <<>> /\ count' = 0 /\ pc' = "walk" /\ ~Direct
    BY DEF ScanInv, Enter
<1>2. scan.start \in Nat
    BY <1>1, ScanFacts, ScanAssumption
<1>3. block' \in Nat /\ block' * Block <= scan.start
    BY <1>1, <1>2, BlockOf
<1>4. Settled(block') = {}
    BY <1>1, <1>3, NothingBefore
<1>5. Settled(block)' = {} /\ ~Direct'
    BY <1>1, <1>4, ScanStays
<1>6. Ascending({}) = <<>> /\ Cardinality({}) = 0
    BY NoRows
<1>7. RunsInv'
    BY <1>1, <1>5 DEF RunsInv, RunsAreSound, NoRun
<1>8. SettledInv'
    BY <1>1, <1>5, <1>6, <1>7 DEF SettledInv
<1> QED
    BY <1>1, <1>3, <1>5, <1>8 DEF ScanInv, ScanIsExact, RunsCoverMatches

\* Closing the open run at a position of the window.
LEMMA RunCloses ==
    ASSUME scan \in Scans, RunsInv, run_start # NoRun, NEW to \in Int,
           run_start < to, to <= scan.end, scan' = scan,
           reported' = Append(reported, <<run_start, to>>)
    PROVE  /\ reported' \in Seq(Int \X Int) /\ reported' # <<>> /\ RunsAreSound'
           /\ reported'[Len(reported')][2] = to
           /\ \A p \in Settled(block) : p < to => InRun(p)'
           /\ scan.stop => DOMAIN reported' = {1} /\ reported'[1][1] = run_start /\ reported'[1][2] = to
<1> DEFINE run == <<run_start, to>>
           size == Len(reported)
<1>1. /\ reported \in Seq(Int \X Int) /\ run_start \in Int /\ RunsAreSound
      /\ scan.start <= run_start
      /\ reported # <<>> => reported[size][2] < run_start
      /\ scan.stop => reported = <<>>
      /\ \A p \in Settled(block) : InRun(p) \/ run_start <= p
    BY DEF RunsInv
<1>2. run \in Int \X Int /\ run[1] = run_start /\ run[2] = to /\ reported' = Append(reported, run)
    BY <1>1
<1> HIDE DEF run
<1>3. /\ size \in Nat /\ DOMAIN reported = 1 .. size
      /\ reported' \in Seq(Int \X Int) /\ Len(reported') = size + 1
      /\ DOMAIN reported' = 1 .. size + 1
      /\ \A n \in 1 .. size : reported'[n] = reported[n]
      /\ reported'[size + 1] = run
    BY <1>1, <1>2
<1>4. size # 0 => reported # <<>>
    BY <1>1
<1> HIDE DEF size
<1>5. ASSUME NEW n \in DOMAIN reported'
      PROVE  /\ scan.start <= reported'[n][1]
             /\ reported'[n][1] < reported'[n][2] /\ reported'[n][2] <= scan.end
             /\ n > 1 => reported'[n - 1][2] < reported'[n][1]
    <2>1. CASE n \in 1 .. size
        <3>1. reported'[n] = reported[n] /\ n \in DOMAIN reported
            BY <1>3, <2>1
        <3>2. n > 1 => n - 1 \in 1 .. size
            BY <1>3, <2>1
        <3>3. n > 1 => reported'[n - 1] = reported[n - 1]
            BY <1>3, <3>2
        <3> QED
            BY <1>1, <3>1, <3>3 DEF RunsAreSound
    <2>2. CASE n = size + 1
        <3>1. reported'[n] = run
            BY <1>3, <2>2
        <3>2. n > 1 => n - 1 = size /\ size # 0 /\ size \in 1 .. size
            BY <1>3, <2>2
        <3>3. n > 1 => reported'[n - 1] = reported[size] /\ reported # <<>>
            BY <1>3, <1>4, <3>2
        <3>4. n > 1 => reported'[n - 1][2] < run_start
            BY <1>1, <3>3
        <3> QED
            BY <1>1, <1>2, <3>1, <3>4
    <2> QED
        BY <1>3, <2>1, <2>2
<1>6. ASSUME NEW p \in Settled(block), p < to
      PROVE  \E n \in DOMAIN reported' : reported'[n][1] <= p /\ p < reported'[n][2]
    <2>1. CASE InRun(p)
        <3>1. PICK n \in DOMAIN reported : reported[n][1] <= p /\ p < reported[n][2]
            BY <2>1 DEF InRun
        <3>2. n \in DOMAIN reported' /\ reported'[n] = reported[n]
            BY <1>3, <3>1
        <3> QED
            BY <3>1, <3>2
    <2>2. CASE run_start <= p
        <3>1. size + 1 \in DOMAIN reported'
            BY <1>3
        <3> QED
            BY <1>2, <1>3, <1>6, <2>2, <3>1
    <2> QED
        BY <1>1, <2>1, <2>2
<1>7. scan.stop => size = 0
    BY <1>1 DEF size
<1>8. RunsAreSound' /\ reported' # <<>>
    BY <1>3, <1>5 DEF RunsAreSound
<1>9. scan.stop => DOMAIN reported' = {1} /\ reported'[1] = run
    BY <1>3, <1>7
<1> QED
    BY <1>2, <1>3, <1>6, <1>8, <1>9 DEF InRun

LEMMA SkipStep == ScanInv /\ Skip => ScanInv'
<1> SUFFICES ASSUME ScanInv, Skip PROVE ScanInv'
    OBVIOUS
<1> DEFINE here == block * Block
<1>1. /\ scan \in Scans /\ scan' = scan /\ block \in Nat /\ pc = "walk" /\ block <= LastBlock
      /\ ~Direct /\ scan.start \div Block <= block /\ SettledInv
      /\ run_start' = NoRun /\ count' = count /\ block' = block + SkippedBlocks
      /\ CloseRun(here, "walk")
      /\ SuperFails \/ ~Passes(BlockSummary(block))
    BY DEF ScanInv, Skip, Walking
<1>2. block' \in Nat /\ block < block' /\ Settled(block') = Settled(block)
    BY <1>1, SkipSettles
<1>3. Settled(block)' = Settled(block) /\ ~Direct' /\ Expected' = Expected
    BY <1>1, <1>2, ScanStays
<1>4. here \in Int /\ block' * Block \in Int /\ here < block' * Block /\ here < scan.end
    <2>1. here \in Int /\ block' * Block \in Int
        BY <1>1, <1>2, Multiples
    <2>2. ~(block' <= block)
        BY <1>1, <1>2
    <2>3. ~(block' * Block <= here)
        BY <1>1, <1>2, <2>2, BlocksAscend
    <2>4. here < scan.end
        BY <1>1, EverythingSettled
    <2> QED
        BY <2>1, <2>3, <2>4
<1>5. scan.start \in Nat /\ scan.end \in Nat /\ scan.start \div Block \in Nat
    BY <1>1, ScanFacts, ScanAssumption
<1>6. scan'.start \div Block <= block'
    BY <1>1, <1>2, <1>5
<1> HIDE DEF here
<1>7. CASE run_start = NoRun
    <2>1. reported' = reported /\ pc' = "walk"
        BY <1>1, <1>7 DEF CloseRun
    <2>2. ASSUME RunsInv PROVE RunsInv'
        <3>1. /\ RunsAreSound' /\ \A p : InRun(p)' <=> InRun(p)
            BY <1>1, <2>1, <2>2 DEF RunsInv, RunsAreSound, InRun
        <3>2. reported # <<>> => reported[Len(reported)][2] < here
            BY <1>7, <2>2 DEF RunsInv, here
        <3>3. reported \in Seq(Int \X Int)
            BY <2>2 DEF RunsInv
        <3>4. reported # <<>> => reported[Len(reported)][2] \in Int
            BY <3>3
        <3>5. reported # <<>> => reported[Len(reported)][2] < block' * Block
            BY <1>4, <3>2, <3>4
        <3>6. \A p \in Settled(block) : InRun(p)
            BY <1>7, <2>2 DEF RunsInv
        <3> QED
            BY <1>1, <1>3, <2>1, <2>2, <3>1, <3>3, <3>5, <3>6 DEF RunsInv, NoRun
    <2>3. SettledInv'
        BY <1>1, <1>3, <2>1, <2>2 DEF SettledInv
    <2> QED
        BY <1>1, <1>2, <1>3, <1>6, <2>1, <2>3 DEF ScanInv, ScanIsExact, RunsCoverMatches
<1>8. CASE run_start # NoRun
    <2>1. /\ scan.walk = "runs" /\ RunsInv
          /\ reported' = Append(reported, <<run_start, here>>)
          /\ pc' = IF scan.stop THEN "done" ELSE "walk"
        BY <1>1, <1>8, ScanFacts DEF CloseRun, SettledInv
    <2>2. run_start < here
        BY <1>8, <2>1 DEF RunsInv, here
    <2>3. /\ reported' \in Seq(Int \X Int) /\ reported' # <<>> /\ RunsAreSound'
          /\ reported'[Len(reported')][2] = here
          /\ \A p \in Settled(block) : p < here => InRun(p)'
          /\ scan.stop => DOMAIN reported' = {1} /\ reported'[1][1] = run_start /\ reported'[1][2] = here
        <3>1. here \in Int /\ here <= scan.end
            BY <1>4, <1>5
        <3>2. scan \in Scans /\ scan' = scan
            BY <1>1
        <3> QED
            BY <1>8, <2>1, <2>2, <3>1, <3>2, RunCloses, Zenon
    <2>4. \A p \in Settled(block) : p < here
        BY DEF Settled, here
    <2>5. CASE ~scan.stop
        <3>1. RunsInv'
            BY <1>1, <1>3, <1>4, <2>3, <2>4, <2>5 DEF RunsInv, NoRun
        <3>2. SettledInv'
            BY <1>1, <2>1, <3>1 DEF SettledInv
        <3> QED
            BY <1>1, <1>2, <1>3, <1>6, <2>1, <2>5, <3>2 DEF ScanInv, ScanIsExact, RunsCoverMatches
    <2>6. CASE scan.stop
        <3>1. ASSUME NEW p \in Expected, ~(p >= here)
              PROVE  InRun(p)'
            <4>1. p \in Int /\ p < here
                BY <1>1, <1>4, <3>1, ExpectedFacts
            <4>2. p \in Settled(block)
                BY <4>1 DEF Settled, here
            <4> QED
                BY <2>3, <4>1, <4>2
        <3>2. RunsCoverMatches'
            BY <1>1, <1>3, <2>3, <2>6, <3>1 DEF RunsCoverMatches, RunsAreSound, InRun
        <3>3. pc' = "done" /\ ScanIsExact'
            BY <1>1, <2>1, <2>6 DEF ScanIsExact
        <3> QED
            BY <1>1, <1>2, <3>2, <3>3 DEF ScanInv
    <2> QED
        BY <2>5, <2>6
<1> QED
    BY <1>7, <1>8

\* An opened block of the reporting walk.
LEMMA OpenReports ==
    ASSUME scan \in Scans, block \in Nat, scan' = scan, block' = block + 1, pc = "walk",
           scan.walk = "matches", SettledInv,
           ReportMatches(From(block), To(block), "walk")
    PROVE  \/ /\ pc' = "done" /\ scan.stop /\ Expected # {} /\ reported' = <<Min(Expected)>>
           \/ /\ pc' = "walk"
              /\ IF scan.stop THEN reported' = <<>> /\ Settled(block') = {}
                 ELSE reported' = Ascending(Settled(block'))
<1> DEFINE M == Matching(From(block), To(block))
           found == Ascending(M)
<1>1. /\ M \in SUBSET Int /\ IsFiniteSet(M)
      /\ Settled(block') = Settled(block) \union M
      /\ \A p \in Settled(block), q \in M : p < q
      /\ M \in SUBSET Expected
      /\ \A p \in Expected : p \in M \/ p \in Settled(block) \/ \A q \in M : q < p
    BY OpenSettles
<1>2. IF scan.stop /\ found # <<>>
      THEN reported' = <<found[1]>> /\ pc' = "done"
      ELSE reported' = reported \o found /\ pc' = "walk"
    BY DEF ReportMatches
<1>3. IF scan.stop THEN reported = <<>> /\ Settled(block) = {}
      ELSE reported = Ascending(Settled(block))
    BY DEF SettledInv
<1> HIDE DEF M
<1>4. found \in Seq(Int) /\ Len(found) = Cardinality(M)
    BY <1>1, AscendingListsRows
<1>5. M # {} => /\ found # <<>> /\ found[1] = Min(M)
                /\ Min(M) \in M /\ \A q \in M : Min(M) <= q
    <2> SUFFICES ASSUME M # {}
                 PROVE  /\ found # <<>> /\ found[1] = Min(M)
                        /\ Min(M) \in M /\ \A q \in M : Min(M) <= q
        OBVIOUS
    <2>1. /\ Min(M) \in M /\ \A q \in M : Min(M) <= q
          /\ Cardinality(M) \in Nat \ {0} /\ found[1] = Min(M)
        BY <1>1, Extremes
    <2> HIDE DEF found
    <2> QED
        BY <1>4, <2>1
<1>6. M = {} => found = <<>>
    BY NoRows
<1> HIDE DEF found
<1>7. CASE scan.stop /\ M # {}
    <2>1. /\ reported' = <<Min(M)>> /\ pc' = "done"
          /\ Min(M) \in Expected /\ Expected # {} /\ Settled(block) = {}
        BY <1>1, <1>2, <1>3, <1>5, <1>7
    <2>2. Expected \in SUBSET Int /\ IsFiniteSet(Expected)
        BY ExpectedFacts
    <2>3. Min(Expected) \in Expected /\ \A q \in Expected : Min(Expected) <= q
        BY <2>1, <2>2, Extremes
    <2>4. \A q \in Expected : Min(M) <= q
        <3> SUFFICES ASSUME NEW q \in Expected PROVE Min(M) <= q
            OBVIOUS
        <3>1. q \in Int /\ Min(M) \in Int
            BY <2>1, <2>2
        <3>2. q \in M \/ Min(M) < q
            BY <1>1, <1>5, <1>7, <2>1
        <3> QED
            BY <1>5, <1>7, <3>1, <3>2
    <2>5. Min(M) \in Int /\ Min(Expected) \in Int /\ Min(M) <= Min(Expected) /\ Min(Expected) <= Min(M)
        BY <2>1, <2>2, <2>3, <2>4
    <2>6. Min(M) = Min(Expected)
        BY <2>5
    <2> QED
        BY <1>7, <2>1, <2>6
<1>8. CASE scan.stop /\ M = {}
    <2>1. reported' = <<>> \o found /\ found = <<>> /\ pc' = "walk" /\ Settled(block) = {}
        BY <1>2, <1>3, <1>6, <1>8
    <2>2. reported' = <<>> /\ Settled(block') = {}
        BY <1>1, <1>8, <2>1
    <2> QED
        BY <1>8, <2>1, <2>2
<1>9. CASE ~scan.stop
    <2>1. reported' = Ascending(Settled(block)) \o found /\ pc' = "walk"
        BY <1>2, <1>3, <1>9
    <2>2. Settled(block) \in SUBSET Int /\ IsFiniteSet(Settled(block))
        BY ExpectedFacts
    <2>3. Ascending(Settled(block) \union M) = Ascending(Settled(block)) \o Ascending(M)
        BY <1>1, <2>2, AscendingJoins
    <2> QED
        BY <1>1, <1>9, <2>1, <2>3 DEF found
<1> QED
    BY <1>7, <1>8, <1>9

\* An opened block of the walk over runs.
LEMMA OpenExtends ==
    ASSUME scan \in Scans, block \in Nat, scan' = scan, block' = block + 1, ~Direct,
           block <= LastBlock, scan.start \div Block <= block, RunsInv, reported' = reported,
           run_start' = IF run_start = NoRun THEN From(block) ELSE run_start
    PROVE  RunsInv'
<1> DEFINE low == block * Block
           high == (block + 1) * Block
           M == Matching(From(block), To(block))
<1>1. /\ low \in Int /\ high \in Int /\ low < high /\ low < scan.end /\ scan.start < scan.end
      /\ scan.start \in Nat /\ scan.end \in Nat
    <2>1. scan.start \in Nat /\ scan.end \in Nat
        BY ScanFacts
    <2>2. low < scan.end /\ scan.start < scan.end
        BY EverythingSettled
    <2>3. low \in Int /\ high = low + Block /\ Block \in Nat \ {0}
        BY Multiples, ScanAssumption
    <2> HIDE DEF low, high
    <2> QED
        BY <2>1, <2>2, <2>3
<1>2. scan.start < high
    <2> DEFINE c == scan.start \div Block
    <2>1. c \in Nat /\ scan.start < (c + 1) * Block /\ c <= block
        BY <1>1, BlockOf
    <2> HIDE DEF c
    <2>2. (c + 1) * Block <= (block + 1) * Block /\ (c + 1) * Block \in Int
        BY <2>1, BlocksAscend, Multiples
    <2> QED
        BY <1>1, <2>1, <2>2
<1>3. From(block) = (IF low <= scan.start THEN scan.start ELSE low)
    BY OpenFacts
<1>4. block' * Block = high /\ Settled(block)' = Settled(block) \union M
    <2>1. Settled(block)' = Settled(block')
        BY ScanStays
    <2> QED
        BY <2>1, OpenSettles
<1>5. \A p \in M : p \in Int /\ low <= p /\ From(block) <= p
    <2>1. From(block) \in Int /\ To(block) \in Int /\ low <= From(block)
        BY <1>1, <1>3, OpenFacts, Multiples
    <2>2. \A p \in M : p \in Int /\ From(block) <= p
        BY <2>1 DEF Matching
    <2> HIDE DEF M, low
    <2> QED
        BY <1>1, <2>1, <2>2
<1> HIDE DEF M
<1>6. /\ reported \in Seq(Int \X Int) /\ run_start \in Int /\ RunsAreSound
      /\ run_start # NoRun => scan.start <= run_start /\ run_start < scan.end /\ run_start < low
      /\ reported # <<>> =>
            reported[Len(reported)][2] < IF run_start = NoRun THEN low ELSE run_start
      /\ scan.stop => reported = <<>>
      /\ \A p \in Settled(block) : InRun(p) \/ (run_start # NoRun /\ run_start <= p)
    BY DEF RunsInv
<1> HIDE DEF low, high
<1>7. RunsAreSound' /\ \A p : InRun(p)' <=> InRun(p)
    BY <1>6 DEF RunsAreSound, InRun
<1>8. /\ run_start' \in Int /\ run_start' # NoRun
      /\ scan.start <= run_start' /\ run_start' < scan.end /\ run_start' < high
    BY <1>1, <1>2, <1>3, <1>6 DEF NoRun
<1>9. reported # <<>> => reported[Len(reported)][2] < run_start'
    <2> SUFFICES ASSUME reported # <<>> PROVE reported[Len(reported)][2] < run_start'
        OBVIOUS
    <2>1. reported[Len(reported)][2] \in Int
        BY <1>6
    <2> QED
        BY <1>1, <1>3, <1>6, <2>1
<1>10. \A p \in Settled(block) : InRun(p) \/ run_start' <= p
    BY <1>6
<1>11. \A p \in M : run_start' <= p
    BY <1>1, <1>5, <1>6
<1>12. \A p \in Settled(block)' : InRun(p)' \/ (run_start' # NoRun /\ run_start' <= p)
    BY <1>4, <1>7, <1>8, <1>10, <1>11
<1> QED
    BY <1>4, <1>6, <1>7, <1>8, <1>9, <1>12 DEF RunsInv

LEMMA OpenStep == ScanInv /\ OpenBlock => ScanInv'
<1> SUFFICES ASSUME ScanInv, OpenBlock PROVE ScanInv'
    OBVIOUS
<1>1. /\ scan \in Scans /\ scan' = scan /\ block \in Nat /\ pc = "walk" /\ block <= LastBlock
      /\ ~Direct /\ scan.start \div Block <= block /\ SettledInv /\ block' = block + 1
    BY DEF ScanInv, OpenBlock, Walking
<1>2. Settled(block)' = Settled(block') /\ ~Direct' /\ Expected' = Expected
    BY <1>1, ScanStays
<1>3. block' \in Nat /\ scan'.start \div Block <= block'
    <2>1. scan.start \div Block \in Nat
        BY <1>1, ScanFacts, ScanAssumption
    <2> QED
        BY <1>1, <2>1
<1>4. CASE scan.walk = "matches"
    <2>1. ReportMatches(From(block), To(block), "walk") /\ run_start' = run_start
        BY <1>4 DEF OpenBlock
    <2>2. \/ /\ pc' = "done" /\ scan.stop /\ Expected # {} /\ reported' = <<Min(Expected)>>
          \/ /\ pc' = "walk"
             /\ IF scan.stop THEN reported' = <<>> /\ Settled(block') = {}
                ELSE reported' = Ascending(Settled(block'))
        BY <1>1, <1>4, <2>1, OpenReports
    <2>3. run_start = NoRun
        BY <1>1, <1>4 DEF SettledInv
    <2>4. CASE pc' = "done"
        BY <1>1, <1>2, <1>3, <1>4, <2>2, <2>4 DEF ScanInv, ScanIsExact, RunsCoverMatches
    <2>5. CASE pc' = "walk"
        <3>1. SettledInv'
            BY <1>1, <1>2, <1>4, <2>1, <2>2, <2>3, <2>5 DEF SettledInv
        <3> QED
            BY <1>1, <1>2, <1>3, <2>5, <3>1 DEF ScanInv, ScanIsExact, RunsCoverMatches
    <2> QED
        BY <2>2, <2>4, <2>5
<1>5. CASE scan.walk = "count"
    <2> DEFINE M == Matching(From(block), To(block))
    <2>1. count' = count + Cardinality(M) /\ pc' = "walk" /\ run_start' = run_start
        BY <1>5 DEF OpenBlock, AddMatches
    <2>2. /\ M \in SUBSET Int /\ IsFiniteSet(M) /\ Settled(block') = Settled(block) \union M
          /\ \A p \in Settled(block), q \in M : p < q
        BY <1>1, OpenSettles
    <2> HIDE DEF M
    <2>3. Cardinality(Settled(block) \union M) = Cardinality(Settled(block)) + Cardinality(M)
        BY <1>1, <2>2, ExpectedFacts, AscendingJoins
    <2>4. SettledInv'
        BY <1>1, <1>2, <1>5, <2>1, <2>2, <2>3 DEF SettledInv
    <2> QED
        BY <1>1, <1>2, <1>3, <2>1, <2>4 DEF ScanInv, ScanIsExact, RunsCoverMatches
<1>6. CASE scan.walk = "runs"
    <2>1. /\ reported' = reported /\ pc' = pc
          /\ run_start' = IF run_start = NoRun THEN From(block) ELSE run_start
        BY <1>6 DEF OpenBlock
    <2>2. RunsInv
        BY <1>1, <1>6 DEF SettledInv
    <2>3. RunsInv'
        BY <1>1, <2>1, <2>2, OpenExtends
    <2>4. SettledInv'
        BY <1>1, <1>6, <2>3 DEF SettledInv
    <2> QED
        BY <1>1, <1>2, <1>3, <2>1, <2>4 DEF ScanInv, ScanIsExact, RunsCoverMatches
<1> QED
    BY <1>1, <1>4, <1>5, <1>6, ScanFacts DEF Walks

LEMMA EndStep == ScanInv /\ EndWalk => ScanInv'
<1> SUFFICES ASSUME ScanInv, EndWalk PROVE ScanInv'
    OBVIOUS
<1>1. /\ scan \in Scans /\ scan' = scan /\ block \in Nat /\ pc = "walk" /\ block > LastBlock
      /\ ~Direct /\ SettledInv /\ block' = block /\ count' = count
      /\ CloseRun(scan.end, "done")
    BY DEF ScanInv, EndWalk
<1>2. Settled(block) = Expected /\ scan.end <= block * Block
    BY <1>1, EverythingSettled
<1>3. Expected' = Expected /\ pc' = "done"
    BY <1>1, ScanStays DEF CloseRun
<1>4. CASE scan.walk # "runs"
    <2>1. reported' = reported
        BY <1>1, <1>4 DEF CloseRun, SettledInv
    <2>2. ScanIsExact'
        <3>1. Expected = {} => Ascending(Expected) = <<>>
            BY NoRows
        <3> QED
            BY <1>1, <1>2, <1>3, <1>4, <2>1, <3>1 DEF SettledInv, ScanIsExact
    <2> QED
        BY <1>1, <1>3, <1>4, <2>2 DEF ScanInv, RunsCoverMatches
<1>5. CASE scan.walk = "runs"
    <2>1. RunsInv
        BY <1>1, <1>5 DEF SettledInv
    <2>2. \A p \in Expected : p \in Int /\ p < scan.end
        BY <1>1, ExpectedFacts
    <2>3. RunsAreSound' /\ \A p \in Expected : InRun(p)'
        <3>1. CASE run_start = NoRun
            <4>1. reported' = reported
                BY <1>1, <3>1 DEF CloseRun
            <4>2. \A p : InRun(p)' <=> InRun(p)
                BY <4>1 DEF InRun
            <4> QED
                BY <1>1, <1>2, <2>1, <3>1, <4>1, <4>2 DEF RunsInv, RunsAreSound
        <3>2. CASE run_start # NoRun
            <4>1. reported' = Append(reported, <<run_start, scan.end>>)
                BY <1>1, <3>2 DEF CloseRun
            <4>2. run_start < scan.end /\ scan.end \in Int /\ scan.end <= scan.end
                BY <1>1, <2>1, <3>2, ScanFacts DEF RunsInv
            <4>3. scan \in Scans /\ scan' = scan
                BY <1>1
            <4>4. RunsAreSound' /\ \A p \in Settled(block) : p < scan.end => InRun(p)'
                BY <2>1, <3>2, <4>1, <4>2, <4>3, RunCloses, Zenon
            <4> QED
                BY <1>2, <2>2, <4>4
        <3> QED
            BY <3>1, <3>2
    <2>4. RunsCoverMatches'
        BY <1>1, <1>3, <2>3 DEF RunsCoverMatches, RunsAreSound, InRun
    <2> QED
        BY <1>1, <1>3, <1>5, <2>4 DEF ScanInv, ScanIsExact
<1> QED
    BY <1>4, <1>5

LEMMA ScanInit == Init => ScanInv
<1> QED
    BY DEF Init, ScanInv, ScanIsExact, RunsCoverMatches

LEMMA ScanNext == ScanInv /\ [Next]_vars => ScanInv'
<1> SUFFICES ASSUME ScanInv, UNCHANGED vars PROVE ScanInv'
    BY DirectStep, EnterStep, SkipStep, OpenStep, EndStep DEF Next
<1>1. /\ scan' = scan /\ block' = block /\ run_start' = run_start /\ reported' = reported
      /\ count' = count /\ pc' = pc
    BY DEF vars
<1>2. Expected' = Expected /\ Direct' = Direct /\ Settled(block)' = Settled(block)
    BY <1>1 DEF Expected, Direct, Settled
<1>3. RunsInv => RunsInv'
    BY <1>1, <1>2 DEF RunsInv, RunsAreSound, InRun
<1>4. SettledInv => SettledInv'
    BY <1>1, <1>2, <1>3 DEF SettledInv
<1> QED
    BY <1>1, <1>2, <1>4 DEF ScanInv, ScanIsExact, RunsCoverMatches

THEOREM ScanInvariant == Spec => []ScanInv
<1> QED
    BY ScanInit, ScanNext, PTL DEF Spec

\* Whatever the summaries let it pass over, a walk reports every matching row of
\* its window once and in ascending order, or the first of them if one is
\* enough, and the counting walk counts them: for all columns, windows and sizes.
THEOREM ScanIsExactTheorem == Spec => []ScanIsExact
<1>1. ScanInv => ScanIsExact
    BY DEF ScanInv
<1> QED
    BY <1>1, ScanInvariant, PTL

\* The runs of opened blocks are nonempty, apart and inside the window, and
\* every matching row is in one of them, or behind the one the caller stopped at.
THEOREM RunsCoverMatchesTheorem == Spec => []RunsCoverMatches
<1>1. ScanInv => RunsCoverMatches
    BY DEF ScanInv
<1> QED
    BY <1>1, ScanInvariant, PTL
=============================================================================
