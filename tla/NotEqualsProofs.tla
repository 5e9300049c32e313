-------------------------- MODULE NotEqualsProofs --------------------------
(***************************************************************************)
(* Five facts about the all-!= join, for sides of any length and any split *)
(* into values and nulls.  What validate_partition accepts is a partition; *)
(* the merge of the two maps misses no row (WalkInv); the pairs put out    *)
(* are those that were counted beforehand from the values (CapacityInv);   *)
(* they come in left order, none of them twice (OrderInv); and every entry *)
(* point answers as RangeJoin promises (AnswerInv).                        *)
(***************************************************************************)
EXTENDS NotEquals, FiniteSetTheorems, WellFoundedInduction, TLAPS

Sides == {call.left, call.right}

LEMMA CallFields ==
    ASSUME call \in Calls
    PROVE  /\ call.left \in Side /\ call.right \in Side
           /\ Ascends(call.left.positions) /\ Ascends(call.left.nulls)
<1> QED
    BY NotEqualsAssumption DEF IsCall, Call

-----------------------------------------------------------------------------
\* A list of the right length, in range and without repetition, is complete.

LEMMA ListedIsConcatenation ==
    ASSUME NEW side \in Side
    PROVE  /\ side.len \in Nat /\ side.positions \in Seq(Int) /\ side.nulls \in Seq(Int)
           /\ Listed(side) \in Seq(Int)
           /\ Len(Listed(side)) = Len(side.positions) + Len(side.nulls)
           /\ \A m \in 1 .. Len(side.positions) : Listed(side)[m] = side.positions[m]
           /\ \A m \in 1 .. Len(side.nulls) :
                Listed(side)[Len(side.positions) + m] = side.nulls[m]
<1>1. side.len \in Nat /\ side.positions \in Seq(Int) /\ side.nulls \in Seq(Int)
    BY DEF Side
<1> DEFINE positions == side.positions
           nulls == side.nulls
<1>2. positions \in Seq(Int) /\ nulls \in Seq(Int) /\ Listed(side) = positions \o nulls
    BY <1>1 DEF Listed
<1> HIDE DEF positions, nulls
<1>3. /\ positions \o nulls \in Seq(Int)
      /\ Len(positions \o nulls) = Len(positions) + Len(nulls)
    BY <1>2
<1>4. \A m \in 1 .. Len(positions) : (positions \o nulls)[m] = positions[m]
    BY <1>2
<1>5. \A m \in 1 .. Len(nulls) : (positions \o nulls)[Len(positions) + m] = nulls[m]
    BY <1>2
<1> QED
    BY <1>1, <1>2, <1>3, <1>4, <1>5 DEF positions, nulls

LEMMA PartitionNamesEveryRow ==
    ASSUME NEW side \in Side, IsPartition(side), NEW i \in RowsOf(side)
    PROVE  \E n \in DOMAIN Listed(side) : \A m \in DOMAIN Listed(side) :
                Listed(side)[m] = i <=> m = n
<1> DEFINE listed == Listed(side)
           places == 1 .. side.len
<1>1. side.len \in Nat /\ listed \in Seq(Int) /\ Len(listed) = side.len
    BY ListedIsConcatenation DEF IsPartition, Complete
<1>2. \A n \in DOMAIN listed : listed[n] \in RowsOf(side)
    BY DEF IsPartition
<1>3. \A m, n \in DOMAIN listed : listed[m] = listed[n] => m = n
    BY DEF IsPartition, Distinct
<1> HIDE DEF listed
<1>4. DOMAIN listed = places /\ listed \in [places -> RowsOf(side)]
    BY <1>1, <1>2
<1>5. listed \in Injection(places, RowsOf(side))
    BY <1>3, <1>4 DEF Injection, IsInjective
<1>6. /\ IsFiniteSet(RowsOf(side)) /\ Cardinality(RowsOf(side)) = side.len
      /\ IsFiniteSet(places) /\ Cardinality(places) = side.len
    <2> DEFINE len == side.len
    <2>1. len \in Nat /\ len > 0
        BY <1>1 DEF IsPartition
    <2> HIDE DEF len
    <2>2. IsFiniteSet(0 .. len - 1) /\ Cardinality(0 .. len - 1) = len
        BY <2>1, 0 \in Int, len - 1 \in Int, FS_Interval
    <2>3. IsFiniteSet(1 .. len) /\ Cardinality(1 .. len) = len
        BY <2>1, 1 \in Int, FS_Interval
    <2> QED
        BY <2>2, <2>3 DEF RowsOf, len
<1>7. listed \in Surjection(places, RowsOf(side))
    BY <1>5, <1>6, FS_Injection
<1>8. PICK k \in places : listed[k] = i
    BY <1>7 DEF Surjection
<1>9. \E n \in DOMAIN listed : \A m \in DOMAIN listed : listed[m] = i <=> m = n
    BY <1>3, <1>4, <1>8
<1> QED
    BY <1>9 DEF listed

Accepts == pc \notin {"validate", "error"} => IsPartition(call.left) /\ IsPartition(call.right)

\* Validation comes first, and the arguments stay.
AcceptInv == call \in Calls /\ Accepts

LEMMA AcceptInit == Init => AcceptInv
<1> QED
    BY DEF Init, AcceptInv, Accepts

LEMMA AcceptNext == AcceptInv /\ [Next]_vars => AcceptInv'
<1> SUFFICES ASSUME AcceptInv, [Next]_vars
             PROVE  AcceptInv'
    OBVIOUS
<1> USE DEF AcceptInv, Accepts
<1>1. CASE Refuse
    BY <1>1 DEF Refuse
<1>2. CASE Validate
    BY <1>2 DEF Validate
<1>3. CASE WalkNext
    BY <1>3 DEF WalkNext, CountRow, EndCount, EmitRow, EndEmit, ChooseRow, EndChoose
<1>4. CASE SelectValue \/ SelectNulls
    BY <1>4 DEF SelectValue, SelectNulls
<1>5. CASE UNCHANGED vars
    BY <1>5 DEF vars
<1> QED
    BY <1>1, <1>2, <1>3, <1>4, <1>5 DEF Next

LEMMA AcceptedIsChecked == AcceptInv => PartitionsAreChecked
<1> SUFFICES ASSUME AcceptInv, pc \notin {"validate", "error"},
                    NEW side \in {call.left, call.right}, NEW i \in RowsOf(side)
             PROVE  \E n \in DOMAIN Listed(side) : \A m \in DOMAIN Listed(side) :
                        Listed(side)[m] = i <=> m = n
    BY DEF PartitionsAreChecked
<1>1. side \in Side /\ IsPartition(side)
    BY CallFields DEF AcceptInv, Accepts
<1> QED
    BY <1>1, PartitionNamesEveryRow

\* What passes validation names every row of either side exactly once: counting,
\* range and repetition checks together imply that no row is missing.
THEOREM PartitionsAreCheckedTheorem == Spec => []PartitionsAreChecked
<1>1. Spec => []AcceptInv
    BY AcceptInit, AcceptNext, PTL DEF Spec
<1> QED
    BY <1>1, AcceptedIsChecked, PTL

-----------------------------------------------------------------------------
\* The merge walk.

\* The entries up to the offset name rows before r, the others do not.
Splits(map, offset, r) ==
    /\ offset \in 0 .. Len(map)
    /\ \A m \in DOMAIN map : m <= offset <=> map[m] < r

\* Both maps are split at the row, and between them name the rows before it.
Merged ==
    /\ row \in Nat
    /\ Splits(call.left.positions, left_non_null_offset, row)
    /\ Splits(call.left.nulls, left_null_offset, row)
    /\ left_non_null_offset + left_null_offset = row

Walking == {"count", "emit", "choose"}

WalkInv ==
    /\ pc = "validate" => row = 0 /\ left_non_null_offset = 0 /\ left_null_offset = 0
    /\ pc \in Walking => Merged

LEMMA WalkInit == Init => WalkInv
<1> QED
    BY DEF Init, WalkInv, Walking

\* Standing at its beginning, a map of rows splits before the first row.
LEMMA BeginningSplits ==
    ASSUME NEW map \in Seq(Int), \A m \in DOMAIN map : map[m] >= 0
    PROVE  Splits(map, 0, 0)
<1> QED
    BY DEF Splits

\* What either map names is listed, and what is listed one of them names.
LEMMA MapsAreListed ==
    ASSUME NEW side \in Side
    PROVE  /\ \A m \in DOMAIN side.positions :
                \E n \in DOMAIN Listed(side) : Listed(side)[n] = side.positions[m]
           /\ \A m \in DOMAIN side.nulls :
                \E n \in DOMAIN Listed(side) : Listed(side)[n] = side.nulls[m]
           /\ \A n \in DOMAIN Listed(side) :
                \/ \E m \in DOMAIN side.positions : side.positions[m] = Listed(side)[n]
                \/ \E m \in DOMAIN side.nulls : side.nulls[m] = Listed(side)[n]
<1> DEFINE listed == Listed(side)
           p == Len(side.positions)
           z == Len(side.nulls)
<1>0. /\ side.positions \in Seq(Int) /\ side.nulls \in Seq(Int)
      /\ listed \in Seq(Int) /\ Len(listed) = p + z
      /\ \A m \in 1 .. p : listed[m] = side.positions[m]
      /\ \A m \in 1 .. z : listed[p + m] = side.nulls[m]
    BY ListedIsConcatenation, Zenon
<1>1. /\ p \in Nat /\ z \in Nat
      /\ DOMAIN side.positions = 1 .. p /\ DOMAIN side.nulls = 1 .. z
      /\ listed \in Seq(Int) /\ Len(listed) = p + z
      /\ \A m \in 1 .. p : listed[m] = side.positions[m]
      /\ \A m \in 1 .. z : listed[p + m] = side.nulls[m]
    <2> DEFINE positions == side.positions
               nulls == side.nulls
    <2>1. positions \in Seq(Int) /\ nulls \in Seq(Int)
        BY <1>0
    <2> HIDE DEF positions, nulls, p, z, listed
    <2>2. /\ Len(positions) \in Nat /\ DOMAIN positions = 1 .. Len(positions)
          /\ Len(nulls) \in Nat /\ DOMAIN nulls = 1 .. Len(nulls)
        BY <2>1
    <2>3. /\ p \in Nat /\ z \in Nat
          /\ DOMAIN side.positions = 1 .. p /\ DOMAIN side.nulls = 1 .. z
        BY <2>2 DEF positions, nulls, p, z
    <2> QED
        BY <1>0, <2>3, Zenon
<1> HIDE DEF listed, p, z
<1>2. DOMAIN listed = 1 .. p + z
    BY <1>1
<1>3. ASSUME NEW m \in 1 .. p
      PROVE  m \in DOMAIN listed
    BY <1>1, <1>2
<1>4. ASSUME NEW m \in 1 .. z
      PROVE  p + m \in DOMAIN listed
    BY <1>1, <1>2
<1>5. ASSUME NEW n \in DOMAIN listed, ~(n \in 1 .. p)
      PROVE  n - p \in 1 .. z /\ p + (n - p) = n
    BY <1>1, <1>2, <1>5
<1>6. /\ \A m \in 1 .. p : \E n \in DOMAIN listed : listed[n] = side.positions[m]
      /\ \A m \in 1 .. z : \E n \in DOMAIN listed : listed[n] = side.nulls[m]
    BY <1>1, <1>3, <1>4
<1>7. ASSUME NEW n \in DOMAIN listed
      PROVE  \/ \E m \in 1 .. p : side.positions[m] = listed[n]
             \/ \E m \in 1 .. z : side.nulls[m] = listed[n]
    <2>1. CASE n \in 1 .. p
        BY <1>1, <2>1
    <2>2. CASE ~(n \in 1 .. p)
        BY <1>1, <1>5, <2>2
    <2> QED
        BY <2>1, <2>2
<1> QED
    BY <1>1, <1>6, <1>7 DEF listed

LEMMA MapsOfRows ==
    ASSUME NEW side \in Side, IsPartition(side)
    PROVE  /\ \A m \in DOMAIN side.positions : side.positions[m] >= 0
           /\ \A m \in DOMAIN side.nulls : side.nulls[m] >= 0
<1>1. \A n \in DOMAIN Listed(side) : Listed(side)[n] >= 0
    BY DEF IsPartition, RowsOf
<1> QED
    BY <1>1, MapsAreListed

\* In an ascending map that names the row, the row is the next.
LEMMA NextOfMap ==
    ASSUME NEW map \in Seq(Int), Ascends(map), NEW offset, NEW r \in Nat,
           Splits(map, offset, r), NEW k \in DOMAIN map, map[k] = r
    PROVE  offset \in Nat /\ offset < Len(map) /\ map[offset + 1] = r
<1>1. offset \in 0 .. Len(map) /\ Len(map) \in Nat /\ DOMAIN map = 1 .. Len(map)
    BY DEF Splits
<1>2. ~(k <= offset)
    BY DEF Splits
<1>3. offset + 1 \in DOMAIN map /\ offset + 1 <= k /\ k \in Nat
    BY <1>1, <1>2
<1>4. map[offset + 1] <= r /\ map[offset + 1] \in Int
    BY <1>3 DEF Ascends
<1>5. ~(map[offset + 1] < r)
    BY <1>1, <1>3 DEF Splits
<1> QED
    BY <1>1, <1>3, <1>4, <1>5

\* A map that has the row next passes it; one that does not name it stays.
LEMMA MapAdvances ==
    ASSUME NEW map \in Seq(Int), NEW offset, NEW r \in Nat, Splits(map, offset, r),
           \A m, n \in DOMAIN map : map[m] = map[n] => m = n,
           offset < Len(map), map[offset + 1] = r
    PROVE  Splits(map, offset + 1, r + 1)
<1>1. offset \in 0 .. Len(map) /\ Len(map) \in Nat /\ DOMAIN map = 1 .. Len(map)
    BY DEF Splits
<1>2. ASSUME NEW m \in DOMAIN map
      PROVE  m <= offset + 1 <=> map[m] < r + 1
    <2>1. m \in Nat /\ map[m] \in Int /\ (m <= offset <=> map[m] < r)
        BY <1>1 DEF Splits
    <2>2. map[m] = r <=> m = offset + 1
        BY <1>1
    <2> QED
        BY <1>1, <2>1, <2>2
<1> QED
    BY <1>1, <1>2 DEF Splits

LEMMA MapStays ==
    ASSUME NEW map \in Seq(Int), NEW offset, NEW r \in Nat, Splits(map, offset, r),
           \A m \in DOMAIN map : map[m] # r
    PROVE  Splits(map, offset, r + 1)
<1>1. ASSUME NEW m \in DOMAIN map
      PROVE  map[m] < r <=> map[m] < r + 1
    <2>1. map[m] \in Int /\ map[m] # r
        OBVIOUS
    <2> QED
        BY <2>1
<1> QED
    BY <1>1 DEF Splits

\* No row is named twice, by one map or by both.
LEMMA MapsNameRowsOnce ==
    ASSUME NEW side \in Side, IsPartition(side)
    PROVE  /\ \A m, n \in DOMAIN side.positions : side.positions[m] = side.positions[n] => m = n
           /\ \A m, n \in DOMAIN side.nulls : side.nulls[m] = side.nulls[n] => m = n
           /\ \A m \in DOMAIN side.positions, n \in DOMAIN side.nulls :
                side.positions[m] # side.nulls[n]
<1> DEFINE listed == Listed(side)
           positions == side.positions
           nulls == side.nulls
           p == Len(positions)
<1>1. /\ positions \in Seq(Int) /\ nulls \in Seq(Int) /\ listed \in Seq(Int)
      /\ Len(listed) = Len(positions) + Len(nulls)
      /\ \A m \in 1 .. Len(positions) : listed[m] = positions[m]
      /\ \A m \in 1 .. Len(nulls) : listed[Len(positions) + m] = nulls[m]
    BY ListedIsConcatenation, Zenon
<1>2. \A m, n \in DOMAIN listed : listed[m] = listed[n] => m = n
    BY DEF IsPartition, Distinct
<1> HIDE DEF listed, positions, nulls
<1>3. p \in Nat /\ DOMAIN positions = 1 .. p /\ DOMAIN nulls = 1 .. Len(nulls)
    BY <1>1
<1>4. \A m \in DOMAIN positions : m \in DOMAIN listed /\ m <= p /\ m \in Nat
    BY <1>1, <1>3
<1>5. \A m \in DOMAIN nulls : p + m \in DOMAIN listed /\ p + m > p /\ m \in Nat
    BY <1>1, <1>3
<1>6. \A m, n \in DOMAIN positions : positions[m] = positions[n] => m = n
    BY <1>1, <1>2, <1>3, <1>4
<1>7. \A m, n \in DOMAIN nulls : nulls[m] = nulls[n] => m = n
    BY <1>1, <1>2, <1>3, <1>5
<1>8. \A m \in DOMAIN positions, n \in DOMAIN nulls : positions[m] # nulls[n]
    BY <1>1, <1>2, <1>3, <1>4, <1>5
<1> QED
    BY <1>6, <1>7, <1>8 DEF positions, nulls

\* The next row is the next of one of the maps, because both ascend and one of
\* them names it.
LEMMA RowIsNext ==
    ASSUME call.left \in Side, IsPartition(call.left),
           Ascends(call.left.positions), Ascends(call.left.nulls),
           Merged, row < call.left.len
    PROVE  AtNonNull \/ AtNull
<1> DEFINE side == call.left
<1>1. /\ row \in Nat /\ side.len \in Nat
      /\ side.positions \in Seq(Int) /\ side.nulls \in Seq(Int)
      /\ Splits(side.positions, left_non_null_offset, row)
      /\ Splits(side.nulls, left_null_offset, row)
    BY ListedIsConcatenation DEF Merged
<1>2. row \in RowsOf(side)
    BY <1>1 DEF RowsOf
<1>3. \E n \in DOMAIN Listed(side) : Listed(side)[n] = row
    BY <1>2, PartitionNamesEveryRow
<1>4. \/ \E m \in DOMAIN side.positions : side.positions[m] = row
      \/ \E m \in DOMAIN side.nulls : side.nulls[m] = row
    BY <1>3, MapsAreListed
<1>5. CASE \E m \in DOMAIN side.positions : side.positions[m] = row
    BY <1>1, <1>5, NextOfMap DEF AtNonNull
<1>6. CASE \E m \in DOMAIN side.nulls : side.nulls[m] = row
    BY <1>1, <1>6, NextOfMap DEF AtNull
<1> QED
    BY <1>4, <1>5, <1>6

\* A step of a walk keeps the merge: one map passes the row, the other stays.
LEMMA WalkRowMerges ==
    ASSUME call.left \in Side, IsPartition(call.left),
           Ascends(call.left.positions), Ascends(call.left.nulls),
           Merged, WalkRow, call' = call
    PROVE  Merged'
<1> DEFINE positions == call.left.positions
           nulls == call.left.nulls
<1>1. /\ row \in Nat /\ row < call.left.len
      /\ positions \in Seq(Int) /\ nulls \in Seq(Int)
      /\ Splits(positions, left_non_null_offset, row)
      /\ Splits(nulls, left_null_offset, row)
      /\ left_non_null_offset + left_null_offset = row
    BY ListedIsConcatenation DEF Merged, WalkRow
<1>2. left_non_null_offset \in Nat /\ left_null_offset \in Nat
    BY <1>1 DEF Splits
<1>3. row' = row + 1 /\ row' \in Nat
    BY <1>1 DEF WalkRow
<1>4. CASE AtNonNull
    <2>1. left_non_null_offset' = left_non_null_offset + 1 /\ left_null_offset' = left_null_offset
        BY <1>2, <1>4 DEF WalkRow, AtNull
    <2>2. left_non_null_offset < Len(positions) /\ positions[left_non_null_offset + 1] = row
        BY <1>4 DEF AtNonNull
    <2>3. \A m, n \in DOMAIN positions : positions[m] = positions[n] => m = n
        BY MapsNameRowsOnce
    <2>4. Splits(positions, left_non_null_offset + 1, row + 1)
        BY <1>1, <2>2, <2>3, MapAdvances
    <2>5. left_non_null_offset + 1 \in DOMAIN positions
        BY <1>1, <1>2, <2>2
    <2>6. \A m \in DOMAIN nulls : nulls[m] # row
        BY <2>2, <2>5, MapsNameRowsOnce
    <2>7. Splits(nulls, left_null_offset, row + 1)
        BY <1>1, <2>6, MapStays
    <2> QED
        BY <1>1, <1>2, <1>3, <2>1, <2>4, <2>7 DEF Merged
<1>5. CASE ~AtNonNull
    <2>1. AtNull
        BY <1>1, <1>5, RowIsNext
    <2>2. left_non_null_offset' = left_non_null_offset /\ left_null_offset' = left_null_offset + 1
        BY <1>2, <1>5, <2>1 DEF WalkRow
    <2>3. left_null_offset < Len(nulls) /\ nulls[left_null_offset + 1] = row
        BY <2>1 DEF AtNull
    <2>4. \A m, n \in DOMAIN nulls : nulls[m] = nulls[n] => m = n
        BY MapsNameRowsOnce
    <2>5. Splits(nulls, left_null_offset + 1, row + 1)
        BY <1>1, <2>3, <2>4, MapAdvances
    <2>6. \A m \in DOMAIN positions : positions[m] # row
        BY <1>1, <1>5, NextOfMap DEF AtNonNull
    <2>7. Splits(positions, left_non_null_offset, row + 1)
        BY <1>1, <2>6, MapStays
    <2> QED
        BY <1>1, <1>2, <1>3, <2>2, <2>5, <2>7 DEF Merged
<1> QED
    BY <1>4, <1>5

\* A walk starts merged: nothing is passed, and no row is before the first.
LEMMA WalkStarts ==
    ASSUME call.left \in Side, IsPartition(call.left), call' = call,
           row' = 0, left_non_null_offset' = 0, left_null_offset' = 0
    PROVE  Merged'
<1>1. /\ call.left.positions \in Seq(Int) /\ call.left.nulls \in Seq(Int)
      /\ \A m \in DOMAIN call.left.positions : call.left.positions[m] >= 0
      /\ \A m \in DOMAIN call.left.nulls : call.left.nulls[m] >= 0
    BY ListedIsConcatenation, MapsOfRows
<1>2. Splits(call.left.positions, 0, 0) /\ Splits(call.left.nulls, 0, 0)
    BY <1>1, BeginningSplits
<1> QED
    BY <1>2 DEF Merged

LEMMA WalkInvNext == AcceptInv /\ WalkInv /\ [Next]_vars => WalkInv'
<1> SUFFICES ASSUME AcceptInv, WalkInv, [Next]_vars
             PROVE  WalkInv'
    OBVIOUS
<1> USE DEF WalkInv, Walking
<1>1. call.left \in Side /\ Ascends(call.left.positions) /\ Ascends(call.left.nulls)
    BY CallFields DEF AcceptInv
<1>2. pc \notin {"validate", "error"} => IsPartition(call.left)
    BY DEF AcceptInv, Accepts
<1>3. CASE Refuse
    BY <1>3 DEF Refuse
<1>4. CASE Validate
    <2>1. /\ IsPartition(call.left) /\ call' = call /\ pc' # "validate"
          /\ row' = 0 /\ left_non_null_offset' = 0 /\ left_null_offset' = 0
        BY <1>4 DEF Validate, FirstPass, offsetVars
    <2> QED
        BY <1>1, <2>1, WalkStarts
<1>5. CASE CountRow \/ EmitRow \/ ChooseRow
    <2>1. /\ pc \in Walking /\ WalkRow /\ call' = call /\ pc' = pc
        BY <1>5 DEF CountRow, EmitRow, ChooseRow
    <2>2. Merged'
        BY <1>1, <1>2, <2>1, WalkRowMerges
    <2> QED
        BY <2>1, <2>2
<1>6. CASE EndCount
    <2>1. /\ pc = "count" /\ call' = call /\ pc' # "validate"
          /\ row' = 0 /\ left_non_null_offset' = 0 /\ left_null_offset' = 0
        BY <1>6 DEF EndCount, Rewind
    <2> QED
        BY <1>1, <1>2, <2>1, WalkStarts
<1>7. CASE EndEmit \/ EndChoose
    BY <1>7 DEF EndEmit, EndChoose
<1>8. CASE SelectValue \/ SelectNulls
    BY <1>8 DEF SelectValue, SelectNulls
<1>9. CASE UNCHANGED vars
    BY <1>9 DEF vars, offsetVars, Merged
<1> QED
    BY <1>3, <1>4, <1>5, <1>6, <1>7, <1>8, <1>9 DEF Next, WalkNext

\* The merge of the two maps meets every left row, in the counting walk, the
\* emitting one and the one that chooses, for every partition whose maps ascend:
\* the row is always the next of one of them.
THEOREM EveryRowIsWalkedTheorem == Spec => []EveryRowIsWalked
<1>1. WalkInv => EveryRowIsWalked
    BY DEF WalkInv, Merged, Walking, EveryRowIsWalked
<1> QED
    BY <1>1, AcceptInit, AcceptNext, WalkInit, WalkInvNext, PTL DEF Spec

-----------------------------------------------------------------------------
\* Numbers in order, and sums.

\* How many of the rows lie before p.
Rank(rows, p) == Cardinality({q \in rows : q < p})

\* A later row has a higher rank, and no rank exceeds the number of rows.
LEMMA RanksRise ==
    ASSUME NEW rows \in SUBSET Int, IsFiniteSet(rows), NEW p \in rows
    PROVE  /\ Rank(rows, p) \in 0 .. Cardinality(rows) - 1
           /\ \A q \in rows : p < q => Rank(rows, p) < Rank(rows, q)
<1> DEFINE before(q) == {x \in rows : x < q}
<1>1. \A q : before(q) \in SUBSET rows /\ IsFiniteSet(before(q)) /\ Cardinality(before(q)) \in Nat
    BY FS_Subset, FS_CardinalityType
<1>2. Cardinality(rows) \in Nat
    BY FS_CardinalityType
<1>3. p \notin before(p) /\ p \in Int
    OBVIOUS
<1>4. /\ IsFiniteSet(before(p) \union {p})
      /\ Cardinality(before(p) \union {p}) = Cardinality(before(p)) + 1
    <2> HIDE DEF before
    <2> QED
        BY <1>1, <1>3, FS_AddElement
<1>5. Cardinality(before(p)) + 1 <= Cardinality(rows)
    <2>1. before(p) \union {p} \in SUBSET rows
        OBVIOUS
    <2> HIDE DEF before
    <2> QED
        BY <1>4, <2>1, FS_Subset
<1>6. ASSUME NEW q \in rows, p < q
      PROVE  Cardinality(before(p)) < Cardinality(before(q))
    <2>1. ASSUME NEW x \in before(p) \union {p} PROVE x \in before(q)
        <3>1. x \in rows /\ x \in Int /\ p \in Int /\ q \in Int /\ (x < p \/ x = p)
            OBVIOUS
        <3> QED
            BY <1>6, <3>1
    <2>0. before(p) \union {p} \in SUBSET before(q)
        BY <2>1
    <2> HIDE DEF before
    <2>2. Cardinality(before(p) \union {p}) <= Cardinality(before(q))
        BY <1>1, <2>0, FS_Subset
    <2> QED
        BY <1>1, <1>4, <2>2
<1> QED
    BY <1>1, <1>2, <1>5, <1>6 DEF Rank

\* The ranks are all the numbers below the number of rows.
LEMMA EveryRankIsTaken ==
    ASSUME NEW rows \in SUBSET Int, IsFiniteSet(rows), NEW n \in 1 .. Cardinality(rows)
    PROVE  \E p \in rows : Rank(rows, p) = n - 1
<1> DEFINE size == Cardinality(rows)
           ranking == [p \in rows |-> Rank(rows, p) + 1]
<1>1. size \in Nat
    BY FS_CardinalityType
<1>2. \A p \in rows : Rank(rows, p) \in 0 .. size - 1
    BY RanksRise
<1>3. ASSUME NEW p \in rows, NEW q \in rows, Rank(rows, p) = Rank(rows, q)
      PROVE  p = q
    <2>1. p \in Int /\ q \in Int /\ Rank(rows, p) \in Int
        BY <1>1, <1>2
    <2>2. ~(p < q) /\ ~(q < p)
        BY <1>3, <2>1, RanksRise
    <2> QED
        BY <2>1, <2>2
<1>4. ranking \in [rows -> 1 .. size]
    BY <1>1, <1>2
<1>5. ranking \in Injection(rows, 1 .. size)
    <2>1. \A p, q \in rows : ranking[p] = ranking[q] => p = q
        BY <1>1, <1>2, <1>3
    <2> HIDE DEF ranking
    <2> QED
        BY <1>4, <2>1 DEF Injection, IsInjective
<1>6. IsFiniteSet(1 .. size) /\ Cardinality(1 .. size) = size
    <2> HIDE DEF size
    <2> QED
        BY <1>1, FS_Interval
<1>7. ranking \in Surjection(rows, 1 .. size)
    <2> HIDE DEF ranking
    <2> QED
        BY <1>5, <1>6, FS_Injection
<1>8. PICK p \in rows : ranking[p] = n
    <2> HIDE DEF ranking
    <2> QED
        BY <1>7 DEF Surjection
<1> QED
    BY <1>1, <1>2, <1>8

\* Ascending lists every row once, by rank.
LEMMA AscendingListsRows ==
    ASSUME NEW rows \in SUBSET Int, IsFiniteSet(rows)
    PROVE  /\ Cardinality(rows) \in Nat
           /\ Ascending(rows) \in Seq(Int) /\ Len(Ascending(rows)) = Cardinality(rows)
           /\ \A n \in 1 .. Cardinality(rows) :
                Ascending(rows)[n] \in rows /\ Rank(rows, Ascending(rows)[n]) = n - 1
           /\ \A p \in rows : /\ Rank(rows, p) + 1 \in 1 .. Cardinality(rows)
                              /\ Ascending(rows)[Rank(rows, p) + 1] = p
<1> DEFINE size == Cardinality(rows)
           list == Ascending(rows)
<1>1. size \in Nat
    BY FS_CardinalityType
<1>2. list = [n \in 1 .. size |-> CHOOSE p \in rows : Rank(rows, p) = n - 1]
    BY DEF Ascending, Rank
<1>3. ASSUME NEW n \in 1 .. size
      PROVE  list[n] \in rows /\ Rank(rows, list[n]) = n - 1
    <2>1. \E p \in rows : Rank(rows, p) = n - 1
        BY EveryRankIsTaken
    <2>2. list[n] = CHOOSE p \in rows : Rank(rows, p) = n - 1
        BY <1>2
    <2> QED
        BY <2>1, <2>2, Zenon
<1>4. list \in Seq(Int) /\ Len(list) = size
    <2>1. list \in [1 .. size -> Int]
        BY <1>2, <1>3
    <2> HIDE DEF list, size
    <2> QED
        BY <1>1, <2>1
<1>5. ASSUME NEW p \in rows
      PROVE  Rank(rows, p) + 1 \in 1 .. size /\ list[Rank(rows, p) + 1] = p
    <2> DEFINE n == Rank(rows, p) + 1
    <2>1. Rank(rows, p) \in 0 .. size - 1 /\ n \in 1 .. size /\ p \in Int
        BY <1>1, RanksRise
    <2>2. list[n] \in rows /\ Rank(rows, list[n]) = n - 1
        BY <1>3, <2>1
    <2>3. Rank(rows, list[n]) = Rank(rows, p) /\ list[n] \in Int /\ Rank(rows, p) \in Int
        <3>1. n - 1 = Rank(rows, p) /\ Rank(rows, p) \in Int
            BY <2>1
        <3> HIDE DEF n, list
        <3> QED
            BY <2>2, <3>1
    <2> HIDE DEF n, list
    <2>4. ~(list[n] < p) /\ ~(p < list[n])
        BY <2>2, <2>3, RanksRise
    <2>5. list[n] = p
        BY <2>1, <2>3, <2>4
    <2> QED
        BY <2>1, <2>5 DEF n
<1> QED
    BY <1>1, <1>3, <1>4, <1>5

\* A later entry of the list is a later row.
LEMMA AscendingAscends ==
    ASSUME NEW rows \in SUBSET Int, IsFiniteSet(rows),
           NEW m \in 1 .. Cardinality(rows), NEW n \in 1 .. Cardinality(rows), m < n
    PROVE  Ascending(rows)[m] < Ascending(rows)[n]
<1> DEFINE list == Ascending(rows)
<1>1. /\ Cardinality(rows) \in Nat
      /\ list[m] \in rows /\ list[n] \in rows
      /\ Rank(rows, list[m]) = m - 1 /\ Rank(rows, list[n]) = n - 1
    BY AscendingListsRows
<1>2. \A j \in rows : j \in Int
    OBVIOUS
<1> HIDE DEF list
<1>3. list[m] \in Int /\ list[n] \in Int /\ m \in Int /\ n \in Int
    <2>1. list[m] \in Int /\ list[n] \in Int
        BY <1>1, <1>2, Zenon
    <2> QED
        BY <1>1, <2>1
<1>4. list[n] < list[m] => Rank(rows, list[n]) < Rank(rows, list[m])
    BY <1>1, RanksRise
<1>5. list[n] # list[m]
    BY <1>1, <1>3
<1>6. list[m] < list[n]
    BY <1>1, <1>3, <1>4, <1>5
<1> QED
    BY <1>6 DEF list

\* Every nonempty set of naturals has a least element.
LEMMA LeastNatural ==
    ASSUME NEW S \in SUBSET Nat, S # {}
    PROVE  \E m \in S : \A k \in S : m <= k
<1>1. \E m \in S : \A k \in S : <<k, m>> \notin OpToRel(<, Nat)
    BY NatLessThanWellFounded, WFMin, Zenon
<1>2. \E m \in S : \A k \in S : ~(k < m)
    BY <1>1, Zenon DEF OpToRel
<1> HIDE <1>1
<1> QED
    BY <1>2

\* A column of naturals has running sums.
IsSum(f, N, c) ==
    /\ f \in [0 .. N -> Nat] /\ f[0] = 0
    /\ \A i \in 0 .. N - 1 : f[i + 1] = f[i] + c[i]

LEMMA SumExists ==
    ASSUME NEW N \in Nat, NEW c \in [0 .. N - 1 -> Nat]
    PROVE  \E f : IsSum(f, N, c)
<1> DEFINE missing == {n \in Nat : n <= N /\ ~\E f : IsSum(f, n, c)}
<1>1. \E f : IsSum(f, 0, c)
    <2>1. IsSum([n \in 0 .. 0 |-> 0], 0, c)
        BY DEF IsSum
    <2> QED
        BY <2>1
<1>2. ASSUME NEW n \in Nat, n # 0, n <= N, NEW f, IsSum(f, n - 1, c)
      PROVE  \E g : IsSum(g, n, c)
    <2> DEFINE k == n - 1
               g == [i \in 0 .. n |-> IF i = n THEN f[k] + c[k] ELSE f[i]]
    <2>1. k \in Nat /\ n = k + 1 /\ k \in 0 .. N - 1 /\ c[k] \in Nat
        BY <1>2
    <2>2. f \in [0 .. k -> Nat] /\ f[0] = 0 /\ \A i \in 0 .. k - 1 : f[i + 1] = f[i] + c[i]
        BY <1>2 DEF IsSum
    <2>3. f[k] \in Nat /\ \A i \in 0 .. n : i = n \/ i \in 0 .. k
        BY <2>1, <2>2
    <2>4. g \in [0 .. n -> Nat] /\ g[0] = 0
        BY <1>2, <2>1, <2>2, <2>3
    <2>5. ASSUME NEW i \in 0 .. n - 1
          PROVE  g[i + 1] = g[i] + c[i]
        <3>1. CASE i = k
            BY <2>1, <3>1
        <3>2. CASE i # k
            <4>1. i \in 0 .. k - 1 /\ i + 1 \in 0 .. n /\ i \in 0 .. n /\ i + 1 # n /\ i # n
                BY <2>1, <3>2
            <4> QED
                BY <2>2, <4>1
        <3> QED
            BY <3>1, <3>2
    <2>6. IsSum(g, n, c)
        BY <2>4, <2>5 DEF IsSum
    <2> QED
        BY <2>6
<1>3. missing = {}
    <2> SUFFICES ASSUME missing # {} PROVE FALSE
        OBVIOUS
    <2>1. PICK n \in missing : \A k \in missing : n <= k
        BY LeastNatural
    <2>2. n \in Nat /\ n <= N /\ ~(\E f : IsSum(f, n, c)) /\ n # 0
        BY <1>1, <2>1
    <2>3. n - 1 \in Nat /\ n - 1 <= N /\ ~(n <= n - 1)
        BY <2>2
    <2>4. PICK f : IsSum(f, n - 1, c)
        BY <2>1, <2>3
    <2> QED
        BY <1>2, <2>2, <2>4
<1>4. N \notin missing /\ N <= N
    <2> HIDE DEF missing
    <2> QED
        BY <1>3
<1> QED
    BY <1>4

\* The capacity of the values is their running sum.
LEMMA ValuesAddUp ==
    ASSUME call.left \in Side, \A v \in Int : PairsOfValue(v) \in Nat
    PROVE  /\ PairsOfValues \in [0 .. Len(call.left.values) -> Nat]
           /\ PairsOfValues[0] = 0
           /\ \A n \in 1 .. Len(call.left.values) :
                PairsOfValues[n] = PairsOfValues[n - 1] + PairsOfValue(call.left.values[n])
<1> DEFINE values == call.left.values
           N == Len(values)
           c == [i \in 0 .. N - 1 |-> PairsOfValue(values[i + 1])]
           Step(g) == [n \in 0 .. N |-> IF n = 0 THEN 0 ELSE g[n - 1] + PairsOfValue(values[n])]
<1>1. values \in Seq(Int) /\ N \in Nat /\ \A n \in 1 .. N : values[n] \in Int
    <2>1. values \in Seq(Int)
        BY DEF Side
    <2> HIDE DEF values
    <2> QED
        BY <2>1
<1> HIDE DEF N, values
<1>2. \A n \in 1 .. N : PairsOfValue(values[n]) \in Nat
    BY <1>1
<1>3. c \in [0 .. N - 1 -> Nat]
    <2>1. \A i \in 0 .. N - 1 : i + 1 \in 1 .. N
        BY <1>1
    <2> QED
        BY <1>2, <2>1
<1>4. PICK f : IsSum(f, N, c)
    BY <1>1, <1>3, SumExists
<1>5. f = Step(f)
    <2>1. /\ f \in [0 .. N -> Nat] /\ f[0] = 0
          /\ \A i \in 0 .. N - 1 : f[i + 1] = f[i] + PairsOfValue(values[i + 1])
        BY <1>4 DEF IsSum
    <2>2. \A n \in 0 .. N : n # 0 => f[n] = f[n - 1] + PairsOfValue(values[n])
        <3>1. \A n \in 0 .. N : n # 0 => n - 1 \in 0 .. N - 1 /\ (n - 1) + 1 = n
            BY <1>1
        <3> QED
            BY <2>1, <3>1
    <2> QED
        BY <2>1, <2>2
<1> DEFINE P == PairsOfValues
<1>6. P = CHOOSE g : g = Step(g)
    BY DEF PairsOfValues, N, values
<1>7. P = Step(P)
    <2> HIDE DEF Step, P
    <2> QED
        BY <1>5, <1>6
<1> HIDE DEF P
<1>8. DOMAIN P = 0 .. N /\ P[0] = 0
    BY <1>1, <1>7
<1>9. \A n \in 1 .. N : P[n] = P[n - 1] + PairsOfValue(values[n])
    <2>1. ASSUME NEW n \in 1 .. N PROVE Step(P)[n] = P[n - 1] + PairsOfValue(values[n])
        BY <1>1
    <2> HIDE DEF Step
    <2> QED
        BY <1>7, <2>1
<1> DEFINE wrong == {n \in Nat : n <= N /\ P[n] \notin Nat}
<1>10. wrong = {}
    <2> SUFFICES ASSUME wrong # {} PROVE FALSE
        OBVIOUS
    <2>1. PICK n \in wrong : \A k \in wrong : n <= k
        BY LeastNatural
    <2>2. n \in Nat /\ n <= N /\ P[n] \notin Nat /\ n # 0
        BY <1>8, <2>1
    <2>3. n - 1 \in Nat /\ n - 1 <= N /\ ~(n <= n - 1) /\ n \in 1 .. N
        BY <1>1, <2>2
    <2>4. P[n - 1] \in Nat
        BY <2>1, <2>3
    <2> QED
        BY <1>2, <1>9, <2>2, <2>3, <2>4
<1>11. P \in [0 .. N -> Nat]
    <2>1. \A n \in 0 .. N : P[n] \in Nat
        <3> SUFFICES ASSUME NEW n \in 0 .. N PROVE P[n] \in Nat
            OBVIOUS
        <3>1. n \in Nat /\ n <= N /\ n \notin wrong
            <4> HIDE DEF wrong
            <4> QED
                BY <1>1, <1>10
        <3> QED
            BY <3>1
    <2>2. P = [n \in 0 .. N |-> P[n]]
        BY <1>7
    <2> QED
        BY <2>1, <2>2
<1> QED
    BY <1>8, <1>9, <1>11 DEF P, N, values

-----------------------------------------------------------------------------
\* What a left row visits.

NoRepeats(s) == \A m, n \in DOMAIN s : s[m] = s[n] => m = n

LEMMA Appended ==
    ASSUME NEW S, NEW s \in Seq(S), NEW t \in Seq(S)
    PROVE  /\ s \o t \in Seq(S) /\ Len(s \o t) = Len(s) + Len(t)
           /\ \A n \in 1 .. Len(s) : (s \o t)[n] = s[n]
           /\ \A n \in 1 .. Len(s \o t) : ~(n <= Len(s)) => (s \o t)[n] = t[n - Len(s)]
    OBVIOUS

LEMMA Part ==
    ASSUME NEW s \in Seq(Int), NEW a \in Int, NEW b \in Int, 1 <= a, a <= b + 1, b <= Len(s)
    PROVE  /\ SubSeq(s, a, b) \in Seq(Int) /\ Len(SubSeq(s, a, b)) = b + 1 - a
           /\ \A n \in 1 .. b + 1 - a : SubSeq(s, a, b)[n] = s[n + (a - 1)]
    OBVIOUS

LEMMA EndsInside ==
    ASSUME call.right \in Side, NEW v \in Int
    PROVE  /\ LessEnd(v) \in Nat /\ GreaterStart(v) \in Nat
           /\ LessEnd(v) <= GreaterStart(v) /\ GreaterStart(v) <= Len(call.right.values)
<1> DEFINE values == call.right.values
           less == {n \in DOMAIN values : values[n] < v}
           upTo == {n \in DOMAIN values : values[n] <= v}
<1>1. values \in Seq(Int)
    BY DEF Side
<1> HIDE DEF values
<1>2. DOMAIN values = 1 .. Len(values) /\ Len(values) \in Nat /\ \A n \in DOMAIN values : values[n] \in Int
    BY <1>1
<1>3. IsFiniteSet(1 .. Len(values)) /\ Cardinality(1 .. Len(values)) = Len(values)
    BY <1>2, 1 \in Int, FS_Interval
<1>4. less \in SUBSET upTo /\ upTo \in SUBSET (1 .. Len(values))
    BY <1>2
<1> HIDE DEF less, upTo
<1>5. IsFiniteSet(upTo) /\ Cardinality(upTo) <= Len(values)
    BY <1>3, <1>4, FS_Subset
<1>6. IsFiniteSet(less) /\ Cardinality(less) <= Cardinality(upTo)
    BY <1>4, <1>5, FS_Subset
<1>7. Cardinality(less) \in Nat /\ Cardinality(upTo) \in Nat
    BY <1>5, <1>6, FS_CardinalityType
<1> QED
    BY <1>5, <1>6, <1>7 DEF LessEnd, GreaterStart, less, upTo, values

\* A value visits the rows listed on the right but for those between its two ends.
LEMMA ValueVisits ==
    ASSUME call.right \in Side, IsPartition(call.right), NEW v \in Int
    PROVE  /\ VisitsOfValue(v) \in Seq(Int)
           /\ Len(VisitsOfValue(v)) = PairsOfValue(v) /\ PairsOfValue(v) \in Nat
           /\ \A n \in DOMAIN VisitsOfValue(v) : VisitsOfValue(v)[n] \in RowsOf(call.right)
           /\ NoRepeats(VisitsOfValue(v))
<1> DEFINE positions == call.right.positions
           nulls == call.right.nulls
           listed == Listed(call.right)
           p == Len(positions)
           low == LessEnd(v)
           high == GreaterStart(v)
           rest == MatchingNulls
           near == Below(v) \o Above(v)
           all == VisitsOfValue(v)
           Place(n) == IF n <= low THEN n ELSE n + (high - low)
<1>1. /\ positions \in Seq(Int) /\ nulls \in Seq(Int) /\ listed \in Seq(Int)
      /\ Len(listed) = Len(positions) + Len(nulls)
      /\ \A m \in 1 .. Len(positions) : listed[m] = positions[m]
      /\ \A m \in 1 .. Len(nulls) : listed[Len(positions) + m] = nulls[m]
    BY ListedIsConcatenation, Zenon
<1>2. /\ \A m, n \in DOMAIN listed : listed[m] = listed[n] => m = n
      /\ \A n \in DOMAIN listed : listed[n] \in RowsOf(call.right)
      /\ Len(call.right.values) = p
    BY DEF IsPartition, Distinct
<1>3. low \in Nat /\ high \in Nat /\ low <= high /\ high <= p
    BY <1>2, EndsInside
<1>4. rest \in Seq(Int) /\ (rest = <<>> \/ rest = nulls)
    BY <1>1 DEF MatchingNulls
<1>5. /\ Below(v) = SubSeq(positions, 1, low)
      /\ Above(v) = SubSeq(positions, high + 1, p)
    BY DEF Below, Above
<1>6. all = near \o rest /\ PairsOfValue(v) = low + (p - high) + Len(rest)
    BY <1>2 DEF VisitsOfValue, PairsOfValue
<1> HIDE DEF positions, nulls, listed, low, high, rest
<1>7. p \in Nat /\ Len(nulls) \in Nat /\ Len(rest) \in Nat /\ Len(rest) <= Len(nulls)
    BY <1>1, <1>4
<1> HIDE DEF p
<1>8. /\ Below(v) \in Seq(Int) /\ Len(Below(v)) = low
      /\ \A n \in 1 .. low : Below(v)[n] = positions[n]
    <2>1. 1 <= low + 1 /\ low <= Len(positions) /\ low \in Int
        BY <1>3 DEF p
    <2>2. /\ SubSeq(positions, 1, low) \in Seq(Int)
          /\ Len(SubSeq(positions, 1, low)) = low + 1 - 1
          /\ \A n \in 1 .. low + 1 - 1 : SubSeq(positions, 1, low)[n] = positions[n + (1 - 1)]
        BY <1>1, <2>1, 1 \in Int, Part
    <2>3. low + 1 - 1 = low /\ \A n \in 1 .. low : n + (1 - 1) = n
        BY <1>3
    <2> QED
        BY <1>5, <2>2, <2>3
<1>9. /\ Above(v) \in Seq(Int) /\ Len(Above(v)) = p - high
      /\ \A n \in 1 .. p - high : Above(v)[n] = positions[n + high]
    <2> DEFINE a == high + 1
    <2>1. a \in Int /\ p \in Int /\ 1 <= a /\ a <= p + 1 /\ p <= Len(positions)
        BY <1>3, <1>7 DEF p
    <2>2. p + 1 - a = p - high /\ a - 1 = high
        BY <1>3, <1>7
    <2> HIDE DEF a
    <2>3. /\ SubSeq(positions, a, p) \in Seq(Int)
          /\ Len(SubSeq(positions, a, p)) = p + 1 - a
          /\ \A n \in 1 .. p + 1 - a : SubSeq(positions, a, p)[n] = positions[n + (a - 1)]
        BY <1>1, <2>1, Part
    <2> QED
        BY <1>5, <2>2, <2>3 DEF a
<1>10. /\ near \in Seq(Int) /\ Len(near) = low + (p - high)
       /\ \A n \in 1 .. low : near[n] = positions[n]
       /\ \A n \in 1 .. low + (p - high) : ~(n <= low) => near[n] = positions[n + (high - low)]
    <2> DEFINE s == Below(v)
               t == Above(v)
    <2>0. s \in Seq(Int) /\ t \in Seq(Int) /\ Len(s) = low /\ Len(t) = p - high
        BY <1>8, <1>9
    <2> HIDE DEF s, t
    <2>3. /\ s \o t \in Seq(Int) /\ Len(s \o t) = low + (p - high)
          /\ \A n \in 1 .. low : (s \o t)[n] = s[n]
          /\ \A n \in 1 .. low + (p - high) : ~(n <= low) => (s \o t)[n] = t[n - low]
        <3>1. /\ s \o t \in Seq(Int) /\ Len(s \o t) = Len(s) + Len(t)
              /\ \A n \in 1 .. Len(s) : (s \o t)[n] = s[n]
              /\ \A n \in 1 .. Len(s \o t) : ~(n <= Len(s)) => (s \o t)[n] = t[n - Len(s)]
            BY <2>0, Appended
        <3> QED
            BY <2>0, <3>1
    <2> HIDE DEF near
    <2>1. /\ near \in Seq(Int) /\ Len(near) = low + (p - high)
          /\ \A n \in 1 .. low : near[n] = Below(v)[n]
          /\ \A n \in 1 .. low + (p - high) : ~(n <= low) => near[n] = Above(v)[n - low]
        BY <2>3 DEF near, s, t
    <2>2. ASSUME NEW n \in 1 .. low + (p - high), ~(n <= low)
          PROVE  near[n] = positions[n + (high - low)]
        <3>1. n - low \in 1 .. p - high /\ (n - low) + high = n + (high - low)
            BY <1>3, <1>7, <2>2
        <3> QED
            BY <1>9, <2>1, <2>2, <3>1
    <2> QED
        BY <1>8, <2>1, <2>2
<1> HIDE DEF near
<1>11. /\ all \in Seq(Int) /\ Len(all) = low + (p - high) + Len(rest)
       /\ \A n \in 1 .. low + (p - high) : all[n] = near[n]
       /\ \A n \in 1 .. Len(all) : ~(n <= low + (p - high)) => all[n] = rest[n - (low + (p - high))]
    <2>1. near \in Seq(Int) /\ rest \in Seq(Int) /\ Len(near) = low + (p - high)
        BY <1>4, <1>10
    <2>2. /\ near \o rest \in Seq(Int) /\ Len(near \o rest) = Len(near) + Len(rest)
          /\ \A n \in 1 .. Len(near) : (near \o rest)[n] = near[n]
          /\ \A n \in 1 .. Len(near \o rest) :
                ~(n <= Len(near)) => (near \o rest)[n] = rest[n - Len(near)]
        BY <2>1, Appended
    <2>3. all = near \o rest
        BY <1>6
    <2> HIDE DEF all
    <2> QED
        BY <2>1, <2>2, <2>3
<1> HIDE DEF all
<1>12. ASSUME NEW n \in 1 .. Len(all)
       PROVE  Place(n) \in DOMAIN listed /\ all[n] = listed[Place(n)]
    <2>0. DOMAIN listed = 1 .. p + Len(nulls)
        BY <1>1 DEF p
    <2>1. CASE n <= low
        <3>1. n \in 1 .. low /\ n \in 1 .. low + (p - high) /\ n \in 1 .. p
            BY <1>3, <1>7, <2>1
        <3>2. all[n] = positions[n] /\ positions[n] = listed[n]
            BY <1>1, <1>10, <1>11, <3>1 DEF p
        <3> QED
            BY <1>7, <2>0, <2>1, <3>1, <3>2
    <2>2. CASE ~(n <= low) /\ n <= low + (p - high)
        <3>1. n \in 1 .. low + (p - high) /\ n + (high - low) \in 1 .. p
            BY <1>3, <1>7, <2>2
        <3>2. all[n] = positions[n + (high - low)]
            BY <1>10, <1>11, <2>2, <3>1
        <3>3. positions[n + (high - low)] = listed[n + (high - low)]
            BY <1>1, <3>1 DEF p
        <3> QED
            BY <1>7, <2>0, <2>2, <3>1, <3>2, <3>3
    <2>3. CASE ~(n <= low + (p - high))
        <3> DEFINE m == n - (low + (p - high))
        <3>1. /\ m \in 1 .. Len(rest) /\ m \in 1 .. Len(nulls) /\ ~(n <= low)
              /\ n + (high - low) = p + m
            BY <1>3, <1>7, <1>11, <2>3
        <3> HIDE DEF m
        <3>2. all[n] = rest[m] /\ rest = nulls
            <4>1. all[n] = rest[m]
                BY <1>11, <2>3 DEF m
            <4>2. Len(rest) # 0
                BY <1>7, <3>1
            <4> QED
                BY <1>4, <4>1, <4>2
        <3>3. nulls[m] = listed[p + m] /\ p + m \in 1 .. p + Len(nulls)
            BY <1>1, <1>7, <3>1 DEF p
        <3> QED
            BY <2>0, <3>1, <3>2, <3>3
    <2> QED
        BY <2>1, <2>2, <2>3
<1>13. ASSUME NEW m \in 1 .. Len(all), NEW n \in 1 .. Len(all), all[m] = all[n]
       PROVE  m = n
    <2>1. Place(m) = Place(n)
        <3> HIDE DEF Place
        <3> QED
            BY <1>2, <1>12, <1>13
    <2>2. m \in Nat /\ n \in Nat
        BY <1>11
    <2> QED
        BY <1>3, <2>1, <2>2
<1>14. DOMAIN all = 1 .. Len(all) /\ \A n \in 1 .. Len(all) : all[n] \in RowsOf(call.right)
    <2> HIDE DEF Place
    <2> QED
        BY <1>2, <1>11, <1>12
<1>15. low + (p - high) + Len(rest) \in Nat
    BY <1>3, <1>7
<1> QED
    BY <1>6, <1>11, <1>13, <1>14, <1>15 DEF all, NoRepeats

LEMMA NullVisits ==
    ASSUME call.right \in Side, IsPartition(call.right)
    PROVE  /\ VisitsOfNull \in Seq(Int)
           /\ Len(VisitsOfNull) = PairsOfNull /\ PairsOfNull \in Nat
           /\ \A n \in DOMAIN VisitsOfNull : VisitsOfNull[n] \in RowsOf(call.right)
           /\ NoRepeats(VisitsOfNull)
<1> DEFINE listed == Listed(call.right)
<1>1. /\ Listed(call.right) \in Seq(Int)
      /\ Len(Listed(call.right)) = Len(call.right.positions) + Len(call.right.nulls)
    BY ListedIsConcatenation, Zenon
<1>2. /\ \A n \in DOMAIN Listed(call.right) : Listed(call.right)[n] \in RowsOf(call.right)
      /\ NoRepeats(Listed(call.right))
      /\ Len(call.right.values) = Len(call.right.positions)
    BY DEF IsPartition, Distinct, NoRepeats
<1>3. CASE call.is_extension_array
    BY <1>3 DEF VisitsOfNull, PairsOfNull, NoRepeats
<1>4. CASE ~call.is_extension_array
    <2>1. VisitsOfNull = Listed(call.right)
        BY <1>4 DEF VisitsOfNull
    <2>2. PairsOfNull = Len(Listed(call.right))
        BY <1>1, <1>2, <1>4 DEF PairsOfNull, RightRows
    <2>3. VisitsOfNull = listed /\ listed \in Seq(Int) /\ PairsOfNull = Len(listed)
        BY <1>1, <2>1, <2>2
    <2>4. NoRepeats(listed) /\ \A n \in DOMAIN listed : listed[n] \in RowsOf(call.right)
        BY <1>2
    <2> HIDE DEF listed
    <2>5. Len(listed) \in Nat
        BY <2>3
    <2> QED
        BY <2>3, <2>4, <2>5, Zenon
<1> QED
    BY <1>3, <1>4

\* The entries at some places of a list, in their order.
LEMMA PlacesOfList ==
    ASSUME NEW s \in Seq(Int), NoRepeats(s), NEW K \in SUBSET DOMAIN s
    PROVE  LET places == Ascending(K)
               f == [n \in DOMAIN places |-> s[places[n]]]
           IN  /\ f \in Seq(Int) /\ NoRepeats(f) /\ Len(f) = Cardinality(K)
               /\ Cardinality(K) \in Nat /\ (K = DOMAIN s => Cardinality(K) = Len(s))
<1> DEFINE places == Ascending(K)
           f == [n \in DOMAIN places |-> s[places[n]]]
           size == Cardinality(K)
<1>1. DOMAIN s = 1 .. Len(s) /\ Len(s) \in Nat /\ \A n \in DOMAIN s : s[n] \in Int /\ n \in Int
    OBVIOUS
<1>2. IsFiniteSet(1 .. Len(s)) /\ Cardinality(1 .. Len(s)) = Len(s)
    <2> DEFINE last == Len(s)
    <2>1. last \in Nat
        BY <1>1
    <2> HIDE DEF last
    <2>2. IsFiniteSet(1 .. last) /\ Cardinality(1 .. last) = last
        BY <2>1, 1 \in Int, FS_Interval
    <2> QED
        BY <2>2 DEF last
<1>3. K \in SUBSET Int /\ IsFiniteSet(K)
    BY <1>1, <1>2, FS_Subset
<1>4. size \in Nat /\ places \in Seq(Int) /\ Len(places) = size /\ \A n \in 1 .. size : places[n] \in K
    BY <1>3, AscendingListsRows
<1>5. \A m, n \in 1 .. size : m < n => places[m] < places[n]
    BY <1>3, AscendingAscends
<1> HIDE DEF places, size
<1>6. DOMAIN places = 1 .. size
    BY <1>4
<1>7. f \in [1 .. size -> Int]
    BY <1>1, <1>4, <1>6
<1>8. \A m, n \in 1 .. size : f[m] = f[n] => m = n
    <2> SUFFICES ASSUME NEW m \in 1 .. size, NEW n \in 1 .. size, f[m] = f[n] PROVE m = n
        OBVIOUS
    <2>1. s[places[m]] = s[places[n]] /\ places[m] \in DOMAIN s /\ places[n] \in DOMAIN s
        BY <1>4, <1>6
    <2>2. places[m] = places[n] /\ places[m] \in Int
        BY <1>1, <2>1 DEF NoRepeats
    <2>3. ~(m < n) /\ ~(n < m)
        BY <1>5, <2>2
    <2> QED
        BY <1>4, <2>3
<1> HIDE DEF f
<1>9. f \in Seq(Int) /\ Len(f) = size /\ NoRepeats(f)
    BY <1>4, <1>7, <1>8 DEF NoRepeats
<1>10. K = DOMAIN s => size = Len(s)
    BY <1>1, <1>2 DEF size
<1> QED
    BY <1>4, <1>9, <1>10 DEF f, places, size

\* What a left row visits, and what is accepted of it, as functions of the call.
NamesValue(i) == \E m \in DOMAIN call.left.positions : call.left.positions[m] = i

ValueOf(i) ==
    call.left.values[CHOOSE m \in DOMAIN call.left.positions : call.left.positions[m] = i]

VisitsAt(i) == IF NamesValue(i) THEN VisitsOfValue(ValueOf(i)) ELSE VisitsOfNull

PlacesAt(i) == {n \in DOMAIN VisitsAt(i) : <<i, VisitsAt(i)[n]>> \in call.residual}

\* How many pairs are accepted before a row.
Total == CHOOSE f : IsSum(f, call.left.len, [i \in RowsOf(call.left) |-> Cardinality(PlacesAt(i))])

Sound ==
    /\ call \in Calls
    /\ IsPartition(call.left) /\ IsPartition(call.right)

LEMMA SoundFacts ==
    ASSUME Sound
    PROVE  /\ call.left \in Side /\ call.right \in Side
           /\ call.left.len \in Nat
           /\ call.left.positions \in Seq(Int) /\ call.left.nulls \in Seq(Int)
           /\ call.left.values \in Seq(Int)
           /\ Len(call.left.values) = Len(call.left.positions)
           /\ Ascends(call.left.positions) /\ Ascends(call.left.nulls)
           /\ call.entry = "single" =>
                call.residual = RowsOf(call.left) \X RowsOf(call.right)
           /\ call.entry \in Entries
           /\ call.entry \in {"aggregate", "aggregate_reverse"} => call.keep = "all"
<1>1. IsCall(call) /\ Call(call)
    BY NotEqualsAssumption DEF Sound, IsCall
<1>2. call.left \in Side /\ call.right \in Side
    BY <1>1 DEF Call
<1>3. call.left.values \in Seq(Int)
    BY <1>2 DEF Side
<1> QED
    BY <1>1, <1>2, <1>3, ListedIsConcatenation DEF Sound, IsCall, Call, IsPartition

LEMMA ValuesHavePairs ==
    ASSUME Sound
    PROVE  (\A v \in Int : PairsOfValue(v) \in Nat) /\ PairsOfNull \in Nat
    BY SoundFacts, ValueVisits, NullVisits DEF Sound

LEMMA VisitsAtTypes ==
    ASSUME Sound, NEW i
    PROVE  /\ VisitsAt(i) \in Seq(Int) /\ NoRepeats(VisitsAt(i))
           /\ \A n \in DOMAIN VisitsAt(i) : VisitsAt(i)[n] \in RowsOf(call.right)
           /\ Cardinality(PlacesAt(i)) \in Nat
<1>0. call.right \in Side /\ IsPartition(call.right)
    BY SoundFacts DEF Sound
<1>1. /\ VisitsAt(i) \in Seq(Int) /\ NoRepeats(VisitsAt(i))
      /\ \A n \in DOMAIN VisitsAt(i) : VisitsAt(i)[n] \in RowsOf(call.right)
    <2>1. CASE NamesValue(i)
        <3>1. ValueOf(i) \in Int
            <4> DEFINE m == CHOOSE m \in DOMAIN call.left.positions : call.left.positions[m] = i
            <4>1. m \in DOMAIN call.left.positions
                BY <2>1 DEF NamesValue
            <4> HIDE DEF m
            <4>2. m \in DOMAIN call.left.values
                BY <4>1, SoundFacts
            <4>3. call.left.values[m] \in Int
                BY <4>2, SoundFacts
            <4> QED
                BY <4>3 DEF ValueOf, m
        <3>2. VisitsAt(i) = VisitsOfValue(ValueOf(i))
            BY <2>1 DEF VisitsAt
        <3> QED
            BY <1>0, <3>1, <3>2, ValueVisits
    <2>2. CASE ~NamesValue(i)
        <3>1. VisitsAt(i) = VisitsOfNull
            BY <2>2 DEF VisitsAt
        <3> QED
            BY <1>0, <3>1, NullVisits
    <2> QED
        BY <2>1, <2>2
<1>2. PlacesAt(i) \in SUBSET DOMAIN VisitsAt(i)
    BY DEF PlacesAt
<1> QED
    BY <1>1, <1>2, PlacesOfList

LEMMA TotalAddsUp ==
    ASSUME Sound
    PROVE  /\ Total \in [0 .. call.left.len -> Nat] /\ Total[0] = 0
           /\ \A i \in RowsOf(call.left) : Total[i + 1] = Total[i] + Cardinality(PlacesAt(i))
<1> DEFINE c == [i \in RowsOf(call.left) |-> Cardinality(PlacesAt(i))]
           N == call.left.len
<1>1. N \in Nat /\ RowsOf(call.left) = 0 .. N - 1
    BY SoundFacts DEF RowsOf
<1>2. c \in [0 .. N - 1 -> Nat]
    BY <1>1, VisitsAtTypes
<1>3. \E f : IsSum(f, N, c)
    <2> HIDE DEF c, N
    <2> QED
        BY <1>1, <1>2, SumExists
<1>4. Total = CHOOSE f : IsSum(f, N, c)
    BY DEF Total
<1>5. IsSum(Total, N, c)
    <2> HIDE DEF c, N
    <2> QED
        BY <1>3, <1>4
<1> QED
    BY <1>1, <1>5 DEF IsSum

\* Wherever a walk stands, it visits what the row's value visits, or a null.
LEMMA WalkVisits ==
    ASSUME Sound, Merged, row < call.left.len
    PROVE  /\ row \in RowsOf(call.left) /\ Visits = VisitsAt(row)
           /\ AtNonNull =>
                /\ left_non_null_offset + 1 \in 1 .. Len(call.left.values)
                /\ Visits = VisitsOfValue(call.left.values[left_non_null_offset + 1])
           /\ ~AtNonNull => AtNull /\ Visits = VisitsOfNull
<1> DEFINE positions == call.left.positions
<1>1. /\ row \in Nat /\ row \in RowsOf(call.left)
      /\ Splits(positions, left_non_null_offset, row) /\ left_non_null_offset \in Nat
      /\ positions \in Seq(Int) /\ Ascends(positions)
      /\ Len(call.left.values) = Len(positions)
    BY SoundFacts DEF Merged, Splits, RowsOf
<1>2. AtNonNull \/ AtNull
    BY SoundFacts, RowIsNext DEF Sound
<1>3. CASE AtNonNull
    <2> DEFINE k == left_non_null_offset + 1
    <2>1. k \in 1 .. Len(positions) /\ k \in DOMAIN positions /\ positions[k] = row
        BY <1>1, <1>3 DEF AtNonNull
    <2>2. \A m, n \in DOMAIN positions : positions[m] = positions[n] => m = n
        BY SoundFacts, MapsNameRowsOnce DEF Sound
    <2> HIDE DEF k, positions
    <2>3. (CHOOSE m \in DOMAIN positions : positions[m] = row) = k /\ \E m \in DOMAIN positions : positions[m] = row
        BY <2>1, <2>2
    <2>4. NamesValue(row) /\ ValueOf(row) = call.left.values[k]
        BY <2>3 DEF NamesValue, ValueOf, positions
    <2>5. Visits = VisitsOfValue(call.left.values[k])
        BY <1>3 DEF Visits, k
    <2>6. VisitsAt(row) = VisitsOfValue(call.left.values[k])
        BY <2>4 DEF VisitsAt
    <2> QED
        BY <1>1, <1>3, <2>1, <2>5, <2>6 DEF k, positions
<1>4. CASE ~AtNonNull
    <2>1. ~NamesValue(row)
        BY <1>1, <1>4, NextOfMap DEF AtNonNull, NamesValue
    <2>2. Visits = VisitsOfNull /\ VisitsAt(row) = VisitsOfNull
        BY <1>2, <1>4, <2>1 DEF Visits, VisitsAt
    <2> QED
        BY <1>1, <1>2, <1>4, <2>2
<1> QED
    BY <1>3, <1>4

LEMMA AcceptedFacts ==
    ASSUME Sound, Merged, row < call.left.len
    PROVE  /\ Accepted \in Seq(Int) /\ NoRepeats(Accepted)
           /\ Len(Accepted) = Cardinality(PlacesAt(row))
           /\ call.entry = "single" => Len(Accepted) = Len(Visits)
<1> DEFINE K == {n \in DOMAIN Visits : <<row, Visits[n]>> \in call.residual}
<1>1. Visits = VisitsAt(row) /\ row \in RowsOf(call.left)
    BY WalkVisits
<1>2. /\ Visits \in Seq(Int) /\ NoRepeats(Visits)
      /\ \A n \in DOMAIN Visits : Visits[n] \in RowsOf(call.right)
    BY <1>1, VisitsAtTypes
<1>3. K = PlacesAt(row) /\ K \in SUBSET DOMAIN Visits
    BY <1>1 DEF PlacesAt
<1>4. call.entry = "single" => K = DOMAIN Visits
    BY <1>1, <1>2, SoundFacts
<1>5. Accepted = [n \in DOMAIN Ascending(K) |-> Visits[Ascending(K)[n]]]
    BY DEF Accepted, AcceptedPlaces
<1> HIDE DEF K
<1>6. /\ Accepted \in Seq(Int) /\ NoRepeats(Accepted) /\ Len(Accepted) = Cardinality(K)
      /\ (K = DOMAIN Visits => Cardinality(K) = Len(Visits))
    BY <1>2, <1>3, <1>5, PlacesOfList
<1> QED
    BY <1>3, <1>4, <1>6

-----------------------------------------------------------------------------
\* The capacity of the output.

CapacityInv ==
    /\ pc \in {"validate", "count"} => output = <<>>
    /\ pc = "count" => call.entry = "extended" /\ count = Total[row]
    /\ pc = "choose" => call.entry = "extended" /\ call.keep # "all"
    /\ pc = "select" => call.entry = "single" /\ call.keep # "all"
    /\ pc = "emit" => output \in Seq(Int \X Int)
    /\ pc = "emit" /\ call.entry = "extended" =>
        count = Total[call.left.len] /\ Len(output) = Total[row]
    /\ pc = "emit" /\ call.entry = "single" =>
        /\ count = Capacity
        /\ Len(output) = PairsOfValues[left_non_null_offset] + left_null_offset * PairsOfNull
    /\ CapacityIsExact

LEMMA CapacityInit == Init => CapacityInv
<1> QED
    BY DEF Init, CapacityInv, CapacityIsExact

\* What depends on the call alone.
LEMMA CallStays ==
    ASSUME call' = call
    PROVE  /\ Total' = Total /\ Capacity' = Capacity /\ PairsOfNull' = PairsOfNull
           /\ PairsOfValues' = PairsOfValues /\ Reversed' = Reversed
<1>1. Capacity' = Capacity /\ PairsOfNull' = PairsOfNull /\ PairsOfValues' = PairsOfValues
    BY DEF Capacity, PairsOfNull, RightRows, PairsOfValues, PairsOfValue, LessEnd, GreaterStart,
           MatchingNulls
<1>2. Total' = Total
    BY DEF Total, IsSum, RowsOf, PlacesAt, VisitsAt, NamesValue, ValueOf, VisitsOfValue,
           VisitsOfNull, Below, Above, LessEnd, GreaterStart, MatchingNulls, Listed
<1> QED
    BY <1>1, <1>2 DEF Reversed

\* A walk that has come to the end has passed all of either map.
LEMMA MapsEnd ==
    ASSUME Sound, Merged, row = call.left.len
    PROVE  /\ left_non_null_offset = Len(call.left.values)
           /\ left_null_offset = Len(call.left.nulls)
<1> DEFINE positions == call.left.positions
           nulls == call.left.nulls
           len == call.left.len
<1>1. /\ positions \in Seq(Int) /\ nulls \in Seq(Int) /\ len \in Nat
      /\ Len(call.left.values) = Len(positions)
      /\ Splits(positions, left_non_null_offset, len)
      /\ Splits(nulls, left_null_offset, len)
    BY SoundFacts DEF Merged
<1>2. /\ \A m \in DOMAIN positions : positions[m] < len
      /\ \A m \in DOMAIN nulls : nulls[m] < len
    <2>1. \A n \in DOMAIN Listed(call.left) : Listed(call.left)[n] < len
        BY <1>1 DEF Sound, IsPartition, RowsOf
    <2>2. call.left \in Side
        BY SoundFacts
    <2> QED
        BY <2>1, <2>2, MapsAreListed
<1> HIDE DEF positions, nulls, len
<1>3. ASSUME NEW map \in Seq(Int), NEW offset, Splits(map, offset, len),
             \A m \in DOMAIN map : map[m] < len
      PROVE  offset = Len(map)
    <2>1. offset \in 0 .. Len(map) /\ Len(map) \in Nat /\ DOMAIN map = 1 .. Len(map)
        BY <1>3 DEF Splits
    <2> DEFINE last == Len(map)
    <2>2. last # 0 => last <= offset
        BY <1>3, <2>1 DEF Splits
    <2>3. offset \in Int /\ 0 <= offset /\ offset <= last /\ last \in Nat
        BY <2>1
    <2> HIDE DEF last
    <2>4. offset = last
        BY <2>2, <2>3
    <2> QED
        BY <2>4 DEF last
<1>4. left_non_null_offset = Len(positions) /\ left_null_offset = Len(nulls)
    BY <1>1, <1>2, <1>3
<1> QED
    BY <1>1, <1>4 DEF nulls

LEMMA PairsList ==
    ASSUME NEW s \in Seq(Int)
    PROVE  /\ [n \in DOMAIN s |-> Pair(s[n])] \in Seq(Int \X Int) \/ row \notin Int
           /\ Len([n \in DOMAIN s |-> Pair(s[n])]) = Len(s)
<1> DEFINE f == [n \in DOMAIN s |-> Pair(s[n])]
           Pairs == Int \X Int
<1>1. DOMAIN s = 1 .. Len(s) /\ Len(s) \in Nat /\ \A n \in 1 .. Len(s) : s[n] \in Int
    OBVIOUS
<1>2. row \in Int => f \in [1 .. Len(s) -> Pairs]
    BY <1>1 DEF Pair
<1>3. DOMAIN f = 1 .. Len(s)
    BY <1>1
<1>4. f = [n \in 1 .. Len(s) |-> f[n]]
    BY <1>1
<1> HIDE DEF f, Pairs
<1>5. Len(f) = Len(s)
    BY <1>1, <1>3, <1>4
<1>6. row \in Int => f \in Seq(Pairs)
    BY <1>1, <1>2
<1> QED
    BY <1>5, <1>6 DEF f, Pairs

\* What a visit adds to the output.
LEMMA EmitAdds ==
    ASSUME Sound, Merged, EmitRow, output \in Seq(Int \X Int)
    PROVE  /\ output' = output \o [n \in DOMAIN Accepted |-> Pair(Accepted[n])]
           /\ output' \in Seq(Int \X Int)
           /\ Len(output') = Len(output) + Len(Accepted)
<1> DEFINE f == [n \in DOMAIN Accepted |-> Pair(Accepted[n])]
           Pairs == Int \X Int
<1>1. row < call.left.len /\ output' = output \o f /\ row \in Int
    BY DEF EmitRow, WalkRow, Merged
<1>2. f \in Seq(Pairs) /\ Len(f) = Len(Accepted)
    BY <1>1, AcceptedFacts, PairsList
<1>3. output \in Seq(Pairs)
    OBVIOUS
<1> HIDE DEF f, Pairs
<1>4. output \o f \in Seq(Pairs) /\ Len(output \o f) = Len(output) + Len(f)
    BY <1>2, <1>3, Appended
<1> QED
    BY <1>1, <1>2, <1>4 DEF f, Pairs

\* A visit of the walk over one predicate puts out as many pairs as its row was
\* given in the capacity.
LEMMA EmitFills ==
    ASSUME Sound, Merged, EmitRow, call.entry = "single", call' = call
    PROVE  PairsOfValues[left_non_null_offset]' + left_null_offset' * PairsOfNull
             = PairsOfValues[left_non_null_offset] + left_null_offset * PairsOfNull + Len(Accepted)
<1> DEFINE P == PairsOfValues
           Z == PairsOfNull
           a == left_non_null_offset
           b == left_null_offset
<1>1. /\ row < call.left.len /\ a \in Nat /\ b \in Nat
      /\ a' = a + (IF AtNonNull THEN 1 ELSE 0) /\ b' = b + (IF AtNull THEN 1 ELSE 0)
    BY DEF EmitRow, WalkRow, Merged, Splits
<1>2. /\ Z \in Nat /\ P \in [0 .. Len(call.left.values) -> Nat]
      /\ \A n \in 1 .. Len(call.left.values) :
            P[n] = P[n - 1] + PairsOfValue(call.left.values[n])
    BY SoundFacts, ValuesHavePairs, ValuesAddUp
<1>3. Len(Accepted) = Len(Visits)
    BY <1>1, AcceptedFacts
<1>4. P' = P /\ Z' = Z
    BY CallStays
<1>5. CASE AtNonNull
    <2>1. /\ a + 1 \in 1 .. Len(call.left.values)
          /\ Visits = VisitsOfValue(call.left.values[a + 1])
        BY <1>1, <1>5, WalkVisits
    <2>2. call.left.values[a + 1] \in Int
        BY <2>1, SoundFacts
    <2>3. Len(Visits) = PairsOfValue(call.left.values[a + 1])
        BY <2>1, <2>2, SoundFacts, ValueVisits DEF Sound
    <2>4. P[a + 1] = P[a] + Len(Visits) /\ P[a] \in Nat /\ Len(Visits) \in Nat
        <3> DEFINE last == Len(call.left.values)
                   v == call.left.values[a + 1]
        <3>1. PairsOfValue(v) \in Nat /\ P[a + 1] = P[(a + 1) - 1] + PairsOfValue(v)
            BY <1>2, <2>1, <2>2, ValuesHavePairs
        <3>2. a + 1 \in 1 .. last /\ last \in Nat /\ P \in [0 .. last -> Nat]
            BY <1>2, <2>1, SoundFacts
        <3> HIDE DEF last, v, P
        <3>3. (a + 1) - 1 = a /\ a \in 0 .. last
            BY <1>1, <3>2
        <3> QED
            BY <2>3, <3>1, <3>2, <3>3 DEF v
    <2>5. a' = a + 1 /\ b' = b
        BY <1>1, <1>5 DEF AtNull
    <2>6. PairsOfValues[left_non_null_offset]' = P[a + 1]
        BY <1>4, <2>5
    <2> HIDE DEF P, Z, a, b
    <2>7. b * Z \in Int
        BY <1>1, <1>2
    <2> QED
        BY <1>3, <2>4, <2>5, <2>6, <2>7 DEF P, Z, a, b
<1>6. CASE ~AtNonNull
    <2>1. AtNull /\ Visits = VisitsOfNull
        BY <1>1, <1>6, WalkVisits
    <2>2. Len(Visits) = Z
        BY <2>1, SoundFacts, NullVisits DEF Sound
    <2>3. a' = a /\ b' = b + 1
        BY <1>1, <1>6, <2>1
    <2>4. PairsOfValues[left_non_null_offset]' = P[a]
        BY <1>4, <2>3
    <2>5. P[a] \in Nat
        <3>1. a \in 0 .. Len(call.left.values)
            BY SoundFacts DEF Merged, Splits
        <3> QED
            BY <1>2, <3>1
    <2> HIDE DEF P, Z, a, b
    <2>6. (b + 1) * Z = b * Z + Z /\ b * Z \in Int
        BY <1>1, <1>2
    <2> QED
        BY <1>2, <1>3, <2>2, <2>3, <2>4, <2>5, <2>6 DEF P, Z, a, b
<1> QED
    BY <1>5, <1>6

LEMMA CapacityNext == AcceptInv /\ WalkInv /\ CapacityInv /\ [Next]_vars => CapacityInv'
<1> SUFFICES ASSUME AcceptInv, WalkInv, CapacityInv, [Next]_vars PROVE CapacityInv'
    OBVIOUS
<1>1. pc \notin {"validate", "error"} => Sound
    BY DEF AcceptInv, Accepts, Sound
<1>2. pc \in Walking => Merged
    BY DEF WalkInv
<1>3. call' = call
    BY DEF Next, Refuse, Validate, WalkNext, CountRow, EndCount, EmitRow, EndEmit, ChooseRow,
           EndChoose, SelectValue, SelectNulls, vars
<1>4. /\ Total' = Total /\ Capacity' = Capacity /\ PairsOfNull' = PairsOfNull
      /\ PairsOfValues' = PairsOfValues
    BY <1>3, CallStays
<1>5. CASE Refuse
    BY <1>5 DEF Refuse, CapacityInv, CapacityIsExact
<1>6. CASE Validate
    <2>1. Sound
        BY <1>6 DEF Validate, AcceptInv, Sound
    <2>2. /\ output' = <<>> /\ pc' = FirstPass
          /\ row' = 0 /\ left_non_null_offset' = 0 /\ left_null_offset' = 0
          /\ count' = IF call.entry = "single" /\ call.keep = "all" THEN Capacity ELSE 0
        BY <1>6 DEF Validate, WalkInv, CapacityInv, offsetVars
    <2>3. Total[0] = 0 /\ PairsOfValues[0] = 0 /\ 0 * PairsOfNull = 0
        BY <2>1, TotalAddsUp, ValuesAddUp, ValuesHavePairs, SoundFacts
    <2>4. call.entry \in Entries /\ (call.entry \in {"aggregate", "aggregate_reverse"} => call.keep = "all")
        BY <2>1, SoundFacts
    <2>5. output' \in Seq(Int \X Int) /\ Len(output') = 0
        BY <2>2
    <2>6. CASE call.entry = "single"
        <3>1. IF call.keep = "all" THEN pc' = "emit" ELSE pc' = "select"
            BY <2>2, <2>6 DEF FirstPass
        <3> QED
            BY <1>3, <1>4, <2>2, <2>3, <2>5, <2>6, <3>1 DEF CapacityInv, CapacityIsExact
    <2>7. CASE call.entry = "extended"
        <3>1. IF call.keep = "all" THEN pc' = "count" ELSE pc' = "choose"
            BY <2>2, <2>7 DEF FirstPass
        <3> QED
            BY <1>3, <1>4, <2>2, <2>3, <2>5, <2>7, <3>1 DEF CapacityInv, CapacityIsExact
    <2>8. CASE call.entry \in {"aggregate", "aggregate_reverse"}
        <3>1. pc' = "emit"
            BY <2>2, <2>8 DEF FirstPass
        <3> QED
            BY <1>3, <2>5, <2>8, <3>1 DEF CapacityInv, CapacityIsExact
    <2> QED
        BY <2>4, <2>6, <2>7, <2>8 DEF Entries
<1>7. CASE CountRow
    <2>1. /\ pc = "count" /\ pc' = "count" /\ output' = <<>> /\ row < call.left.len
          /\ row' = row + 1 /\ count' = count + Len(Accepted)
        BY <1>7 DEF CountRow, WalkRow, CapacityInv
    <2>2. Sound /\ Merged /\ row \in RowsOf(call.left)
        BY <1>1, <1>2, <2>1, WalkVisits DEF Walking
    <2>3. count' = Total[row + 1]
        BY <2>1, <2>2, AcceptedFacts, TotalAddsUp DEF CapacityInv
    <2> QED
        BY <1>3, <1>4, <2>1, <2>3 DEF CapacityInv, CapacityIsExact
<1>8. CASE EndCount
    <2>1. /\ pc = "count" /\ pc' \in {"none", "emit"} /\ output' = <<>> /\ row = call.left.len
          /\ row' = 0 /\ count' = count
        BY <1>8 DEF EndCount, CapacityInv, Rewind
    <2>2. Sound
        BY <1>1, <2>1
    <2>3. Total[0] = 0 /\ output' \in Seq(Int \X Int) /\ Len(output') = 0
        BY <2>1, <2>2, TotalAddsUp
    <2> QED
        BY <1>3, <1>4, <2>1, <2>3 DEF CapacityInv, CapacityIsExact
<1>9. CASE EmitRow
    <2>1. /\ pc = "emit" /\ pc' = "emit" /\ row < call.left.len /\ row' = row + 1
          /\ count' = count
        BY <1>9 DEF EmitRow, WalkRow
    <2>2. Sound /\ Merged /\ row \in RowsOf(call.left)
        BY <1>1, <1>2, <2>1, WalkVisits DEF Walking
    <2>3. output' \in Seq(Int \X Int) /\ Len(output') = Len(output) + Len(Accepted)
        BY <1>9, <2>1, <2>2, EmitAdds DEF CapacityInv
    <2>4. call.entry = "extended" => Len(output') = Total[row + 1]
        BY <2>1, <2>2, <2>3, AcceptedFacts, TotalAddsUp DEF CapacityInv
    <2>5. call.entry = "single" =>
            Len(output') = PairsOfValues'[left_non_null_offset'] + left_null_offset' * PairsOfNull'
        <3> SUFFICES ASSUME call.entry = "single"
                     PROVE Len(output') = PairsOfValues'[left_non_null_offset'] + left_null_offset' * PairsOfNull'
            OBVIOUS
        <3>1. Len(output) = PairsOfValues[left_non_null_offset] + left_null_offset * PairsOfNull
            BY <2>1 DEF CapacityInv
        <3>2. PairsOfValues'[left_non_null_offset'] + left_null_offset' * PairsOfNull
                = PairsOfValues[left_non_null_offset] + left_null_offset * PairsOfNull + Len(Accepted)
            BY <1>3, <1>9, <2>2, EmitFills
        <3> QED
            BY <1>4, <2>3, <3>1, <3>2
    <2> QED
        BY <1>3, <1>4, <2>1, <2>3, <2>4, <2>5 DEF CapacityInv, CapacityIsExact
<1>10. CASE EndEmit
    <2>1. /\ pc = "emit" /\ pc' \in {"none", "done"} /\ row = call.left.len
          /\ output' = output /\ count' = count
        BY <1>10 DEF EndEmit
    <2>2. Sound /\ Merged
        BY <1>1, <1>2, <2>1 DEF Walking
    <2>3. call.entry = "extended" => Len(output) = count
        BY <2>1 DEF CapacityInv
    <2>4. call.entry = "single" => Len(output) = count
        <3>1. /\ left_non_null_offset = Len(call.left.values)
              /\ left_null_offset = Len(call.left.nulls)
            BY <2>1, <2>2, MapsEnd
        <3> QED
            BY <2>1, <3>1 DEF CapacityInv, Capacity
    <2> QED
        BY <1>3, <2>1, <2>3, <2>4 DEF CapacityInv, CapacityIsExact
<1>11. CASE ChooseRow \/ EndChoose
    BY <1>11 DEF ChooseRow, EndChoose, CapacityInv, CapacityIsExact
<1>12. CASE SelectValue \/ SelectNulls
    BY <1>12 DEF SelectValue, SelectNulls, CapacityInv, CapacityIsExact
<1>13. CASE UNCHANGED vars
    BY <1>4, <1>13 DEF vars, offsetVars, CapacityInv, CapacityIsExact
<1> QED
    BY <1>5, <1>6, <1>7, <1>8, <1>9, <1>10, <1>11, <1>12, <1>13 DEF Next, WalkNext

\* The output fills exactly what was reserved for it: from lengths alone for one
\* predicate, with null groups that match everything or nothing, and as the walk
\* before has counted for several.
THEOREM CapacityIsExactTheorem == Spec => []CapacityIsExact
<1>1. CapacityInv => CapacityIsExact
    BY DEF CapacityInv
<1> QED
    BY <1>1, AcceptInit, AcceptNext, WalkInit, WalkInvNext, CapacityInit, CapacityNext,
       PTL DEF Spec

-----------------------------------------------------------------------------
\* The order of the output.

LeftOf(pair) == IF Reversed THEN pair[2] ELSE pair[1]

InOrder(pairs) ==
    \A m, n \in DOMAIN pairs : m < n =>
        pairs[m] # pairs[n] /\ LeftOf(pairs[m]) <= LeftOf(pairs[n])

\* The pairs put out are those of earlier rows, in their order.
OrderInv ==
    /\ pc = "emit" => InOrder(output) /\ \A n \in DOMAIN output : LeftOf(output[n]) < row
    /\ WalksInLeftOrder

LEMMA OrderInit == Init => OrderInv
<1> QED
    BY DEF Init, OrderInv, WalksInLeftOrder

\* A row's pairs come behind those of earlier rows, and differ.
LEMMA RowExtends ==
    ASSUME NEW s \in Seq(Int \X Int), InOrder(s), row \in Int,
           \A n \in DOMAIN s : LeftOf(s[n]) < row,
           NEW f \in Seq(Int), NoRepeats(f)
    PROVE  LET t == s \o [n \in DOMAIN f |-> Pair(f[n])]
           IN  InOrder(t) /\ \A n \in DOMAIN t : LeftOf(t[n]) < row + 1
<1> DEFINE Pairs == Int \X Int
           g == [n \in DOMAIN f |-> Pair(f[n])]
           t == s \o g
<1>1. s \in Seq(Pairs) /\ g \in Seq(Pairs) /\ Len(g) = Len(f)
    BY PairsList
<1>2. \A n \in 1 .. Len(s) : LeftOf(s[n]) \in Int /\ LeftOf(s[n]) < row
    <2>1. \A n \in 1 .. Len(s) : s[n] \in Int \X Int /\ LeftOf(s[n]) < row
        OBVIOUS
    <2> QED
        BY <2>1 DEF LeftOf
<1>3. DOMAIN f = 1 .. Len(f) /\ Len(f) \in Nat /\ Len(s) \in Nat /\ DOMAIN s = 1 .. Len(s)
    OBVIOUS
<1>4. \A n \in 1 .. Len(f) : LeftOf(g[n]) = row
    BY <1>3 DEF LeftOf, Pair, Reversed
<1>5. \A m, n \in 1 .. Len(f) : m < n => g[m] # g[n]
    <2> SUFFICES ASSUME NEW m \in 1 .. Len(f), NEW n \in 1 .. Len(f), m < n, g[m] = g[n]
                 PROVE FALSE
        OBVIOUS
    <2>1. f[m] = f[n]
        BY <1>3 DEF Pair
    <2>2. m = n
        BY <1>3, <2>1 DEF NoRepeats
    <2> QED
        BY <1>3, <2>2
<1> HIDE DEF g, Pairs
<1>6. /\ t \in Seq(Pairs) /\ Len(t) = Len(s) + Len(f)
      /\ \A n \in 1 .. Len(s) : t[n] = s[n]
      /\ \A n \in 1 .. Len(t) : ~(n <= Len(s)) => t[n] = g[n - Len(s)]
    <2>1. /\ s \o g \in Seq(Pairs) /\ Len(s \o g) = Len(s) + Len(g)
          /\ \A n \in 1 .. Len(s) : (s \o g)[n] = s[n]
          /\ \A n \in 1 .. Len(s \o g) : ~(n <= Len(s)) => (s \o g)[n] = g[n - Len(s)]
        BY <1>1, Appended
    <2> QED
        BY <1>1, <2>1
<1>7. DOMAIN t = 1 .. Len(t)
    BY <1>6
<1> HIDE DEF t
<1>8. ASSUME NEW n \in DOMAIN t
      PROVE  /\ n \in Int /\ LeftOf(t[n]) \in Int /\ LeftOf(t[n]) < row + 1
             /\ n <= Len(s) => n \in 1 .. Len(s) /\ t[n] = s[n] /\ LeftOf(t[n]) < row
             /\ ~(n <= Len(s)) =>
                    /\ n - Len(s) \in 1 .. Len(f) /\ t[n] = g[n - Len(s)]
                    /\ LeftOf(t[n]) = row
    <2>1. n \in 1 .. Len(s) + Len(f)
        BY <1>6, <1>7
    <2>2. CASE n <= Len(s)
        <3>1. n \in 1 .. Len(s) /\ t[n] = s[n]
            BY <1>3, <1>6, <2>1, <2>2
        <3> QED
            BY <1>2, <2>2, <3>1
    <2>3. CASE ~(n <= Len(s))
        <3>1. n - Len(s) \in 1 .. Len(f) /\ t[n] = g[n - Len(s)]
            BY <1>3, <1>6, <1>7, <2>1, <2>3
        <3>2. LeftOf(t[n]) = row
            BY <1>4, <3>1
        <3> QED
            BY <2>1, <2>3, <3>1, <3>2
    <2> QED
        BY <2>2, <2>3
<1>9. ASSUME NEW m \in DOMAIN t, NEW n \in DOMAIN t, m < n
      PROVE  t[m] # t[n] /\ LeftOf(t[m]) <= LeftOf(t[n])
    <2>1. CASE n <= Len(s)
        <3>1. m <= Len(s)
            BY <1>3, <1>8, <1>9, <2>1
        <3>2. m \in DOMAIN s /\ n \in DOMAIN s /\ t[m] = s[m] /\ t[n] = s[n]
            BY <1>3, <1>8, <2>1, <3>1
        <3> QED
            BY <1>9, <3>2 DEF InOrder
    <2>2. CASE m <= Len(s) /\ ~(n <= Len(s))
        <3>1. LeftOf(t[m]) < row /\ LeftOf(t[n]) = row /\ LeftOf(t[m]) \in Int
            BY <1>8, <2>2
        <3>2. LeftOf(t[m]) # LeftOf(t[n])
            BY <3>1
        <3> QED
            BY <3>1, <3>2
    <2>3. CASE ~(m <= Len(s))
        <3>1. ~(n <= Len(s)) /\ m - Len(s) < n - Len(s)
            BY <1>3, <1>8, <1>9, <2>3
        <3>2. /\ m - Len(s) \in 1 .. Len(f) /\ t[m] = g[m - Len(s)] /\ LeftOf(t[m]) = row
              /\ n - Len(s) \in 1 .. Len(f) /\ t[n] = g[n - Len(s)] /\ LeftOf(t[n]) = row
            BY <1>8, <2>3, <3>1
        <3> QED
            BY <1>5, <3>1, <3>2
    <2>4. n <= Len(s) \/ ~(n <= Len(s))
        OBVIOUS
    <2> QED
        BY <2>1, <2>2, <2>3, <2>4
<1>10. InOrder(t) /\ \A n \in DOMAIN t : LeftOf(t[n]) < row + 1
    <2>1. \A n \in DOMAIN t : LeftOf(t[n]) < row + 1
        BY <1>8
    <2> QED
        BY <1>9, <2>1 DEF InOrder
<1> QED
    BY <1>10 DEF t, g

\* The rows that chose a partner are put out in order, once each.
LEMMA ChosenInOrder ==
    ASSUME Sound, EndChoose, ~Reversed
    PROVE  InOrder(output')
<1> DEFINE chose == {i \in RowsOf(call.left) : selected[i] # None}
           rows == Ascending(chose)
<1>1. chose \in SUBSET Int /\ IsFiniteSet(chose)
    <2> DEFINE last == call.left.len - 1
    <2>1. last \in Int /\ RowsOf(call.left) = 0 .. last
        BY SoundFacts DEF RowsOf
    <2>2. chose \in SUBSET RowsOf(call.left)
        OBVIOUS
    <2> HIDE DEF last, chose
    <2>3. IsFiniteSet(0 .. last) /\ 0 .. last \in SUBSET Int
        BY <2>1, 0 \in Int, FS_Interval
    <2> QED
        BY <2>1, <2>2, <2>3, FS_Subset
<1>2. output' = [n \in DOMAIN rows |-> <<rows[n], selected[rows[n]]>>]
    BY DEF EndChoose
<1> HIDE DEF chose
<1>3. /\ Cardinality(chose) \in Nat /\ rows \in Seq(Int) /\ Len(rows) = Cardinality(chose)
      /\ \A m, n \in 1 .. Cardinality(chose) : m < n => rows[m] < rows[n]
    BY <1>1, AscendingListsRows, AscendingAscends
<1> HIDE DEF rows
<1>4. DOMAIN rows = 1 .. Cardinality(chose) /\ \A n \in DOMAIN rows : rows[n] \in Int
    BY <1>3
<1>5. ASSUME NEW m \in DOMAIN output', NEW n \in DOMAIN output', m < n
      PROVE  output'[m] # output'[n] /\ LeftOf(output'[m]) <= LeftOf(output'[n])
    <2>1. /\ m \in DOMAIN rows /\ n \in DOMAIN rows
          /\ output'[m] = <<rows[m], selected[rows[m]]>>
          /\ output'[n] = <<rows[n], selected[rows[n]]>>
        BY <1>2
    <2>2. rows[m] < rows[n] /\ rows[m] \in Int /\ rows[n] \in Int
        BY <1>3, <1>4, <1>5, <2>1
    <2>3. LeftOf(output'[m]) = rows[m] /\ LeftOf(output'[n]) = rows[n]
        BY <2>1 DEF LeftOf
    <2> QED
        BY <2>2, <2>3
<1> QED
    BY <1>5 DEF InOrder

LEMMA OrderNext == AcceptInv /\ WalkInv /\ CapacityInv /\ OrderInv /\ [Next]_vars => OrderInv'
<1> SUFFICES ASSUME AcceptInv, WalkInv, CapacityInv, OrderInv, [Next]_vars PROVE OrderInv'
    OBVIOUS
<1>1. pc \notin {"validate", "error"} => Sound
    BY DEF AcceptInv, Accepts, Sound
<1>2. pc \in Walking => Merged
    BY DEF WalkInv
<1>3. call' = call /\ Reversed' = Reversed
    BY DEF Next, Refuse, Validate, WalkNext, CountRow, EndCount, EmitRow, EndEmit, ChooseRow,
           EndChoose, SelectValue, SelectNulls, vars, Reversed
<1>4. /\ InOrder(output)' <=> InOrder(output')
      /\ \A p : LeftOf(p)' = LeftOf(p)
    BY <1>3 DEF InOrder, LeftOf
<1>5. InOrder(output) /\ (call.entry # "single" \/ call.keep = "all") =>
        \A m, n \in DOMAIN output : m < n =>
            output[m] # output[n] /\ (~Reversed => output[m][1] <= output[n][1])
    BY DEF InOrder, LeftOf
<1>6. CASE Refuse
    BY <1>6 DEF Refuse, OrderInv, WalksInLeftOrder
<1>7. CASE Validate \/ EndCount
    <2>1. output' = <<>> /\ pc' # "done"
        BY <1>7 DEF Validate, EndCount, FirstPass, CapacityInv
    <2>2. DOMAIN output' = {}
        BY <2>1
    <2> QED
        BY <1>4, <2>1, <2>2 DEF OrderInv, WalksInLeftOrder, InOrder
<1>8. CASE CountRow \/ ChooseRow
    BY <1>8 DEF CountRow, ChooseRow, OrderInv, WalksInLeftOrder
<1>9. CASE EmitRow
    <2>1. /\ pc = "emit" /\ pc' = "emit" /\ row < call.left.len /\ row' = row + 1
        BY <1>9 DEF EmitRow, WalkRow
    <2>2. Sound /\ Merged /\ row \in Int
        BY <1>1, <1>2, <2>1 DEF Walking, Merged
    <2>3. Accepted \in Seq(Int) /\ NoRepeats(Accepted)
        BY <2>1, <2>2, AcceptedFacts
    <2>4. output \in Seq(Int \X Int) /\ InOrder(output) /\ \A n \in DOMAIN output : LeftOf(output[n]) < row
        BY <2>1 DEF CapacityInv, OrderInv
    <2>5. output' = output \o [n \in DOMAIN Accepted |-> Pair(Accepted[n])]
        BY <1>9, <2>2, <2>4, EmitAdds
    <2>6. InOrder(output') /\ \A n \in DOMAIN output' : LeftOf(output'[n]) < row + 1
        BY <2>2, <2>3, <2>4, <2>5, RowExtends
    <2> QED
        BY <1>4, <2>1, <2>6 DEF OrderInv, WalksInLeftOrder
<1>10. CASE EndEmit
    <2>1. /\ pc = "emit" /\ pc' \in {"none", "done"} /\ output' = output
        BY <1>10 DEF EndEmit
    <2> QED
        BY <1>3, <1>5, <2>1 DEF OrderInv, WalksInLeftOrder
<1>11. CASE EndChoose
    <2>1. pc = "choose" /\ pc' \in {"none", "done"} /\ ~Reversed
        BY <1>11 DEF EndChoose, CapacityInv, Reversed
    <2>2. InOrder(output')
        BY <1>1, <1>11, <2>1, ChosenInOrder
    <2> QED
        BY <1>3, <2>1, <2>2 DEF OrderInv, WalksInLeftOrder, InOrder, LeftOf
<1>12. CASE SelectValue \/ SelectNulls
    BY <1>3, <1>12 DEF SelectValue, SelectNulls, OrderInv, WalksInLeftOrder, CapacityInv
<1>13. CASE UNCHANGED vars
    BY <1>3, <1>4, <1>13 DEF vars, OrderInv, WalksInLeftOrder
<1> QED
    BY <1>6, <1>7, <1>8, <1>9, <1>10, <1>11, <1>12, <1>13 DEF Next, WalkNext

\* The walks put their pairs out in left-row order, and feed no pair twice to an
\* aggregation either: every list of visits names a right row once.
THEOREM WalksInLeftOrderTheorem == Spec => []WalksInLeftOrder
<1>1. OrderInv => WalksInLeftOrder
    BY DEF OrderInv
<1> QED
    BY <1>1, AcceptInit, AcceptNext, WalkInit, WalkInvNext, CapacityInit, CapacityNext,
       OrderInit, OrderNext, PTL DEF Spec

-----------------------------------------------------------------------------
\* The rows visited are the rows that match.

\* What holds of numbers up to a bound holds of as many as there are.
LEMMA PrefixCounted ==
    ASSUME NEW N \in Nat, NEW K \in SUBSET (1 .. N),
           \A m, n \in 1 .. N : n \in K /\ m <= n => m \in K
    PROVE  K = 1 .. Cardinality(K)
<1> DEFINE ends == {n \in Nat : n + 1 \notin K}
<1>1. N \in ends
    <2>1. N + 1 \notin 1 .. N
        OBVIOUS
    <2> QED
        BY <2>1
<1>2. PICK e \in ends : \A k \in ends : e <= k
    BY <1>1, LeastNatural, Zenon
<1>3. e \in Nat /\ e + 1 \notin K
    BY <1>2
<1>4. ASSUME NEW n \in 1 .. e PROVE n \in K
    <2>1. n - 1 \in Nat /\ ~(e <= n - 1) /\ (n - 1) + 1 = n
        BY <1>3
    <2>2. n - 1 \notin ends
        BY <1>2, <2>1
    <2> QED
        BY <2>1, <2>2
<1>5. ASSUME NEW n \in K PROVE n \in 1 .. e
    <2> SUFFICES ASSUME ~(n <= e) PROVE FALSE
        BY <1>3
    <2>1. e + 1 \in 1 .. N /\ e + 1 <= n /\ n \in 1 .. N
        BY <1>3
    <2> QED
        BY <1>3, <2>1
<1>6. K = 1 .. e
    BY <1>4, <1>5
<1>7. Cardinality(1 .. e) = e
    BY <1>3, 1 \in Int, e \in Int, FS_Interval
<1> QED
    BY <1>6, <1>7

\* partition_point: the values below the end are the smaller ones.
LEMMA EndsDivide ==
    ASSUME NEW v \in Int, call.right \in Side, Ascends(call.right.values)
    PROVE  \A n \in DOMAIN call.right.values :
                /\ n <= LessEnd(v) <=> call.right.values[n] < v
                /\ n <= GreaterStart(v) <=> call.right.values[n] <= v
<1> DEFINE values == call.right.values
           less == {n \in DOMAIN values : values[n] < v}
           upTo == {n \in DOMAIN values : values[n] <= v}
           N == Len(values)
<1>1. values \in Seq(Int) /\ Ascends(values)
    BY DEF Side
<1> HIDE DEF values
<1>2. DOMAIN values = 1 .. N /\ N \in Nat /\ \A n \in 1 .. N : values[n] \in Int
    BY <1>1
<1>3. \A m, n \in 1 .. N : m <= n => values[m] <= values[n]
    <2> SUFFICES ASSUME NEW m \in 1 .. N, NEW n \in 1 .. N, m <= n PROVE values[m] <= values[n]
        OBVIOUS
    <2>1. m = n \/ m < n
        OBVIOUS
    <2> QED
        BY <1>1, <1>2, <2>1 DEF Ascends
<1> HIDE DEF N
<1>4. /\ less \in SUBSET (1 .. N) /\ upTo \in SUBSET (1 .. N)
      /\ \A m, n \in 1 .. N : n \in less /\ m <= n => m \in less
      /\ \A m, n \in 1 .. N : n \in upTo /\ m <= n => m \in upTo
    BY <1>2, <1>3
<1>5. LessEnd(v) = Cardinality(less) /\ GreaterStart(v) = Cardinality(upTo)
    BY DEF LessEnd, GreaterStart, values
<1>6. \A n \in 1 .. N : (n \in less <=> values[n] < v) /\ (n \in upTo <=> values[n] <= v)
    BY <1>2
<1> HIDE DEF less, upTo
<1>7. less = 1 .. LessEnd(v) /\ upTo = 1 .. GreaterStart(v)
    BY <1>2, <1>4, <1>5, PrefixCounted
<1>8. LessEnd(v) \in Nat /\ GreaterStart(v) \in Nat
    BY EndsInside
<1>9. \A n \in 1 .. N : (n <= LessEnd(v) <=> n \in less) /\ (n <= GreaterStart(v) <=> n \in upTo)
    BY <1>2, <1>7, <1>8
<1> QED
    BY <1>2, <1>6, <1>9 DEF values

LEMMA AppendedMembers ==
    ASSUME NEW S, NEW s \in Seq(S), NEW t \in Seq(S)
    PROVE  ToSet(s \o t) = ToSet(s) \union ToSet(t)
<1> DEFINE all == s \o t
<1>1. /\ all \in Seq(S) /\ Len(all) = Len(s) + Len(t)
      /\ \A n \in 1 .. Len(s) : all[n] = s[n]
      /\ \A n \in 1 .. Len(all) : ~(n <= Len(s)) => all[n] = t[n - Len(s)]
    BY Appended
<1>2. /\ DOMAIN s = 1 .. Len(s) /\ Len(s) \in Nat
      /\ DOMAIN t = 1 .. Len(t) /\ Len(t) \in Nat
      /\ DOMAIN all = 1 .. Len(all)
    OBVIOUS
<1> HIDE DEF all
<1>3. ASSUME NEW n \in DOMAIN s PROVE n \in DOMAIN all /\ all[n] = s[n]
    BY <1>1, <1>2
<1>4. ASSUME NEW n \in DOMAIN t
      PROVE  Len(s) + n \in DOMAIN all /\ all[Len(s) + n] = t[n]
    <2>1. Len(s) + n \in 1 .. Len(all) /\ ~(Len(s) + n <= Len(s)) /\ (Len(s) + n) - Len(s) = n
        BY <1>1, <1>2
    <2> QED
        BY <1>1, <1>2, <2>1
<1>5. ASSUME NEW n \in DOMAIN all
      PROVE  \/ n \in DOMAIN s /\ all[n] = s[n]
             \/ n - Len(s) \in DOMAIN t /\ all[n] = t[n - Len(s)]
    <2>1. n \in 1 .. Len(s) \/ (~(n <= Len(s)) /\ n - Len(s) \in 1 .. Len(t))
        BY <1>1, <1>2
    <2> QED
        BY <1>1, <1>2, <2>1
<1>6. ToSet(all) = ToSet(s) \union ToSet(t)
    <2>1. ASSUME NEW x \in ToSet(all) PROVE x \in ToSet(s) \union ToSet(t)
        BY <1>5, <2>1 DEF ToSet
    <2>2. ASSUME NEW x \in ToSet(s) \union ToSet(t) PROVE x \in ToSet(all)
        <3>1. CASE x \in ToSet(s)
            BY <1>3, <3>1 DEF ToSet
        <3>2. CASE x \in ToSet(t)
            BY <1>4, <3>2 DEF ToSet
        <3> QED
            BY <2>2, <3>1, <3>2
    <2> QED
        BY <2>1, <2>2
<1> QED
    BY <1>6 DEF all

LEMMA PartMembers ==
    ASSUME NEW s \in Seq(Int), NEW a \in Int, NEW b \in Int, 1 <= a, a <= b + 1, b <= Len(s)
    PROVE  /\ SubSeq(s, a, b) \in Seq(Int)
           /\ ToSet(SubSeq(s, a, b)) = {s[k] : k \in a .. b}
<1> DEFINE t == SubSeq(s, a, b)
<1>1. /\ t \in Seq(Int) /\ Len(t) = b + 1 - a
      /\ \A n \in 1 .. b + 1 - a : t[n] = s[n + (a - 1)]
    BY Part
<1> HIDE DEF t
<1>2. DOMAIN t = 1 .. b + 1 - a
    BY <1>1
<1>3. ASSUME NEW n \in DOMAIN t PROVE n + (a - 1) \in a .. b /\ t[n] = s[n + (a - 1)]
    <2>1. n \in 1 .. b + 1 - a
        BY <1>2
    <2>2. n + (a - 1) \in a .. b
        BY <2>1
    <2> QED
        BY <1>1, <2>1, <2>2
<1>4. ASSUME NEW k \in a .. b PROVE k - (a - 1) \in DOMAIN t /\ t[k - (a - 1)] = s[k]
    <2>1. k - (a - 1) \in 1 .. b + 1 - a /\ (k - (a - 1)) + (a - 1) = k
        OBVIOUS
    <2> QED
        BY <1>1, <1>2, <2>1
<1>5. ToSet(t) = {s[k] : k \in a .. b}
    <2>1. ASSUME NEW x \in ToSet(t) PROVE x \in {s[k] : k \in a .. b}
        BY <1>3, <2>1 DEF ToSet
    <2>2. ASSUME NEW k \in a .. b PROVE s[k] \in ToSet(t)
        BY <1>4 DEF ToSet
    <2> QED
        BY <2>1, <2>2
<1> QED
    BY <1>1, <1>5 DEF t

\* A value visits the rows of the other values, and the nulls if they match.
Differing(v) ==
    {call.right.positions[k] : k \in {n \in DOMAIN call.right.values : call.right.values[n] # v}}

LEMMA ValueVisitsDiffering ==
    ASSUME Sound, NEW v \in Int
    PROVE  /\ Below(v) \in Seq(Int) /\ Above(v) \in Seq(Int) /\ MatchingNulls \in Seq(Int)
           /\ ToSet(Below(v)) \union ToSet(Above(v)) = Differing(v)
           /\ ToSet(VisitsOfValue(v)) = Differing(v) \union ToSet(MatchingNulls)
<1> DEFINE positions == call.right.positions
           values == call.right.values
           low == LessEnd(v)
           high == GreaterStart(v)
           p == Len(positions)
<1>1. /\ call.right \in Side /\ Ascends(values) /\ Len(values) = p
      /\ positions \in Seq(Int) /\ values \in Seq(Int) /\ call.right.nulls \in Seq(Int)
    <2>1. call.right \in Side /\ Ascends(values) /\ Len(values) = p
        BY NotEqualsAssumption DEF Sound, IsCall, Call, IsPartition
    <2> QED
        BY <2>1 DEF Side
<1>2. MatchingNulls \in Seq(Int)
    BY <1>1 DEF MatchingNulls
<1>3. low \in Nat /\ high \in Nat /\ low <= high /\ high <= p
    BY <1>1, EndsInside
<1>4. \A n \in DOMAIN values : (n <= low <=> values[n] < v) /\ (n <= high <=> values[n] <= v)
    BY <1>1, EndsDivide
<1>5. Below(v) = SubSeq(positions, 1, low) /\ Above(v) = SubSeq(positions, high + 1, p)
    BY DEF Below, Above
<1>6. VisitsOfValue(v) = (Below(v) \o Above(v)) \o MatchingNulls
    BY DEF VisitsOfValue
<1>7. Differing(v) = {positions[k] : k \in {n \in DOMAIN values : values[n] # v}}
    BY DEF Differing
<1> HIDE DEF positions, values, low, high
<1>8. p \in Nat /\ DOMAIN values = 1 .. p /\ \A n \in 1 .. p : values[n] \in Int
    BY <1>1
<1>9. Below(v) \in Seq(Int) /\ ToSet(Below(v)) = {positions[k] : k \in 1 .. low}
    <2>1. 1 \in Int /\ low \in Int /\ 1 <= low + 1 /\ low <= Len(positions)
        BY <1>3
    <2> QED
        BY <1>1, <1>5, <2>1, PartMembers
<1>10. Above(v) \in Seq(Int) /\ ToSet(Above(v)) = {positions[k] : k \in high + 1 .. p}
    <2> DEFINE a == high + 1
    <2>1. a \in Int /\ p \in Int /\ 1 <= a /\ a <= p + 1 /\ p <= Len(positions)
        BY <1>3, <1>8
    <2> HIDE DEF a, p
    <2>2. SubSeq(positions, a, p) \in Seq(Int) /\ ToSet(SubSeq(positions, a, p)) = {positions[k] : k \in a .. p}
        BY <1>1, <2>1, PartMembers
    <2> QED
        BY <1>5, <2>2 DEF a, p
<1> HIDE DEF p
<1>11. {n \in 1 .. p : values[n] # v} = (1 .. low) \union (high + 1 .. p)
    <2>1. ASSUME NEW n \in 1 .. p
          PROVE  values[n] # v <=> n \in (1 .. low) \union (high + 1 .. p)
        <3>1. values[n] # v <=> n <= low \/ ~(n <= high)
            BY <1>4, <1>8
        <3> QED
            BY <1>3, <1>8, <3>1
    <2>2. (1 .. low) \union (high + 1 .. p) \subseteq 1 .. p
        BY <1>3, <1>8
    <2> QED
        BY <2>1, <2>2
<1>12. ToSet(Below(v)) \union ToSet(Above(v)) = Differing(v)
    BY <1>7, <1>8, <1>9, <1>10, <1>11
<1>13. /\ Below(v) \o Above(v) \in Seq(Int)
       /\ ToSet(Below(v) \o Above(v)) = ToSet(Below(v)) \union ToSet(Above(v))
    BY <1>9, <1>10, Appended, AppendedMembers
<1>14. ToSet(VisitsOfValue(v)) = ToSet(Below(v) \o Above(v)) \union ToSet(MatchingNulls)
    <2> DEFINE near == Below(v) \o Above(v)
               rest == MatchingNulls
    <2>1. near \in Seq(Int) /\ rest \in Seq(Int) /\ VisitsOfValue(v) = near \o rest
        BY <1>2, <1>6, <1>13
    <2> HIDE DEF near, rest
    <2>2. ToSet(near \o rest) = ToSet(near) \union ToSet(rest)
        BY <2>1, AppendedMembers
    <2> QED
        BY <2>1, <2>2 DEF near, rest
<1> QED
    BY <1>2, <1>9, <1>10, <1>12, <1>13, <1>14

\* The value of a row, by its place in the maps of its side.
LEMMA SideValues ==
    ASSUME NEW side \in Side, IsPartition(side)
    PROVE  /\ \A k \in DOMAIN side.positions :
                /\ ValuesOf(side, side.positions[k]) = {side.values[k]}
                /\ side.positions[k] \in RowsOf(side)
           /\ \A k \in DOMAIN side.nulls :
                /\ ValuesOf(side, side.nulls[k]) = {}
                /\ side.nulls[k] \in RowsOf(side)
           /\ \A j \in RowsOf(side) :
                \/ \E k \in DOMAIN side.positions : side.positions[k] = j
                \/ \E k \in DOMAIN side.nulls : side.nulls[k] = j
           /\ DOMAIN side.values = DOMAIN side.positions
<1>1. /\ \A m, n \in DOMAIN side.positions : side.positions[m] = side.positions[n] => m = n
      /\ \A m \in DOMAIN side.positions, n \in DOMAIN side.nulls :
            side.positions[m] # side.nulls[n]
    BY MapsNameRowsOnce
<1>2. DOMAIN side.values = DOMAIN side.positions
    <2> DEFINE s == side.values
               t == side.positions
    <2>1. s \in Seq(Int) /\ t \in Seq(Int) /\ Len(s) = Len(t)
        BY DEF Side, IsPartition
    <2> HIDE DEF s, t
    <2>2. DOMAIN s = DOMAIN t
        BY <2>1
    <2> QED
        BY <2>2 DEF s, t
<1>3. ASSUME NEW k \in DOMAIN side.positions
      PROVE  ValuesOf(side, side.positions[k]) = {side.values[k]}
    <2>1. {m \in DOMAIN side.values : side.positions[m] = side.positions[k]} = {k}
        BY <1>1, <1>2
    <2> QED
        BY <2>1 DEF ValuesOf
<1>4. ASSUME NEW k \in DOMAIN side.nulls PROVE ValuesOf(side, side.nulls[k]) = {}
    BY <1>1, <1>2 DEF ValuesOf
<1>5. \A n \in DOMAIN Listed(side) : Listed(side)[n] \in RowsOf(side)
    BY DEF IsPartition
<1>6. ASSUME NEW j \in RowsOf(side)
      PROVE  \/ \E k \in DOMAIN side.positions : side.positions[k] = j
             \/ \E k \in DOMAIN side.nulls : side.nulls[k] = j
    <2>1. PICK n \in DOMAIN Listed(side) : Listed(side)[n] = j
        BY PartitionNamesEveryRow
    <2> QED
        BY <2>1, MapsAreListed
<1>7. /\ \A k \in DOMAIN side.positions : side.positions[k] \in RowsOf(side)
      /\ \A k \in DOMAIN side.nulls : side.nulls[k] \in RowsOf(side)
    BY <1>5, MapsAreListed
<1> QED
    BY <1>2, <1>3, <1>4, <1>6, <1>7

\* The left row's value, in the words of the promise and of the walk.
LEMMA LeftValues ==
    ASSUME Sound, NEW i \in RowsOf(call.left)
    PROVE  /\ NamesValue(i) => ValuesOf(call.left, i) = {ValueOf(i)} /\ ValueOf(i) \in Int
           /\ ~NamesValue(i) => ValuesOf(call.left, i) = {}
<1>1. call.left \in Side /\ IsPartition(call.left)
    BY SoundFacts DEF Sound
<1>2. CASE NamesValue(i)
    <2> DEFINE k == CHOOSE m \in DOMAIN call.left.positions : call.left.positions[m] = i
    <2>1. k \in DOMAIN call.left.positions /\ call.left.positions[k] = i
        BY <1>2 DEF NamesValue
    <2>2. ValueOf(i) = call.left.values[k]
        BY DEF ValueOf
    <2> HIDE DEF k
    <2>3. ValuesOf(call.left, i) = {ValueOf(i)} /\ k \in DOMAIN call.left.values
        BY <1>1, <2>1, <2>2, SideValues
    <2>4. call.left.values \in Seq(Int)
        BY SoundFacts
    <2> QED
        BY <1>2, <2>2, <2>3, <2>4
<1>3. CASE ~NamesValue(i)
    <2>1. PICK k \in DOMAIN call.left.nulls : call.left.nulls[k] = i
        BY <1>1, <1>3, SideValues DEF NamesValue
    <2> QED
        BY <1>1, <1>3, <2>1, SideValues
<1> QED
    BY <1>2, <1>3

\* What a row visits is what the predicate lets it match.
Comparable(i, j) ==
    IF ValuesOf(call.left, i) = {} \/ ValuesOf(call.right, j) = {}
    THEN ~call.is_extension_array
    ELSE ValuesOf(call.left, i) # ValuesOf(call.right, j)

LEMMA VisitedAreComparable ==
    ASSUME Sound, NEW i \in RowsOf(call.left)
    PROVE  \A j : j \in ToSet(VisitsAt(i)) <=> j \in RowsOf(call.right) /\ Comparable(i, j)
<1> DEFINE side == call.right
<1>1. /\ side \in Side /\ IsPartition(side)
      /\ \A k \in DOMAIN side.positions :
            ValuesOf(side, side.positions[k]) = {side.values[k]} /\ side.positions[k] \in RowsOf(side)
      /\ \A k \in DOMAIN side.nulls :
            ValuesOf(side, side.nulls[k]) = {} /\ side.nulls[k] \in RowsOf(side)
      /\ \A j \in RowsOf(side) :
            \/ \E k \in DOMAIN side.positions : side.positions[k] = j
            \/ \E k \in DOMAIN side.nulls : side.nulls[k] = j
      /\ DOMAIN side.values = DOMAIN side.positions
    <2>1. side \in Side /\ IsPartition(side)
        BY SoundFacts DEF Sound
    <2> HIDE DEF side
    <2> QED
        BY <2>1, SideValues
<1>2. ToSet(MatchingNulls) =
        IF call.is_extension_array THEN {} ELSE {side.nulls[k] : k \in DOMAIN side.nulls}
    BY DEF MatchingNulls, ToSet
<1>3. CASE NamesValue(i)
    <2> DEFINE v == ValueOf(i)
    <2>1. ValuesOf(call.left, i) = {v} /\ v \in Int /\ VisitsAt(i) = VisitsOfValue(v)
        BY <1>3, LeftValues DEF VisitsAt
    <2> HIDE DEF v
    <2>2. ToSet(VisitsAt(i)) = Differing(v) \union ToSet(MatchingNulls)
        BY <2>1, ValueVisitsDiffering
    <2>3. ASSUME NEW j \in RowsOf(side), NEW k \in DOMAIN side.positions, side.positions[k] = j
          PROVE  j \in ToSet(VisitsAt(i)) <=> Comparable(i, j)
        <3>1. ValuesOf(side, j) = {side.values[k]}
            BY <1>1, <2>3
        <3>2. j \notin ToSet(MatchingNulls)
            <4>1. \A n \in DOMAIN side.nulls : side.nulls[n] # j
                BY <1>1, <3>1
            <4> QED
                BY <1>2, <4>1
        <3>3. j \in Differing(v) <=> side.values[k] # v
            <4>1. \A n \in DOMAIN side.positions : side.positions[n] = j => n = k
                BY <1>1, <2>3, MapsNameRowsOnce
            <4> QED
                BY <1>1, <2>3, <4>1 DEF Differing
        <3>4. Comparable(i, j) <=> side.values[k] # v
            BY <2>1, <3>1 DEF Comparable
        <3> QED
            BY <2>2, <3>2, <3>3, <3>4
    <2>4. ASSUME NEW j \in RowsOf(side), NEW k \in DOMAIN side.nulls, side.nulls[k] = j
          PROVE  j \in ToSet(VisitsAt(i)) <=> Comparable(i, j)
        <3>1. ValuesOf(side, j) = {}
            BY <1>1, <2>4
        <3>2. j \notin Differing(v)
            BY <1>1, <3>1 DEF Differing
        <3>3. j \in ToSet(MatchingNulls) <=> ~call.is_extension_array
            BY <1>2, <2>4
        <3> QED
            BY <2>2, <3>1, <3>2, <3>3 DEF Comparable
    <2>5. ToSet(VisitsAt(i)) \subseteq RowsOf(side)
        BY <1>1, <1>2, <2>2 DEF Differing
    <2> QED
        BY <1>1, <2>3, <2>4, <2>5
<1>4. CASE ~NamesValue(i)
    <2>1. ValuesOf(call.left, i) = {} /\ VisitsAt(i) = VisitsOfNull
        BY <1>4, LeftValues DEF VisitsAt
    <2>2. ToSet(VisitsOfNull) = IF call.is_extension_array THEN {} ELSE RowsOf(side)
        <3>1. ToSet(Listed(side)) = RowsOf(side)
            <4>1. \A n \in DOMAIN Listed(side) : Listed(side)[n] \in RowsOf(side)
                BY <1>1 DEF IsPartition
            <4>2. \A j \in RowsOf(side) : \E n \in DOMAIN Listed(side) : Listed(side)[n] = j
                <5> SUFFICES ASSUME NEW j \in RowsOf(side)
                             PROVE  \E n \in DOMAIN Listed(side) : Listed(side)[n] = j
                    OBVIOUS
                <5> HIDE DEF side
                <5> QED
                    BY <1>1, PartitionNamesEveryRow
            <4> QED
                BY <4>1, <4>2 DEF ToSet
        <3>2. ToSet(<<>>) = {}
            BY DEF ToSet
        <3> QED
            BY <3>1, <3>2 DEF VisitsOfNull
    <2> QED
        BY <2>1, <2>2 DEF Comparable
<1> QED
    BY <1>3, <1>4

LEMMA MatchingAreAccepted ==
    ASSUME Sound, NEW i \in RowsOf(call.left)
    PROVE  MatchingRows(i) = {VisitsAt(i)[n] : n \in PlacesAt(i)}
<1> DEFINE visits == VisitsAt(i)
<1>1. \A j : j \in ToSet(visits) <=> j \in RowsOf(call.right) /\ Comparable(i, j)
    BY VisitedAreComparable
<1>2. \A j : j \in MatchingRows(i) <=>
            j \in RowsOf(call.right) /\ Comparable(i, j) /\ <<i, j>> \in call.residual
    BY DEF MatchingRows, Matches, Comparable
<1>3. PlacesAt(i) = {n \in DOMAIN visits : <<i, visits[n]>> \in call.residual}
    BY DEF PlacesAt
<1>4. \A j : j \in ToSet(visits) <=> \E n \in DOMAIN visits : visits[n] = j
    BY DEF ToSet
<1> HIDE DEF visits
<1>5. \A j : j \in MatchingRows(i) <=> \E n \in PlacesAt(i) : visits[n] = j
    BY <1>1, <1>2, <1>3, <1>4
<1> QED
    BY <1>5 DEF visits

\* The rows a walk accepts at its row are the rows that match it, in the order
\* of the visits; there are none exactly if none is counted.
LEMMA AcceptedAreMatching ==
    ASSUME Sound, Merged, row < call.left.len
    PROVE  /\ ToSet(Accepted) = MatchingRows(row)
           /\ Accepted = <<>> <=> MatchingRows(row) = {}
           /\ Len(Accepted) = 0 <=> MatchingRows(row) = {}
<1> DEFINE K == PlacesAt(row)
           visits == VisitsAt(row)
           places == Ascending(K)
<1>1. Visits = visits /\ row \in RowsOf(call.left)
    BY WalkVisits
<1>2. K = {n \in DOMAIN visits : <<row, visits[n]>> \in call.residual}
    BY DEF PlacesAt
<1>3. Accepted = [n \in DOMAIN places |-> visits[places[n]]]
    BY <1>1, <1>2 DEF Accepted, AcceptedPlaces
<1>4. MatchingRows(row) = {visits[n] : n \in K}
    BY <1>1, MatchingAreAccepted
<1>5. visits \in Seq(Int)
    BY VisitsAtTypes
<1> HIDE DEF visits
<1>6. K \in SUBSET Int /\ IsFiniteSet(K)
    <2> DEFINE last == Len(visits)
    <2>1. last \in Nat /\ DOMAIN visits = 1 .. last
        BY <1>5
    <2>2. K \subseteq 1 .. last
        BY <1>2, <2>1
    <2> HIDE DEF last, K
    <2>3. IsFiniteSet(1 .. last)
        BY <2>1, 1 \in Int, FS_Interval
    <2>4. 1 .. last \subseteq Int
        BY <2>1
    <2> QED
        BY <2>2, <2>3, <2>4, FS_Subset
<1> HIDE DEF K
<1>7. /\ Cardinality(K) \in Nat /\ places \in Seq(Int) /\ Len(places) = Cardinality(K)
      /\ \A n \in 1 .. Cardinality(K) : places[n] \in K
      /\ \A p \in K : Rank(K, p) + 1 \in 1 .. Cardinality(K) /\ places[Rank(K, p) + 1] = p
    BY <1>6, AscendingListsRows
<1> HIDE DEF places
<1>8. DOMAIN places = 1 .. Cardinality(K) /\ DOMAIN Accepted = 1 .. Cardinality(K)
    BY <1>3, <1>7
<1>9. ToSet(Accepted) = MatchingRows(row)
    <2>1. ASSUME NEW j \in ToSet(Accepted) PROVE j \in MatchingRows(row)
        <3>1. PICK n \in 1 .. Cardinality(K) : j = visits[places[n]]
            BY <1>3, <1>8, <2>1 DEF ToSet
        <3> QED
            BY <1>4, <1>7, <3>1
    <2>2. ASSUME NEW p \in K PROVE visits[p] \in ToSet(Accepted)
        <3>1. Rank(K, p) + 1 \in DOMAIN Accepted /\ Accepted[Rank(K, p) + 1] = visits[p]
            BY <1>3, <1>7, <1>8
        <3> QED
            BY <3>1 DEF ToSet
    <2> QED
        BY <1>4, <2>1, <2>2
<1>10. Accepted \in Seq(Int)
    BY AcceptedFacts
<1>11. Len(Accepted) = 0 <=> Accepted = <<>>
    <2> DEFINE a == Accepted
    <2>1. a \in Seq(Int)
        BY <1>10
    <2> HIDE DEF a
    <2>2. Len(a) = 0 <=> a = <<>>
        BY <2>1
    <2> QED
        BY <2>2 DEF a
<1>12. ToSet(Accepted) = {} <=> Len(Accepted) = 0
    <2> DEFINE a == Accepted
    <2>1. a \in Seq(Int)
        BY <1>10
    <2> HIDE DEF a
    <2>2. DOMAIN a = 1 .. Len(a) /\ Len(a) \in Nat
        BY <2>1
    <2>3. ToSet(a) = {} <=> DOMAIN a = {}
        BY DEF ToSet
    <2>4. DOMAIN a = {} <=> Len(a) = 0
        BY <2>2
    <2>5. ToSet(a) = {} <=> Len(a) = 0
        BY <2>3, <2>4
    <2> QED
        BY <2>5 DEF a
<1> QED
    BY <1>9, <1>11, <1>12

-----------------------------------------------------------------------------
\* What has been put out, as pairs of rows.

RightOf(pair) == IF Reversed THEN pair[1] ELSE pair[2]

\* The partners that a list of pairs gives a left row.
Partners(pairs, i) == {RightOf(p) : p \in {q \in ToSet(pairs) : LeftOf(q) = i}}

\* What a step that keeps the call leaves as emitted.
LEMMA EmittedArePartners ==
    ASSUME call' = call, NEW i
    PROVE  Emitted(i)' = Partners(output', i)
<1>1. Reversed' <=> Reversed
    BY DEF Reversed
<1>2. ASSUME NEW j PROVE j \in Emitted(i)' <=> \E n \in DOMAIN output' :
                            LeftOf(output'[n]) = i /\ RightOf(output'[n]) = j
    BY <1>1 DEF Emitted, LeftOf, RightOf
<1>3. ASSUME NEW j PROVE j \in Partners(output', i) <=> \E n \in DOMAIN output' :
                            LeftOf(output'[n]) = i /\ RightOf(output'[n]) = j
    BY DEF Partners, ToSet
<1> QED
    BY <1>2, <1>3

LEMMA NoPartners == \A i : Partners(<<>>, i) = {}
<1>1. ToSet(<<>>) = {}
    BY DEF ToSet
<1> QED
    BY <1>1 DEF Partners

LEMMA RowPutsOut ==
    ASSUME NEW s \in Seq(Int \X Int), NEW f \in Seq(Int), row \in Int, NEW i
    PROVE  Partners(s \o [n \in DOMAIN f |-> Pair(f[n])], i) =
                Partners(s, i) \union (IF i = row THEN ToSet(f) ELSE {})
<1> DEFINE g == [n \in DOMAIN f |-> Pair(f[n])]
           Pairs == Int \X Int
<1>1. g \in Seq(Pairs) /\ s \in Seq(Pairs)
    BY PairsList
<1>2. ToSet(g) = {Pair(j) : j \in ToSet(f)}
    BY DEF ToSet
<1>3. \A j : LeftOf(Pair(j)) = row /\ RightOf(Pair(j)) = j
    BY DEF LeftOf, RightOf, Pair, Reversed
<1> HIDE DEF g, Pairs
<1>4. ToSet(s \o g) = ToSet(s) \union ToSet(g)
    BY <1>1, AppendedMembers
<1>5. Partners(s \o g, i) = Partners(s, i) \union Partners(g, i)
    BY <1>4 DEF Partners
<1>6. Partners(g, i) = IF i = row THEN ToSet(f) ELSE {}
    <2>1. ASSUME NEW x \in Partners(g, i) PROVE i = row /\ x \in ToSet(f)
        <3>1. PICK p \in ToSet(g) : LeftOf(p) = i /\ x = RightOf(p)
            BY <2>1 DEF Partners
        <3>2. PICK j \in ToSet(f) : p = Pair(j)
            BY <1>2, <3>1
        <3> QED
            BY <1>3, <3>1, <3>2
    <2>2. ASSUME NEW x \in ToSet(f), i = row PROVE x \in Partners(g, i)
        <3>1. Pair(x) \in ToSet(g) /\ LeftOf(Pair(x)) = i /\ RightOf(Pair(x)) = x
            BY <1>2, <1>3, <2>2
        <3> QED
            BY <3>1 DEF Partners
    <2> QED
        BY <2>1, <2>2
<1> QED
    BY <1>5, <1>6 DEF g

LEMMA OnePutsOut ==
    ASSUME NEW s \in Seq(Int \X Int), NEW k \in Int, NEW j \in Int, ~Reversed, NEW i
    PROVE  /\ Append(s, <<k, j>>) \in Seq(Int \X Int)
           /\ Partners(Append(s, <<k, j>>), i) = Partners(s, i) \union (IF i = k THEN {j} ELSE {})
<1> DEFINE t == Append(s, <<k, j>>)
           Pairs == Int \X Int
           pair == <<k, j>>
<1>1. pair \in Pairs /\ s \in Seq(Pairs)
    OBVIOUS
<1>2. LeftOf(pair) = k /\ RightOf(pair) = j
    BY DEF LeftOf, RightOf
<1> HIDE DEF pair, Pairs
<1>3. /\ Append(s, pair) \in Seq(Pairs) /\ Len(Append(s, pair)) = Len(s) + 1
      /\ \A n \in 1 .. Len(s) : Append(s, pair)[n] = s[n]
      /\ Append(s, pair)[Len(s) + 1] = pair
    BY <1>1
<1>4. ToSet(Append(s, pair)) = ToSet(s) \union {pair}
    <2> DEFINE u == Append(s, pair)
    <2>1. /\ DOMAIN u = 1 .. Len(s) + 1 /\ DOMAIN s = 1 .. Len(s) /\ Len(s) \in Nat
        BY <1>1, <1>3
    <2>2. /\ \A n \in 1 .. Len(s) : u[n] = s[n]
          /\ u[Len(s) + 1] = pair
        BY <1>3
    <2> HIDE DEF u
    <2>3. DOMAIN u = DOMAIN s \union {Len(s) + 1}
        BY <2>1
    <2>4. ToSet(u) = ToSet(s) \union {pair}
        <3>1. ASSUME NEW x \in ToSet(u) PROVE x \in ToSet(s) \union {pair}
            BY <2>1, <2>2, <2>3, <3>1 DEF ToSet
        <3>2. ASSUME NEW x \in ToSet(s) PROVE x \in ToSet(u)
            BY <2>1, <2>2, <2>3, <3>2 DEF ToSet
        <3>3. pair \in ToSet(u)
            BY <2>2, <2>3 DEF ToSet
        <3> QED
            BY <3>1, <3>2, <3>3
    <2> QED
        BY <2>4 DEF u
<1>5. Partners(Append(s, pair), i) = Partners(s, i) \union (IF i = k THEN {j} ELSE {})
    BY <1>2, <1>4 DEF Partners
<1> QED
    BY <1>3, <1>5 DEF pair, Pairs

-----------------------------------------------------------------------------
\* The choice of one partner.

LEMMA LeastMember ==
    ASSUME NEW S \in SUBSET Nat, S # {}
    PROVE  Min(S) \in S /\ \A x \in S : Min(S) <= x
<1>1. \E m \in S : \A x \in S : m <= x
    BY LeastNatural
<1>2. Min(S) = CHOOSE m \in S : \A x \in S : m <= x
    BY DEF Min
<1> QED
    BY <1>1, <1>2, Zenon

LEMMA GreatestMember ==
    ASSUME NEW b \in Int, NEW S \in SUBSET (0 .. b), S # {}
    PROVE  Max(S) \in S /\ \A x \in S : Max(S) >= x
<1> DEFINE T == {b - x : x \in S}
<1>1. T \in SUBSET Nat /\ T # {}
    <2>1. \A x \in S : b - x \in Nat
        OBVIOUS
    <2> QED
        BY <2>1
<1>2. PICK t \in T : \A u \in T : t <= u
    BY <1>1, LeastNatural
<1>3. PICK m \in S : t = b - m
    BY <1>2
<1>4. \A x \in S : m >= x
    <2> SUFFICES ASSUME NEW x \in S PROVE m >= x
        OBVIOUS
    <2>1. b - x \in T
        OBVIOUS
    <2>2. t <= b - x
        BY <1>2, <2>1
    <2> QED
        BY <1>3, <2>2
<1>5. Max(S) = CHOOSE m2 \in S : \A x \in S : m2 >= x
    BY DEF Max
<1> QED
    BY <1>4, <1>5, Zenon

LEMMA ExtremeIsMember ==
    ASSUME Sound, NEW S \in SUBSET RowsOf(call.right), S # {}
    PROVE  /\ Extreme(S) \in S
           /\ call.keep = "first" => \A x \in S : Extreme(S) <= x
           /\ call.keep # "first" => \A x \in S : Extreme(S) >= x
<1> DEFINE last == call.right.len - 1
<1>1. call.right.len \in Nat
    BY SoundFacts DEF Side
<1>2. last \in Int /\ S \in SUBSET (0 .. last) /\ S \in SUBSET Nat
    BY <1>1 DEF RowsOf
<1> HIDE DEF last
<1>3. /\ Min(S) \in S /\ \A x \in S : Min(S) <= x
      /\ Max(S) \in S /\ \A x \in S : Max(S) >= x
    BY <1>2, LeastMember, GreatestMember
<1> QED
    BY <1>3 DEF Extreme

\* What a policy that keeps one may choose among M: none only if there is none.
Picks(x, M) ==
    /\ M = {} => x = None
    /\ M # {} => /\ x \in M
                 /\ call.keep = "first" => \A m \in M : x <= m
                 /\ call.keep = "last" => \A m \in M : x >= m

LEMMA ChosenIsPicked ==
    ASSUME Sound, Merged, row < call.left.len
    PROVE  Picks(Chosen(Accepted), MatchingRows(row))
<1>1. /\ ToSet(Accepted) = MatchingRows(row)
      /\ Accepted = <<>> <=> MatchingRows(row) = {}
    BY AcceptedAreMatching
<1>2. MatchingRows(row) \in SUBSET RowsOf(call.right)
    BY DEF MatchingRows
<1>3. CASE Accepted = <<>>
    BY <1>1, <1>3 DEF Chosen, Picks
<1>4. CASE Accepted # <<>> /\ call.keep = "any"
    <2>1. Accepted \in Seq(Int)
        BY AcceptedFacts
    <2>2. Chosen(Accepted) = Head(Accepted)
        BY <1>4 DEF Chosen
    <2>3. Head(Accepted) \in ToSet(Accepted)
        <3> DEFINE a == Accepted
        <3>1. a \in Seq(Int) /\ a # <<>>
            BY <1>4, <2>1
        <3> HIDE DEF a
        <3>2. 1 \in DOMAIN a /\ Head(a) = a[1]
            BY <3>1
        <3>3. Head(a) \in ToSet(a)
            BY <3>2 DEF ToSet
        <3> QED
            BY <3>3 DEF a
    <2> QED
        BY <1>1, <1>4, <2>2, <2>3 DEF Picks
<1>5. CASE Accepted # <<>> /\ call.keep # "any"
    <2>1. Chosen(Accepted) = Extreme(MatchingRows(row)) /\ MatchingRows(row) # {}
        BY <1>1, <1>5 DEF Chosen
    <2> QED
        BY <1>2, <2>1, ExtremeIsMember DEF Picks
<1> QED
    BY <1>3, <1>4, <1>5

LEMMA SelectedIsPicked ==
    ASSUME Sound, NEW v \in Int
    PROVE  Picks(SelectedOfValue(v), ToSet(VisitsOfValue(v)))
<1> DEFINE parts == <<Below(v), Above(v), MatchingNulls>>
           found == {n \in DOMAIN parts : parts[n] # <<>>}
           all == ToSet(VisitsOfValue(v))
<1>1. \A n \in 1 .. 3 : parts[n] \in Seq(Int)
    <2>1. parts[1] \in Seq(Int) /\ parts[2] \in Seq(Int) /\ parts[3] \in Seq(Int)
        BY ValueVisitsDiffering
    <2>2. \A n \in 1 .. 3 : n = 1 \/ n = 2 \/ n = 3
        OBVIOUS
    <2> HIDE DEF parts
    <2> QED
        BY <2>1, <2>2
<1>2. all = ToSet(parts[1]) \union ToSet(parts[2]) \union ToSet(parts[3])
    BY ValueVisitsDiffering
<1>3. all \in SUBSET RowsOf(call.right)
    BY SoundFacts, ValueVisits DEF Sound, ToSet
<1>4. SelectedOfValue(v) =
        IF found = {} THEN None
        ELSE IF call.keep = "any" THEN Head(parts[Min(found)])
        ELSE Extreme({Extreme(ToSet(parts[n])) : n \in found})
    BY DEF SelectedOfValue
<1>5. DOMAIN parts = 1 .. 3
    OBVIOUS
<1> HIDE DEF parts, all
<1>6. ASSUME NEW n \in 1 .. 3
      PROVE  /\ n \notin found => ToSet(parts[n]) = {}
             /\ n \in found => ToSet(parts[n]) # {} /\ Head(parts[n]) \in ToSet(parts[n])
    <2> DEFINE s == parts[n]
    <2>1. s \in Seq(Int) /\ (n \in found <=> s # <<>>)
        BY <1>1, <1>5
    <2> HIDE DEF s, found
    <2>2. s # <<>> => 1 \in DOMAIN s /\ Head(s) = s[1]
        BY <2>1
    <2>3. s = <<>> => ToSet(s) = {}
        BY DEF ToSet
    <2>4. s # <<>> => ToSet(s) # {} /\ Head(s) \in ToSet(s)
        BY <2>2 DEF ToSet
    <2> QED
        BY <2>1, <2>3, <2>4 DEF s
<1>7. found \in SUBSET (1 .. 3)
    BY <1>5
<1> HIDE DEF found
<1>8. all = UNION {ToSet(parts[n]) : n \in found}
    <2>1. all = UNION {ToSet(parts[n]) : n \in 1 .. 3}
        <3>1. 1 \in 1 .. 3 /\ 2 \in 1 .. 3 /\ 3 \in 1 .. 3 /\ \A n \in 1 .. 3 : n = 1 \/ n = 2 \/ n = 3
            OBVIOUS
        <3> QED
            BY <1>2, <3>1
    <2> QED
        BY <1>6, <1>7, <2>1
<1>9. CASE found = {}
    <2>1. all = {} /\ SelectedOfValue(v) = None
        BY <1>4, <1>8, <1>9
    <2> QED
        BY <2>1 DEF Picks, all
<1>10. CASE found # {} /\ call.keep = "any"
    <2>1. found \in SUBSET Nat
        BY <1>7
    <2>2. Min(found) \in found
        BY <1>10, <2>1, LeastMember
    <2>3. Head(parts[Min(found)]) \in all
        BY <1>6, <1>7, <1>8, <2>2
    <2> QED
        BY <1>4, <1>10, <2>3 DEF Picks, all
<1>11. CASE found # {} /\ call.keep # "any"
    <2> DEFINE best == {Extreme(ToSet(parts[n])) : n \in found}
    <2>1. ASSUME NEW n \in found
          PROVE  /\ ToSet(parts[n]) \in SUBSET RowsOf(call.right) /\ ToSet(parts[n]) # {}
                 /\ Extreme(ToSet(parts[n])) \in ToSet(parts[n])
                 /\ call.keep = "first" =>
                        \A x \in ToSet(parts[n]) : Extreme(ToSet(parts[n])) <= x
                 /\ call.keep # "first" =>
                        \A x \in ToSet(parts[n]) : Extreme(ToSet(parts[n])) >= x
        <3>1. ToSet(parts[n]) \in SUBSET RowsOf(call.right) /\ ToSet(parts[n]) # {}
            BY <1>3, <1>6, <1>7, <1>8
        <3> QED
            BY <3>1, ExtremeIsMember
    <2>2. best \in SUBSET all /\ best # {}
        BY <1>8, <1>11, <2>1
    <2>3. best \in SUBSET RowsOf(call.right)
        BY <1>3, <2>2
    <2>4. \A x \in all : \E n \in found : x \in ToSet(parts[n])
        BY <1>8
    <2>5. \A n \in found : Extreme(ToSet(parts[n])) \in best
        OBVIOUS
    <2>6. SelectedOfValue(v) = Extreme(best)
        BY <1>4, <1>11
    <2>7. \A x \in all : x \in Int
        <3>1. call.right.len \in Nat
            BY SoundFacts DEF Side
        <3> QED
            BY <1>3, <3>1 DEF RowsOf
    <2> HIDE DEF best
    <2>8. /\ Extreme(best) \in best
          /\ call.keep = "first" => \A x \in best : Extreme(best) <= x
          /\ call.keep # "first" => \A x \in best : Extreme(best) >= x
        BY <2>2, <2>3, ExtremeIsMember
    <2>9. ASSUME NEW x \in all
          PROVE  /\ call.keep = "first" => Extreme(best) <= x
                 /\ call.keep # "first" => Extreme(best) >= x
        <3>1. PICK n \in found : x \in ToSet(parts[n])
            BY <2>4
        <3> DEFINE e == Extreme(ToSet(parts[n]))
                   b == Extreme(best)
        <3>2. /\ e \in best /\ (call.keep = "first" => e <= x) /\ (call.keep # "first" => e >= x)
            BY <2>1, <2>5, <3>1
        <3>3. (call.keep = "first" => b <= e) /\ (call.keep # "first" => b >= e)
            BY <2>8, <3>2
        <3>4. e \in Int /\ b \in Int /\ x \in Int
            BY <2>2, <2>7, <2>8, <3>2
        <3> HIDE DEF e, b
        <3>5. (call.keep = "first" => b <= x) /\ (call.keep # "first" => b >= x)
            BY <3>2, <3>3, <3>4
        <3> QED
            BY <3>5 DEF b
    <2>10. Picks(Extreme(best), all)
        BY <2>2, <2>8, <2>9 DEF Picks
    <2> QED
        BY <2>6, <2>10 DEF all
<1> QED
    BY <1>9, <1>10, <1>11

-----------------------------------------------------------------------------
\* The rows answered so far.

\* What direct selection has put out for a row from the first r values.
SelectedBefore(i, r) ==
    {SelectedOfValue(call.left.values[k]) :
        k \in {n \in 1 .. r : call.left.positions[n] = i}} \ {None}

AnswerInv ==
    /\ pc = "validate" => selected = [i \in RowsOf(call.left) |-> None]
    /\ pc \in {"count", "emit"} => call.keep = "all"
    /\ pc = "count" /\ count = 0 =>
        \A i \in RowsOf(call.left) : i < row => MatchingRows(i) = {}
    /\ pc = "emit" =>
        \A i : Partners(output, i) =
            IF i \in RowsOf(call.left) /\ i < row THEN MatchingRows(i) ELSE {}
    /\ pc = "choose" =>
        /\ DOMAIN selected = RowsOf(call.left)
        /\ \A i \in RowsOf(call.left) : i < row => Picks(selected[i], MatchingRows(i))
    /\ pc = "select" =>
        /\ row \in 0 .. Len(call.left.positions)
        /\ output \in Seq(Int \X Int)
        /\ \A i : Partners(output, i) = SelectedBefore(i, row)

LEMMA AnswerInit == Init => AnswerInv
    BY DEF Init, AnswerInv

LEMMA RequestStays ==
    ASSUME call' = call
    PROVE  /\ \A i : MatchingRows(i)' = MatchingRows(i)
           /\ \A x, M : Picks(x, M)' = Picks(x, M)
           /\ \A v : SelectedOfValue(v)' = SelectedOfValue(v)
           /\ \A i, r : SelectedBefore(i, r)' = SelectedBefore(i, r)
           /\ \A i : Partners(output, i)' = Partners(output', i)
           /\ Reversed' = Reversed /\ Request' = Request
<1>1. \A i : MatchingRows(i)' = MatchingRows(i)
    BY DEF MatchingRows, RowsOf, Matches, ValuesOf
<1>2. \A v : SelectedOfValue(v)' = SelectedOfValue(v)
    BY DEF SelectedOfValue, Below, Above, LessEnd, GreaterStart, MatchingNulls, Extreme
<1>3. \A i, r : SelectedBefore(i, r)' = SelectedBefore(i, r)
    BY <1>2 DEF SelectedBefore
<1>4. \A i : Partners(output, i)' = Partners(output', i)
    BY DEF Partners, LeftOf, RightOf, Reversed
<1>5. Request' = Request
    <2>1. Valid' <=> Valid
        BY DEF Valid, IsPartition, Complete, RowsOf, Listed, Distinct
    <2>2. [i \in LeftRows |-> MatchingRows(i)]' = [i \in LeftRows |-> MatchingRows(i)]
        BY <1>1 DEF LeftRows, RowsOf
    <2>3. [i \in LeftRows |-> {}]' = [i \in LeftRows |-> {}]
        BY DEF LeftRows, RowsOf
    <2> QED
        BY <2>1, <2>2, <2>3, Zenon DEF Request
<1> QED
    BY <1>1, <1>2, <1>3, <1>4, <1>5 DEF Picks, Reversed

LEMMA LeftRowsAre ==
    ASSUME Sound
    PROVE  /\ call.left.len \in Nat
           /\ \A i \in RowsOf(call.left) : i \in Int /\ 0 <= i /\ i < call.left.len
<1>1. call.left.len \in Nat
    BY SoundFacts
<1> QED
    BY <1>1 DEF RowsOf

LEMMA AnswerCounted ==
    ASSUME Sound, Merged, CountRow, count = Total[row],
           count = 0 => \A i \in RowsOf(call.left) : i < row => MatchingRows(i) = {},
           count' = 0, NEW i \in RowsOf(call.left), i < row'
    PROVE  MatchingRows(i) = {}
<1>1. row < call.left.len /\ row' = row + 1 /\ count' = count + Len(Accepted) /\ row \in Nat
    BY DEF CountRow, WalkRow, Merged
<1>2. count \in Nat
    BY <1>1, TotalAddsUp, LeftRowsAre
<1>3. Len(Accepted) \in Nat
    BY <1>1, AcceptedFacts, VisitsAtTypes
<1>4. count = 0 /\ Len(Accepted) = 0
    BY <1>1, <1>2, <1>3
<1>5. MatchingRows(row) = {}
    BY <1>1, <1>4, AcceptedAreMatching
<1>6. i < row \/ i = row
    BY <1>1, LeftRowsAre
<1> QED
    BY <1>4, <1>5, <1>6

LEMMA AnswerEmitted ==
    ASSUME Sound, Merged, EmitRow, output \in Seq(Int \X Int),
           \A i : Partners(output, i) =
                IF i \in RowsOf(call.left) /\ i < row THEN MatchingRows(i) ELSE {},
           NEW i
    PROVE  Partners(output', i) =
                IF i \in RowsOf(call.left) /\ i < row' THEN MatchingRows(i) ELSE {}
<1>1. row < call.left.len /\ row' = row + 1 /\ row \in Nat /\ row \in RowsOf(call.left)
    BY WalkVisits DEF EmitRow, WalkRow, Merged
<1>2. output' = output \o [n \in DOMAIN Accepted |-> Pair(Accepted[n])]
    BY EmitAdds
<1>3. Accepted \in Seq(Int) /\ ToSet(Accepted) = MatchingRows(row)
    BY <1>1, AcceptedFacts, AcceptedAreMatching
<1>4. Partners(output', i) = Partners(output, i) \union (IF i = row THEN ToSet(Accepted) ELSE {})
    BY <1>1, <1>2, <1>3, RowPutsOut
<1>5. CASE i \in RowsOf(call.left)
    <2>1. /\ i < row' <=> i < row \/ i = row
          /\ i = row => ~(i < row)
        BY <1>1, <1>5, LeftRowsAre
    <2> QED
        BY <1>3, <1>4, <1>5, <2>1
<1>6. CASE i \notin RowsOf(call.left)
    BY <1>1, <1>4, <1>6
<1> QED
    BY <1>5, <1>6

LEMMA AnswerChosen ==
    ASSUME Sound, Merged, ChooseRow, DOMAIN selected = RowsOf(call.left),
           \A i \in RowsOf(call.left) : i < row => Picks(selected[i], MatchingRows(i))
    PROVE  /\ DOMAIN selected' = RowsOf(call.left)
           /\ \A i \in RowsOf(call.left) : i < row' => Picks(selected'[i], MatchingRows(i))
<1>1. /\ row < call.left.len /\ row' = row + 1 /\ row \in Nat
      /\ selected' = [selected EXCEPT ![row] = Chosen(Accepted)]
    BY DEF ChooseRow, WalkRow, Merged
<1>2. Picks(Chosen(Accepted), MatchingRows(row))
    BY <1>1, ChosenIsPicked
<1>3. ASSUME NEW i \in RowsOf(call.left), i < row'
      PROVE  Picks(selected'[i], MatchingRows(i))
    <2>1. i < row \/ i = row
        BY <1>1, <1>3, LeftRowsAre
    <2>2. i = row => selected'[i] = Chosen(Accepted)
        BY <1>1
    <2>3. i # row => selected'[i] = selected[i]
        BY <1>1
    <2>4. CASE i = row
        BY <1>2, <2>2, <2>4
    <2>5. CASE i # row
        BY <2>1, <2>3, <2>5
    <2> QED
        BY <2>4, <2>5
<1> QED
    BY <1>1, <1>3

\* A value selects a right row or nothing.
LEMMA SelectedTypes ==
    ASSUME Sound, NEW v \in Int
    PROVE  SelectedOfValue(v) = None \/ SelectedOfValue(v) \in Int
<1>1. ToSet(VisitsOfValue(v)) \subseteq Int
    BY SoundFacts, ValueVisits DEF Sound, ToSet
<1> QED
    BY <1>1, SelectedIsPicked DEF Picks

LEMMA AnswerSelected ==
    ASSUME Sound, ~Reversed, SelectValue, row \in 0 .. Len(call.left.positions),
           output \in Seq(Int \X Int), \A i : Partners(output, i) = SelectedBefore(i, row)
    PROVE  /\ row' \in 0 .. Len(call.left.positions)
           /\ output' \in Seq(Int \X Int)
           /\ \A i : Partners(output', i) = SelectedBefore(i, row')
<1> DEFINE v == call.left.values[row + 1]
           p == call.left.positions[row + 1]
           j == SelectedOfValue(v)
<1>1. /\ row < Len(call.left.values) /\ row' = row + 1
      /\ output' = IF j = None THEN output ELSE Append(output, <<p, j>>)
    BY DEF SelectValue
<1>2. row' \in 0 .. Len(call.left.positions) /\ row + 1 \in 1 .. Len(call.left.positions)
    BY <1>1, SoundFacts
<1>3. v \in Int /\ p \in Int
    <2> DEFINE s == call.left.values
               t == call.left.positions
               k == row + 1
    <2>1. s \in Seq(Int) /\ t \in Seq(Int) /\ k \in 1 .. Len(s) /\ k \in 1 .. Len(t)
        BY <1>2, SoundFacts
    <2> HIDE DEF s, t, k
    <2>2. s[k] \in Int /\ t[k] \in Int
        BY <2>1
    <2> QED
        BY <2>2 DEF s, t, k
<1>4. \A i : SelectedBefore(i, row + 1) =
                SelectedBefore(i, row) \union (IF i = p THEN {j} \ {None} ELSE {})
    <2>1. 1 .. row + 1 = (1 .. row) \union {row + 1}
        OBVIOUS
    <2> QED
        BY <2>1 DEF SelectedBefore
<1>5. j = None \/ j \in Int
    BY <1>3, SelectedTypes
<1> HIDE DEF j, p, v
<1>6. CASE j = None
    BY <1>1, <1>2, <1>4, <1>6
<1>7. CASE j # None
    <2>1. /\ output' \in Seq(Int \X Int)
          /\ \A i : Partners(output', i) = Partners(output, i) \union (IF i = p THEN {j} ELSE {})
        BY <1>1, <1>3, <1>5, <1>7, OnePutsOut
    <2>2. {j} \ {None} = {j}
        BY <1>7
    <2> QED
        BY <1>1, <1>2, <1>4, <2>1, <2>2
<1> QED
    BY <1>6, <1>7

AllInv == AcceptInv /\ WalkInv /\ CapacityInv /\ AnswerInv

LEMMA AnswerNext == AllInv /\ [Next]_vars => AnswerInv'
<1> SUFFICES ASSUME AllInv, [Next]_vars PROVE AnswerInv'
    OBVIOUS
<1> USE DEF AllInv
<1>1. pc \notin {"validate", "error"} => Sound
    BY DEF AcceptInv, Accepts, Sound
<1>2. pc \in Walking => Merged
    BY DEF WalkInv
<1>3. call' = call
    BY DEF Next, Refuse, Validate, WalkNext, CountRow, EndCount, EmitRow, EndEmit, ChooseRow,
           EndChoose, SelectValue, SelectNulls, vars
<1>4. /\ \A i : MatchingRows(i)' = MatchingRows(i)
      /\ \A x, M : Picks(x, M)' = Picks(x, M)
      /\ \A i, r : SelectedBefore(i, r)' = SelectedBefore(i, r)
      /\ \A i : Partners(output, i)' = Partners(output', i)
      /\ RowsOf(call.left)' = RowsOf(call.left)
    BY <1>3, RequestStays
<1>5. \A i : Partners(<<>>, i) = {}
    BY NoPartners
<1>6. CASE Refuse
    BY <1>6 DEF Refuse, AnswerInv
<1>7. CASE Validate
    <2>1. Sound
        BY <1>7 DEF Validate, AcceptInv, Sound
    <2>2. /\ output' = <<>> /\ row' = 0 /\ pc' = FirstPass
          /\ selected' = [i \in RowsOf(call.left) |-> None]
        BY <1>7 DEF Validate, WalkInv, CapacityInv, AnswerInv
    <2>3. \A i \in RowsOf(call.left) : ~(i < row')
        BY <2>1, <2>2, LeftRowsAre
    <2>4. /\ pc' \in {"emit", "select", "count", "choose"}
          /\ pc' \in {"count", "emit"} => call.keep = "all"
        BY <2>1, <2>2, SoundFacts DEF FirstPass, Entries
    <2>5. \A i : Partners(output', i) = {}
        BY <1>5, <2>2
    <2>6. CASE pc' = "select"
        <3>1. row' \in 0 .. Len(call.left.positions) /\ output' \in Seq(Int \X Int)
            <4> DEFINE t == call.left.positions
            <4>1. t \in Seq(Int)
                BY <2>1, SoundFacts
            <4> HIDE DEF t
            <4>2. Len(t) \in Nat
                BY <4>1
            <4> QED
                BY <2>2, <4>2 DEF t
        <3>2. \A i : SelectedBefore(i, row') = {}
            BY <2>2 DEF SelectedBefore
        <3> QED
            BY <1>3, <1>4, <2>5, <2>6, <3>1, <3>2 DEF AnswerInv
    <2>7. CASE pc' # "select"
        BY <1>3, <1>4, <2>2, <2>3, <2>4, <2>5, <2>7 DEF AnswerInv
    <2> QED
        BY <2>6, <2>7
<1>8. CASE CountRow
    <2>1. /\ pc = "count" /\ pc' = "count" /\ row < call.left.len
        BY <1>8 DEF CountRow, WalkRow
    <2>2. /\ Sound /\ Merged /\ count = Total[row] /\ call.keep = "all"
          /\ count = 0 => \A i \in RowsOf(call.left) : i < row => MatchingRows(i) = {}
        BY <1>1, <1>2, <2>1 DEF Walking, CapacityInv, AnswerInv
    <2>3. count' = 0 => \A i \in RowsOf(call.left) : i < row' => MatchingRows(i) = {}
        BY <1>8, <2>2, AnswerCounted
    <2> QED
        BY <1>3, <1>4, <2>1, <2>2, <2>3 DEF AnswerInv
<1>9. CASE EndCount
    <2>1. /\ pc = "count" /\ pc' \in {"none", "emit"} /\ output' = <<>> /\ row' = 0
          /\ call.keep = "all"
        BY <1>9 DEF EndCount, CapacityInv, Rewind, AnswerInv
    <2>2. \A i \in RowsOf(call.left) : ~(i < row')
        BY <1>1, <2>1, LeftRowsAre
    <2> QED
        BY <1>3, <1>4, <1>5, <2>1, <2>2 DEF AnswerInv
<1>10. CASE EmitRow
    <2>1. pc = "emit" /\ pc' = "emit"
        BY <1>10 DEF EmitRow
    <2>2. /\ Sound /\ Merged /\ output \in Seq(Int \X Int) /\ call.keep = "all"
          /\ \A i : Partners(output, i) =
                IF i \in RowsOf(call.left) /\ i < row THEN MatchingRows(i) ELSE {}
        BY <1>1, <1>2, <2>1 DEF Walking, CapacityInv, AnswerInv
    <2>3. \A i : Partners(output', i) =
                IF i \in RowsOf(call.left) /\ i < row' THEN MatchingRows(i) ELSE {}
        BY <1>10, <2>2, AnswerEmitted
    <2> QED
        BY <1>3, <1>4, <2>1, <2>2, <2>3 DEF AnswerInv
<1>11. CASE EndEmit \/ EndChoose \/ SelectNulls
    <2>1. pc' \in {"none", "done"}
        BY <1>11 DEF EndEmit, EndChoose, SelectNulls
    <2> QED
        BY <2>1 DEF AnswerInv
<1>12. CASE ChooseRow
    <2>1. pc = "choose" /\ pc' = "choose"
        BY <1>12 DEF ChooseRow
    <2>2. /\ Sound /\ Merged /\ DOMAIN selected = RowsOf(call.left)
          /\ \A i \in RowsOf(call.left) : i < row => Picks(selected[i], MatchingRows(i))
        BY <1>1, <1>2, <2>1 DEF Walking, AnswerInv
    <2>3. /\ DOMAIN selected' = RowsOf(call.left)
          /\ \A i \in RowsOf(call.left) : i < row' => Picks(selected'[i], MatchingRows(i))
        BY <1>12, <2>2, AnswerChosen
    <2>4. \A i : Picks(selected[i], MatchingRows(i))' = Picks(selected'[i], MatchingRows(i))
        BY <1>3, <1>4 DEF Picks
    <2> QED
        BY <1>3, <1>4, <2>1, <2>3, <2>4 DEF AnswerInv
<1>13. CASE SelectValue
    <2>1. pc = "select" /\ pc' = "select"
        BY <1>13 DEF SelectValue
    <2>2. /\ Sound /\ ~Reversed /\ row \in 0 .. Len(call.left.positions)
          /\ output \in Seq(Int \X Int) /\ \A i : Partners(output, i) = SelectedBefore(i, row)
        BY <1>1, <2>1 DEF CapacityInv, AnswerInv, Reversed
    <2>3. /\ row' \in 0 .. Len(call.left.positions) /\ output' \in Seq(Int \X Int)
          /\ \A i : Partners(output', i) = SelectedBefore(i, row')
        BY <1>13, <2>2, AnswerSelected
    <2>4. \A i : SelectedBefore(i, row)' = SelectedBefore(i, row')
        BY <1>3, RequestStays DEF SelectedBefore
    <2> QED
        BY <1>3, <1>4, <2>1, <2>3, <2>4 DEF AnswerInv
<1>14. CASE UNCHANGED vars
    <2>1. \A i : SelectedBefore(i, row)' = SelectedBefore(i, row)
        BY <1>3, <1>14, RequestStays DEF SelectedBefore, vars
    <2>2. \A i : Picks(selected[i], MatchingRows(i))' = Picks(selected[i], MatchingRows(i))
        BY <1>3, <1>4, <1>14 DEF Picks, vars
    <2> QED
        BY <1>3, <1>4, <1>14, <2>1, <2>2 DEF vars, AnswerInv
<1> QED
    BY <1>6, <1>7, <1>8, <1>9, <1>10, <1>11, <1>12, <1>13, <1>14 DEF Next, WalkNext

-----------------------------------------------------------------------------
\* The answer is what the join promises.

Permits(pairs, i) == Partners(pairs, i) \in Join!Permitted(call.keep, Request.matches[i])

LEMMA RequestIsMatching ==
    ASSUME Sound, NEW i \in LeftRows
    PROVE  Request.matches[i] = MatchingRows(i)
    BY DEF Request, Valid, Sound

LEMMA AllArePermitted ==
    ASSUME Sound, call.keep = "all", NEW i \in LeftRows, NEW pairs,
           Partners(pairs, i) = MatchingRows(i)
    PROVE  Permits(pairs, i)
    BY RequestIsMatching DEF Permits, Join!Permitted

LEMMA OneIsPermitted ==
    ASSUME Sound, call.keep # "all", NEW i \in LeftRows, NEW pairs, NEW x,
           Picks(x, MatchingRows(i)), Partners(pairs, i) = {x} \ {None}
    PROVE  Permits(pairs, i)
<1>1. Request.matches[i] = MatchingRows(i)
    BY RequestIsMatching
<1>2. None \notin MatchingRows(i)
    <2>1. call.right.len \in Nat
        BY SoundFacts DEF Side
    <2>2. MatchingRows(i) \in SUBSET Nat
        BY <2>1 DEF MatchingRows, RowsOf
    <2> QED
        BY <2>2, NotEqualsAssumption
<1>3. CASE MatchingRows(i) = {}
    <2>1. Partners(pairs, i) = {}
        BY <1>3 DEF Picks
    <2> QED
        BY <1>1, <1>3, <2>1 DEF Permits, Join!Permitted
<1>4. CASE MatchingRows(i) # {}
    <2>1. /\ x \in MatchingRows(i) /\ Partners(pairs, i) = {x}
          /\ call.keep = "first" => \A m \in MatchingRows(i) : x <= m
          /\ call.keep = "last" => \A m \in MatchingRows(i) : x >= m
        BY <1>2, <1>4 DEF Picks
    <2> QED
        BY <1>1, <1>4, <2>1 DEF Permits, Join!Permitted
<1> QED
    BY <1>3, <1>4

LEMMA OutsideMatchesNothing ==
    ASSUME NEW i, i \notin RowsOf(call.left)
    PROVE  MatchingRows(i) = {} /\ Picks(None, MatchingRows(i))
    BY DEF MatchingRows, Picks

LEMMA NoneIsPermitted ==
    ASSUME Sound, NEW i \in LeftRows, MatchingRows(i) = {}
    PROVE  Permits(<<>>, i)
    BY RequestIsMatching, NoPartners DEF Permits, Join!Permitted

\* A refused call promises nothing and gives nothing.
LEMMA RefuseIsPermitted ==
    ASSUME Refuse, NEW i \in LeftRows
    PROVE  Permits(<<>>, i)
<1>1. Request.matches[i] = {}
    BY DEF Refuse, Request, Valid
<1> QED
    BY <1>1, NoPartners DEF Permits, Join!Permitted

\* The rows that chose a partner are put out with it.
LEMMA ChoicesArePermitted ==
    ASSUME AllInv, EndChoose, NEW i \in LeftRows
    PROVE  Permits(output', i)
<1> DEFINE chose == {k \in RowsOf(call.left) : selected[k] # None}
           rows == Ascending(chose)
<1>1. /\ Sound /\ call.keep # "all" /\ ~Reversed /\ row = call.left.len
      /\ \A k \in RowsOf(call.left) : k < row => Picks(selected[k], MatchingRows(k))
    BY DEF AllInv, EndChoose, AcceptInv, Accepts, Sound, CapacityInv, AnswerInv, Reversed
<1>2. \A k \in RowsOf(call.left) : Picks(selected[k], MatchingRows(k))
    BY <1>1, LeftRowsAre
<1>3. chose \in SUBSET Int /\ IsFiniteSet(chose)
    <2> DEFINE last == call.left.len - 1
    <2>1. last \in Int /\ RowsOf(call.left) = 0 .. last
        BY <1>1, SoundFacts DEF RowsOf
    <2>2. chose \in SUBSET RowsOf(call.left)
        OBVIOUS
    <2> HIDE DEF last, chose
    <2>3. IsFiniteSet(0 .. last) /\ 0 .. last \in SUBSET Int
        BY <2>1, 0 \in Int, FS_Interval
    <2> QED
        BY <2>1, <2>2, <2>3, FS_Subset
<1>4. output' = [n \in DOMAIN rows |-> <<rows[n], selected[rows[n]]>>]
    BY DEF EndChoose
<1>5. chose \subseteq RowsOf(call.left) /\ \A k \in RowsOf(call.left) : k \in chose <=> selected[k] # None
    OBVIOUS
<1> HIDE DEF chose
<1>6. /\ Cardinality(chose) \in Nat /\ rows \in Seq(Int) /\ Len(rows) = Cardinality(chose)
      /\ \A n \in 1 .. Cardinality(chose) : rows[n] \in chose
      /\ \A k \in chose : /\ Rank(chose, k) + 1 \in 1 .. Cardinality(chose)
                          /\ rows[Rank(chose, k) + 1] = k
    BY <1>3, AscendingListsRows
<1> HIDE DEF rows
<1>7. DOMAIN rows = 1 .. Cardinality(chose)
    BY <1>6
<1>8. ToSet(output') = {<<k, selected[k]>> : k \in chose}
    <2>1. ASSUME NEW p \in ToSet(output') PROVE p \in {<<k, selected[k]>> : k \in chose}
        <3>1. PICK n \in DOMAIN rows : p = <<rows[n], selected[rows[n]]>>
            BY <1>4, <2>1 DEF ToSet
        <3> QED
            BY <1>6, <1>7, <3>1
    <2>2. ASSUME NEW k \in chose PROVE <<k, selected[k]>> \in ToSet(output')
        <3>1. /\ Rank(chose, k) + 1 \in DOMAIN output'
              /\ output'[Rank(chose, k) + 1] = <<k, selected[k]>>
            BY <1>4, <1>6, <1>7
        <3> QED
            BY <3>1 DEF ToSet
    <2> QED
        BY <2>1, <2>2
<1>9. Partners(output', i) = IF i \in chose THEN {selected[i]} ELSE {}
    <2>1. \A k : LeftOf(<<k, selected[k]>>) = k /\ RightOf(<<k, selected[k]>>) = selected[k]
        BY <1>1 DEF LeftOf, RightOf
    <2>2. ASSUME NEW x \in Partners(output', i) PROVE i \in chose /\ x = selected[i]
        <3>1. PICK p \in ToSet(output') : LeftOf(p) = i /\ x = RightOf(p)
            BY <2>2 DEF Partners
        <3>2. PICK k \in chose : p = <<k, selected[k]>>
            BY <1>8, <3>1
        <3> QED
            BY <2>1, <3>1, <3>2
    <2>3. ASSUME i \in chose PROVE selected[i] \in Partners(output', i)
        <3>1. <<i, selected[i]>> \in ToSet(output')
            BY <1>8, <2>3
        <3> QED
            BY <2>1, <3>1 DEF Partners
    <2> QED
        BY <2>2, <2>3
<1>10. CASE i \in RowsOf(call.left)
    <2>1. Partners(output', i) = {selected[i]} \ {None}
        BY <1>5, <1>9, <1>10
    <2> QED
        BY <1>1, <1>2, <1>10, <2>1, OneIsPermitted
<1>11. CASE i \notin RowsOf(call.left)
    <2>1. Partners(output', i) = {None} \ {None}
        BY <1>5, <1>9, <1>11
    <2> QED
        BY <1>1, <1>11, <2>1, OneIsPermitted, OutsideMatchesNothing
<1> QED
    BY <1>10, <1>11

\* Without residual predicates a row matches what it visits.
LEMMA SingleMatches ==
    ASSUME Sound, call.entry = "single", NEW i \in RowsOf(call.left)
    PROVE  MatchingRows(i) = ToSet(VisitsAt(i))
<1>1. call.residual = RowsOf(call.left) \X RowsOf(call.right)
    BY SoundFacts
<1>2. \A j : j \in ToSet(VisitsAt(i)) <=> j \in RowsOf(call.right) /\ Comparable(i, j)
    BY VisitedAreComparable
<1>3. \A j : j \in MatchingRows(i) <=> j \in RowsOf(call.right) /\ Comparable(i, j)
    BY <1>1 DEF MatchingRows, Matches, Comparable
<1> QED
    BY <1>2, <1>3

\* The null rows are given the first right row or the last.
NullPartner(i) ==
    IF ~call.is_extension_array /\ \E m \in DOMAIN call.left.nulls : call.left.nulls[m] = i
    THEN {SelectedOfNull} ELSE {}

LEMMA NullsPutOut ==
    ASSUME Sound, ~Reversed, SelectNulls, output \in Seq(Int \X Int), NEW i
    PROVE  Partners(output', i) = Partners(output, i) \union NullPartner(i)
<1> DEFINE nulls == call.left.nulls
           g == [n \in DOMAIN nulls |-> <<nulls[n], SelectedOfNull>>]
           Pairs == Int \X Int
<1>1. output' = IF call.is_extension_array THEN output ELSE output \o g
    BY DEF SelectNulls
<1>2. nulls \in Seq(Int) /\ output \in Seq(Pairs)
    BY SoundFacts
<1>3. SelectedOfNull \in Int
    BY SoundFacts DEF SelectedOfNull, Side
<1>4. NullPartner(i) =
        IF ~call.is_extension_array /\ \E m \in DOMAIN nulls : nulls[m] = i
        THEN {SelectedOfNull} ELSE {}
    BY DEF NullPartner
<1> HIDE DEF nulls
<1>5. /\ DOMAIN nulls = 1 .. Len(nulls) /\ Len(nulls) \in Nat
      /\ \A n \in 1 .. Len(nulls) : nulls[n] \in Int
    BY <1>2
<1>6. g \in [1 .. Len(nulls) -> Pairs] /\ \A n \in DOMAIN nulls : g[n] = <<nulls[n], SelectedOfNull>>
    BY <1>3, <1>5
<1>7. DOMAIN g = DOMAIN nulls
    BY <1>5
<1>8. \A k : LeftOf(<<k, SelectedOfNull>>) = k /\ RightOf(<<k, SelectedOfNull>>) = SelectedOfNull
    BY DEF LeftOf, RightOf
<1> HIDE DEF g, Pairs
<1>9. g \in Seq(Pairs)
    BY <1>5, <1>6
<1>10. ToSet(output \o g) = ToSet(output) \union ToSet(g)
    BY <1>2, <1>9, AppendedMembers
<1>11. Partners(output \o g, i) = Partners(output, i) \union Partners(g, i)
    BY <1>10 DEF Partners
<1>12. Partners(g, i) = IF \E m \in DOMAIN nulls : nulls[m] = i THEN {SelectedOfNull} ELSE {}
    <2>1. ASSUME NEW x \in Partners(g, i)
          PROVE  x = SelectedOfNull /\ \E m \in DOMAIN nulls : nulls[m] = i
        <3>1. PICK p \in ToSet(g) : LeftOf(p) = i /\ x = RightOf(p)
            BY <2>1 DEF Partners
        <3>2. PICK m \in DOMAIN nulls : p = <<nulls[m], SelectedOfNull>>
            BY <1>6, <1>7, <3>1 DEF ToSet
        <3> QED
            BY <1>8, <3>1, <3>2
    <2>2. ASSUME NEW m \in DOMAIN nulls, nulls[m] = i PROVE SelectedOfNull \in Partners(g, i)
        <3>1. <<i, SelectedOfNull>> \in ToSet(g)
            BY <1>6, <1>7, <2>2 DEF ToSet
        <3> QED
            BY <1>8, <3>1 DEF Partners
    <2> QED
        BY <2>1, <2>2
<1> QED
    BY <1>1, <1>4, <1>11, <1>12

\* Direct selection gives every row the partner its policy asks for.
LEMMA SelectionsArePermitted ==
    ASSUME AllInv, SelectNulls, NEW i \in LeftRows
    PROVE  Permits(output', i)
<1> DEFINE positions == call.left.positions
           values == call.left.values
           N == Len(positions)
<1>1. /\ Sound /\ call.keep # "all" /\ call.entry = "single" /\ ~Reversed
      /\ row = Len(values) /\ output \in Seq(Int \X Int)
      /\ \A k : Partners(output, k) = SelectedBefore(k, row)
    BY DEF AllInv, SelectNulls, AcceptInv, Accepts, Sound, CapacityInv, AnswerInv, Reversed
<1>2. /\ call.left \in Side /\ IsPartition(call.left) /\ call.right \in Side
      /\ IsPartition(call.right) /\ positions \in Seq(Int) /\ Len(values) = N
    BY <1>1, SoundFacts DEF Sound
<1>3. Partners(output', i) = SelectedBefore(i, N) \union NullPartner(i)
    BY <1>1, <1>2, NullsPutOut
<1>4. DOMAIN positions = 1 .. N
    BY <1>2
<1>5. SelectedBefore(i, N) =
        {SelectedOfValue(values[k]) : k \in {n \in DOMAIN positions : positions[n] = i}} \ {None}
    BY <1>4 DEF SelectedBefore
<1> HIDE DEF positions, values, N
<1>6. CASE i \in RowsOf(call.left) /\ NamesValue(i)
    <2> DEFINE k == CHOOSE m \in DOMAIN positions : positions[m] = i
    <2>1. k \in DOMAIN positions /\ positions[k] = i
        BY <1>6 DEF NamesValue, positions
    <2>2. ValueOf(i) = values[k]
        BY DEF ValueOf, positions, values
    <2> HIDE DEF k
    <2>3. {n \in DOMAIN positions : positions[n] = i} = {k}
        <3>1. \A m, n \in DOMAIN positions : positions[m] = positions[n] => m = n
            BY <1>2, MapsNameRowsOnce DEF positions
        <3> QED
            BY <2>1, <3>1
    <2>4. NullPartner(i) = {}
        <3>1. \A m \in DOMAIN call.left.nulls : call.left.nulls[m] # i
            BY <1>2, <2>1, MapsNameRowsOnce DEF positions
        <3> QED
            BY <3>1 DEF NullPartner
    <2>5. Partners(output', i) = {SelectedOfValue(ValueOf(i))} \ {None}
        BY <1>3, <1>5, <2>2, <2>3, <2>4
    <2>6. MatchingRows(i) = ToSet(VisitsOfValue(ValueOf(i)))
        BY <1>1, <1>6, SingleMatches DEF VisitsAt
    <2>7. ValueOf(i) \in Int
        BY <1>1, <1>6, LeftValues
    <2>8. Picks(SelectedOfValue(ValueOf(i)), MatchingRows(i))
        BY <1>1, <2>6, <2>7, SelectedIsPicked
    <2> QED
        BY <1>1, <2>5, <2>8, OneIsPermitted
<1>7. CASE ~NamesValue(i)
    <2>1. SelectedBefore(i, N) = {}
        BY <1>5, <1>7 DEF NamesValue, positions
    <2>2. CASE i \in RowsOf(call.left)
        <3>1. \E m \in DOMAIN call.left.nulls : call.left.nulls[m] = i
            BY <1>2, <1>7, <2>2, SideValues DEF NamesValue
        <3>2. \A j : j \in MatchingRows(i) <=> j \in RowsOf(call.right) /\ ~call.is_extension_array
            <4>1. ValuesOf(call.left, i) = {}
                BY <1>1, <1>7, <2>2, LeftValues
            <4>2. call.residual = RowsOf(call.left) \X RowsOf(call.right)
                BY <1>1, SoundFacts
            <4> QED
                BY <2>2, <4>1, <4>2 DEF MatchingRows, Matches
        <3>3. CASE call.is_extension_array
            <4>1. Partners(output', i) = {None} \ {None} /\ Picks(None, MatchingRows(i))
                BY <1>3, <2>1, <3>2, <3>3 DEF NullPartner, Picks
            <4> QED
                BY <1>1, <4>1, OneIsPermitted
        <3>4. CASE ~call.is_extension_array
            <4>1. Partners(output', i) = {SelectedOfNull} /\ MatchingRows(i) = RowsOf(call.right)
                BY <1>3, <2>1, <3>1, <3>2, <3>4 DEF NullPartner
            <4>2. call.right.len \in Nat /\ call.right.len > 0
                BY <1>2 DEF Side, IsPartition
            <4>3. SelectedOfNull \in Nat /\ Picks(SelectedOfNull, RowsOf(call.right))
                <5> DEFINE last == call.right.len - 1
                <5>1. /\ last \in Nat /\ RowsOf(call.right) = 0 .. last
                      /\ SelectedOfNull = IF call.keep = "last" THEN last ELSE 0
                    BY <4>2 DEF RowsOf, SelectedOfNull
                <5> HIDE DEF last
                <5>2. 0 \in 0 .. last /\ last \in 0 .. last /\ \A m \in 0 .. last : 0 <= m /\ last >= m
                    BY <5>1
                <5> QED
                    BY <5>1, <5>2 DEF Picks
            <4>4. {SelectedOfNull} \ {None} = {SelectedOfNull}
                BY <4>3, NotEqualsAssumption
            <4> QED
                BY <1>1, <4>1, <4>3, <4>4, OneIsPermitted
        <3> QED
            BY <3>3, <3>4
    <2>3. CASE i \notin RowsOf(call.left)
        <3>1. NullPartner(i) = {}
            BY <1>2, <2>3, SideValues DEF NullPartner
        <3>2. Partners(output', i) = {None} \ {None}
            BY <1>3, <2>1, <3>1
        <3> QED
            BY <1>1, <2>3, <3>2, OneIsPermitted, OutsideMatchesNothing
    <2> QED
        BY <2>2, <2>3
<1>8. NamesValue(i) => i \in RowsOf(call.left)
    BY <1>2, SideValues DEF NamesValue
<1> QED
    BY <1>6, <1>7, <1>8

\* Only a step that ends the call answers, and it answers every row.
LEMMA EndIsPermitted ==
    ASSUME AllInv, Next, pc' \in {"none", "done", "error"}, NEW i \in LeftRows
    PROVE  /\ pc \notin {"none", "done", "error"} /\ call' = call
           /\ Permits(output', i)
<1> USE DEF AllInv
<1>1. CASE Refuse
    <2>1. pc = "validate" /\ call' = call /\ output' = <<>>
        BY <1>1 DEF Refuse, CapacityInv
    <2> QED
        BY <1>1, <2>1, RefuseIsPermitted
<1>2. CASE Validate
    BY <1>2, SoundFacts DEF Validate, FirstPass, Sound, AcceptInv, Entries
<1>3. CASE CountRow \/ EmitRow \/ ChooseRow \/ SelectValue
    BY <1>3 DEF CountRow, EmitRow, ChooseRow, SelectValue
<1>4. CASE EndCount
    <2>1. /\ pc = "count" /\ call' = call /\ output' = <<>> /\ count = 0 /\ row = call.left.len
        BY <1>4 DEF EndCount, CapacityInv
    <2>2. Sound
        BY <2>1 DEF AcceptInv, Accepts, Sound
    <2>3. MatchingRows(i) = {}
        <3>1. \A k \in RowsOf(call.left) : MatchingRows(k) = {}
            BY <2>1, <2>2, LeftRowsAre DEF AnswerInv
        <3> QED
            BY <3>1, OutsideMatchesNothing
    <2> QED
        BY <2>1, <2>2, <2>3, NoneIsPermitted
<1>5. CASE EndEmit
    <2>1. /\ pc = "emit" /\ call' = call /\ output' = output /\ row = call.left.len
          /\ call.keep = "all"
        BY <1>5 DEF EndEmit, AnswerInv
    <2>2. Sound
        BY <2>1 DEF AcceptInv, Accepts, Sound
    <2>3. Partners(output', i) = MatchingRows(i)
        <3>1. Partners(output, i) = IF i \in RowsOf(call.left) /\ i < row THEN MatchingRows(i) ELSE {}
            BY <2>1 DEF AnswerInv
        <3>2. i \in RowsOf(call.left) => i < row
            BY <2>1, <2>2, LeftRowsAre
        <3> QED
            BY <2>1, <3>1, <3>2, OutsideMatchesNothing
    <2> QED
        BY <2>1, <2>2, <2>3, AllArePermitted
<1>6. CASE EndChoose
    <2>1. pc = "choose" /\ call' = call
        BY <1>6 DEF EndChoose
    <2> QED
        BY <1>6, <2>1, ChoicesArePermitted
<1>7. CASE SelectNulls
    <2>1. pc = "select" /\ call' = call
        BY <1>7 DEF SelectNulls
    <2> QED
        BY <1>7, <2>1, SelectionsArePermitted
<1> QED
    BY <1>1, <1>2, <1>3, <1>4, <1>5, <1>6, <1>7 DEF Next, WalkNext

LEMMA RefinesInit == Init => Join!Init
<1> SUFFICES ASSUME Init PROVE Join!Init
    OBVIOUS
<1>1. call \in Calls /\ pc = "validate"
    BY DEF Init
<1>2. call.keep \in Keeps /\ call.right.len \in Nat
    <2>1. Call(call)
        BY <1>1, NotEqualsAssumption DEF IsCall
    <2> QED
        BY <2>1 DEF Call, Side
<1>3. \A i : MatchingRows(i) \in SUBSET Nat
    BY <1>2 DEF MatchingRows, RowsOf
<1>4. Request.matches \in [LeftRows -> SUBSET Nat]
    BY <1>3 DEF Request
<1>5. Request \in Requests
    BY <1>2, <1>4 DEF Request, Requests
<1>6. Answer = [i \in LeftRows |-> None]
    BY <1>1 DEF Answer
<1> QED
    BY <1>5, <1>6 DEF Join!Init

LEMMA RefinesNext ==
    ASSUME AllInv, [Next]_vars
    PROVE  [Join!Next]_(Join!vars)
<1>1. CASE UNCHANGED vars
    <2>1. Request' = Request
        BY <1>1, RequestStays DEF vars
    <2>2. Answer' = Answer
        BY <1>1 DEF vars, Answer, Emitted, Reversed, LeftRows, RowsOf
    <2> QED
        BY <2>1, <2>2 DEF Join!vars
<1>2. CASE Next
    <2>1. call' = call
        BY <1>2 DEF Next, Refuse, Validate, WalkNext, CountRow, EndCount, EmitRow, EndEmit,
            ChooseRow, EndChoose, SelectValue, SelectNulls
    <2>2. Request' = Request
        BY <2>1, RequestStays
    <2>3. ASSUME NEW i \in LeftRows PROVE Answer'[i] = Answer[i] \/ Join!AnswerRow(i)
        <3>1. CASE pc' \notin {"none", "done", "error"}
            <4>1. pc \notin {"none", "done", "error"}
                BY <1>2 DEF Next, Refuse, Validate, WalkNext, CountRow, EndCount, EmitRow,
                    EndEmit, ChooseRow, EndChoose, SelectValue, SelectNulls
            <4> QED
                BY <3>1, <4>1 DEF Answer, LeftRows, RowsOf
        <3>2. CASE pc' \in {"none", "done", "error"}
            <4>1. pc \notin {"none", "done", "error"} /\ Permits(output', i)
                BY <1>2, <3>2, EndIsPermitted
            <4>2. Answer[i] = None
                BY <4>1 DEF Answer
            <4>3. \A k : Emitted(k)' = Partners(output', k)
                BY <2>1, EmittedArePartners
            <4>4. Answer'[i] = Partners(output', i)
                BY <3>2, <4>3 DEF Answer, LeftRows, RowsOf
            <4>5. Partners(output', i) \in Join!Permitted(Request.keep, Request.matches[i])
                BY <4>1 DEF Permits, Request
            <4> QED
                BY <4>2, <4>4, <4>5 DEF Join!AnswerRow
        <3> QED
            BY <3>1, <3>2
    <2> QED
        BY <2>2, <2>3 DEF Join!Next
<1> QED
    BY <1>1, <1>2

\* The join implements RangeJoin, for sides of any length, any split into values
\* and nulls and any residual predicates: a row is answered once, with rows that
\* differ from it and that its policy allows, whether they are met by a walk over
\* prefix, suffix and nulls or taken from the extremes of the three.
THEOREM AnswersAsRangeJoinTheorem == Spec => Join!Safety
<1>1. Init => AllInv /\ Join!Init
    BY AcceptInit, WalkInit, CapacityInit, AnswerInit, RefinesInit DEF AllInv
<1>2. AllInv /\ [Next]_vars => AllInv'
    BY AcceptNext, WalkInvNext, CapacityNext, AnswerNext DEF AllInv
<1>3. AllInv /\ [Next]_vars => [Join!Next]_(Join!vars)
    BY RefinesNext
<1> QED
    BY <1>1, <1>2, <1>3, PTL DEF Spec, Join!Safety
=============================================================================
