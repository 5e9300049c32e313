----------------------------- MODULE NotEquals -----------------------------
(***************************************************************************)
(* The join whose predicates are all != (src/src/conditional_join/         *)
(* not_equals_only.rs).                                                    *)
(*                                                                         *)
(* A side comes as its non-null values with a map to their rows, and the   *)
(* rows of its nulls.  The right values are sorted, so the right rows that *)
(* differ from a left value are a prefix and a suffix; nulls match every   *)
(* row of the other side, or none (is_extension_array).                    *)
(*                                                                         *)
(* The left rows are walked in order, merging the two maps, to count, to   *)
(* emit, to aggregate, or to choose among the pairs that the other         *)
(* predicates accept.  One action is one left row.  A single predicate     *)
(* with keep any, first or last needs no walk: the best right row of every *)
(* prefix and suffix is known beforehand.                                  *)
(*                                                                         *)
(* Rows are named by their positions, which the full position arrays only  *)
(* relabel.                                                                *)
(***************************************************************************)
EXTENDS SequencesExt, Integers

CONSTANTS
    Calls,      \* the calls considered
    None

Keeps == {"all", "any", "first", "last"}

Entries == {"single", "extended", "aggregate", "aggregate_reverse"}

\* One side: its length, the non-null values, their rows, and the null rows.
Side == [len: Nat, values: Seq(Int), positions: Seq(Int), nulls: Seq(Int)]

RowsOf(side) == 0 .. side.len - 1

\* residual: the pairs that the other predicates accept.
Call(c) ==
    /\ DOMAIN c = {"entry", "keep", "left", "right", "is_extension_array", "residual"}
    /\ c.entry \in Entries /\ c.keep \in Keeps
    /\ c.left \in Side /\ c.right \in Side
    /\ c.is_extension_array \in BOOLEAN
    /\ c.residual \in SUBSET (RowsOf(c.left) \X RowsOf(c.right))

Ascends(s) == \A m, n \in DOMAIN s : m < n => s[m] <= s[n]

\* "physical positions in original row order"; "right must be sorted".
IsCall(c) ==
    /\ Call(c)
    /\ Ascends(c.left.positions) /\ Ascends(c.left.nulls) /\ Ascends(c.right.values)
    /\ c.entry = "single" => c.residual = RowsOf(c.left) \X RowsOf(c.right)
    /\ c.entry \in {"aggregate", "aggregate_reverse"} => c.keep = "all"

ASSUME NotEqualsAssumption ==
    /\ \A c \in Calls : IsCall(c)
    /\ None \notin Nat

VARIABLES
    call,           \* arguments; never changes
    pc,             \* the loop that runs, or how the call returned
    row,            \* the left row of the walk, or the place in a map
    left_non_null_offset,   \* where the walk stands in either map
    left_null_offset,
    count,          \* pairs counted: the capacity of the output
    selected,       \* the right row chosen for each left row
    output          \* the pairs emitted, or fed to the aggregation

offsetVars == <<left_non_null_offset, left_null_offset>>
vars == <<call, pc, row, offsetVars, count, selected, output>>

-----------------------------------------------------------------------------
\* Validation.

Complete(side) == Len(side.positions) + Len(side.nulls) = side.len

\* The rows of a side as listed, non-null ones first.
Listed(side) == side.positions \o side.nulls

\* Without the null rows.
NeverRepeats(side) ==
    \A m, n \in DOMAIN side.positions : side.positions[m] = side.positions[n] => m = n

Distinct(side) ==
    \A m, n \in DOMAIN Listed(side) : Listed(side)[m] = Listed(side)[n] => m = n

\* validate_not_equal_side, with positions and validate_partition.
IsPartition(side) ==
    /\ side.len > 0
    /\ Len(side.values) = Len(side.positions)
    /\ Complete(side)
    /\ \A n \in DOMAIN Listed(side) : Listed(side)[n] \in RowsOf(side)
    /\ Distinct(side)

Refuse ==
    /\ pc = "validate"
    /\ ~(IsPartition(call.left) /\ IsPartition(call.right))
    /\ pc' = "error"
    /\ UNCHANGED <<call, row, offsetVars, count, selected, output>>

-----------------------------------------------------------------------------
\* The pairs of a left row.

\* partition_point for < v and for <= v: the prefix below and the suffix above.
LessEnd(v) == Cardinality({n \in DOMAIN call.right.values : call.right.values[n] < v})

GreaterStart(v) == Cardinality({n \in DOMAIN call.right.values : call.right.values[n] <= v})

Below(v) == SubSeq(call.right.positions, 1, LessEnd(v))

Above(v) ==
    SubSeq(call.right.positions, GreaterStart(v) + 1, Len(call.right.positions))

\* Also the rows already met below and above.
EveryRight ==
    IF call.is_extension_array THEN <<>> ELSE Listed(call.right)

\* The null rows on the right, which match any value unless the arrays are
\* extension arrays.
MatchingNulls == IF call.is_extension_array THEN <<>> ELSE call.right.nulls

VisitsOfValue(v) == Below(v) \o Above(v) \o MatchingNulls

VisitsOfNull ==
    IF call.is_extension_array THEN <<>> ELSE Listed(call.right)

\* A null of an extension array has no pairs.
RightRows == Len(call.right.values) + Len(call.right.nulls)

PairsOfNull == IF call.is_extension_array THEN 0 ELSE RightRows

PairsOfValue(v) ==
    LessEnd(v) + (Len(call.right.values) - GreaterStart(v)) + Len(MatchingNulls)

\* all_capacity adds up the pairs of the values, one by one, and of the nulls.
PairsOfValues[n \in 0 .. Len(call.left.values)] ==
    IF n = 0 THEN 0 ELSE PairsOfValues[n - 1] + PairsOfValue(call.left.values[n])

Capacity ==
    PairsOfValues[Len(call.left.values)] + Len(call.left.nulls) * PairsOfNull

-----------------------------------------------------------------------------
\* The walk.

FirstPass ==
    CASE call.entry = "single" -> IF call.keep = "all" THEN "emit" ELSE "select"
      [] call.entry = "extended" -> IF call.keep = "all" THEN "count" ELSE "choose"
      [] OTHER -> "emit"

Validate ==
    /\ pc = "validate"
    /\ IsPartition(call.left) /\ IsPartition(call.right)
    /\ pc' = FirstPass
    /\ count' = IF call.entry = "single" /\ call.keep = "all" THEN Capacity ELSE 0
    /\ UNCHANGED <<call, row, offsetVars, selected, output>>

\* The row is the next of its map.
AtNonNull ==
    /\ left_non_null_offset < Len(call.left.positions)
    /\ call.left.positions[left_non_null_offset + 1] = row

AtNull ==
    /\ ~AtNonNull
    /\ left_null_offset < Len(call.left.nulls)
    /\ call.left.nulls[left_null_offset + 1] = row

Visits ==
    IF AtNonNull THEN VisitsOfValue(call.left.values[left_non_null_offset + 1])
    ELSE IF AtNull THEN VisitsOfNull ELSE <<>>

\* The n-th number in order has n - 1 before it.
Ascending(numbers) ==
    [n \in 1 .. Cardinality(numbers) |->
        CHOOSE j \in numbers : Cardinality({k \in numbers : k < j}) = n - 1]

\* The visits that the other predicates accept, in the order of the visits.
AcceptedPlaces == Ascending({n \in DOMAIN Visits : <<row, Visits[n]>> \in call.residual})

Accepted == [n \in DOMAIN AcceptedPlaces |-> Visits[AcceptedPlaces[n]]]

WalkRow ==
    /\ row < call.left.len
    /\ left_non_null_offset' = left_non_null_offset + (IF AtNonNull THEN 1 ELSE 0)
    /\ left_null_offset' = left_null_offset + (IF AtNull THEN 1 ELSE 0)
    /\ row' = row + 1

\* The maps stay where the count left them.
RewindRows == row' = 0 /\ UNCHANGED offsetVars

\* Every traversal starts with both maps from the beginning.
Rewind == row' = 0 /\ left_non_null_offset' = 0 /\ left_null_offset' = 0

CountRow ==
    /\ pc = "count"
    /\ WalkRow
    /\ count' = count + Len(Accepted)
    /\ UNCHANGED <<call, pc, selected, output>>

EndCount ==
    /\ pc = "count" /\ row = call.left.len
    /\ pc' = IF count = 0 THEN "none" ELSE "emit"
    /\ Rewind
    /\ UNCHANGED <<call, count, selected, output>>

\* What the callback gets: the output row, or slot, and its partner.
Pair(j) == IF call.entry = "aggregate_reverse" THEN <<j, row>> ELSE <<row, j>>

EmitRow ==
    /\ pc = "emit"
    /\ WalkRow
    /\ \E found \in {Accepted} :
        output' = output \o [n \in DOMAIN found |-> Pair(found[n])]
    /\ UNCHANGED <<call, pc, count, selected>>

EndEmit ==
    /\ pc = "emit" /\ row = call.left.len
    /\ pc' = IF output = <<>> THEN "none" ELSE "done"
    /\ UNCHANGED <<call, row, offsetVars, count, selected, output>>

\* The row with the extreme position, or the one met first.
Extreme(rows) == IF call.keep = "first" THEN Min(rows) ELSE Max(rows)

Chosen(s) ==
    CASE s = <<>> -> None
      [] s # <<>> /\ call.keep = "any" -> Head(s)
      [] OTHER -> Extreme(ToSet(s))

\* any stops the row's visits with the first accepted pair.
ChooseRow ==
    /\ pc = "choose"
    /\ WalkRow
    /\ selected' = [selected EXCEPT ![row] = Chosen(Accepted)]
    /\ UNCHANGED <<call, pc, count, output>>

EndChoose ==
    /\ pc = "choose" /\ row = call.left.len
    /\ \E rows \in {Ascending({i \in RowsOf(call.left) : selected[i] # None})} :
        /\ output' = [n \in DOMAIN rows |-> <<rows[n], selected[rows[n]]>>]
        /\ pc' = IF rows = <<>> THEN "none" ELSE "done"
    /\ UNCHANGED <<call, row, offsetVars, count, selected>>

-----------------------------------------------------------------------------
\* visit_single_selected: one predicate, one pair per left row.

\* The extreme of each part that there is; of any, the first of the first part.
SelectedOfValue(v) ==
    LET parts == <<Below(v), Above(v), MatchingNulls>>
        found == {n \in DOMAIN parts : parts[n] # <<>>}
    IN  IF found = {} THEN None
        ELSE IF call.keep = "any" THEN Head(parts[Min(found)])
        ELSE Extreme({Extreme(ToSet(parts[n])) : n \in found})

SelectValue ==
    /\ pc = "select" /\ row < Len(call.left.values)
    /\ \E j \in {SelectedOfValue(call.left.values[row + 1])} :
        output' = IF j = None THEN output
                  ELSE Append(output, <<call.left.positions[row + 1], j>>)
    /\ row' = row + 1
    /\ UNCHANGED <<call, pc, offsetVars, count, selected>>

\* The last of the non-null rows.
LastNonNull == IF call.keep = "last" THEN Len(call.right.values) - 1 ELSE 0

\* A null matches every right row: the first of them or the last.
SelectedOfNull == IF call.keep = "last" THEN call.right.len - 1 ELSE 0

SelectNulls ==
    /\ pc = "select" /\ row = Len(call.left.values)
    /\ output' = IF call.is_extension_array THEN output
                 ELSE output \o [n \in DOMAIN call.left.nulls |->
                                    <<call.left.nulls[n], SelectedOfNull>>]
    /\ pc' = IF output' = <<>> THEN "none" ELSE "done"
    /\ UNCHANGED <<call, row, offsetVars, count, selected>>

-----------------------------------------------------------------------------

Init ==
    /\ call \in Calls
    /\ pc = "validate"
    /\ row = 0 /\ left_non_null_offset = 0 /\ left_null_offset = 0
    /\ count = 0
    /\ selected = [i \in RowsOf(call.left) |-> None]
    /\ output = <<>>

WalkNext == CountRow \/ EndCount \/ EmitRow \/ EndEmit \/ ChooseRow \/ EndChoose

Next == Refuse \/ Validate \/ WalkNext \/ SelectValue \/ SelectNulls

Spec == Init /\ [][Next]_vars /\ WF_vars(Next)

-----------------------------------------------------------------------------
\* What the join promises.

\* A refused call promises nothing.
Valid == IsPartition(call.left) /\ IsPartition(call.right)

\* The value of a row: one, or none for a null.
ValuesOf(side, i) == {side.values[n] : n \in {m \in DOMAIN side.values : side.positions[m] = i}}

\* Rows match if both have a value and the values differ, or if one is null and
\* the nulls are NumPy's; and if the other predicates accept them.
Matches(i, j) ==
    /\ <<i, j>> \in call.residual
    /\ IF ValuesOf(call.left, i) = {} \/ ValuesOf(call.right, j) = {}
       THEN ~call.is_extension_array
       ELSE ValuesOf(call.left, i) # ValuesOf(call.right, j)

Reversed == call.entry = "aggregate_reverse"

Emitted(i) ==
    IF Reversed THEN {output[n][1] : n \in {m \in DOMAIN output : output[m][2] = i}}
    ELSE {output[n][2] : n \in {m \in DOMAIN output : output[m][1] = i}}

LeftRows == UNION {RowsOf(c.left) : c \in Calls}

Answer ==
    [i \in LeftRows |-> IF pc \in {"none", "done", "error"} THEN Emitted(i) ELSE None]

MatchingRows(i) ==
    IF i \in RowsOf(call.left) THEN {j \in RowsOf(call.right) : Matches(i, j)} ELSE {}

Request ==
    [keep |-> call.keep,
     matches |-> IF Valid THEN [i \in LeftRows |-> MatchingRows(i)]
                 ELSE [i \in LeftRows |-> {}]]

Requests == [keep: Keeps, matches: [LeftRows -> SUBSET Nat]]

Join == INSTANCE RangeJoin
            WITH Rows <- LeftRows, Pending <- None, request <- Request, answer <- Answer

\* Every entry point, with every policy and both kinds of nulls, answers as the
\* join promises: direct selection from prefix and suffix extremes as well as
\* the walks over all pairs; and the call returns.
ImplementsRangeJoin == Join!Spec

\* The merge of the two maps meets every left row: wherever a walk stands, all
\* rows so far were the next of one map.  A row that is not is passed over in
\* silence.
EveryRowIsWalked ==
    pc \in {"count", "emit", "choose"} => left_non_null_offset + left_null_offset = row

\* The output fills exactly what was reserved for it: the capacity computed from
\* lengths alone, or the pairs counted by the walk before.
CapacityIsExact ==
    pc = "done" /\ call.keep = "all" /\ call.entry \in {"single", "extended"} =>
        Len(output) = count

\* "Walking their merge keeps the public all-!= result in left-row order": so do
\* the walks that choose, and no pair is emitted, or aggregated, twice.
WalksInLeftOrder ==
    pc = "done" /\ (call.entry # "single" \/ call.keep = "all") =>
        \A m, n \in DOMAIN output : m < n =>
            /\ output[m] # output[n]
            /\ ~Reversed => output[m][1] <= output[n][1]

\* An accepted call names every row of either side once, as a value or a null.
PartitionsAreChecked ==
    pc \notin {"validate", "error"} =>
        \A side \in {call.left, call.right} :
            \A i \in RowsOf(side) : \E n \in DOMAIN Listed(side) :
                \A m \in DOMAIN Listed(side) : Listed(side)[m] = i <=> m = n
=============================================================================
