----------------------------- MODULE EquiRange -----------------------------
(***************************************************************************)
(* The equality join with range predicates and residuals                   *)
(* (build_equi_range_and_residual_indices_core and what it calls in        *)
(* src/src/conditional_join/equi_join.rs): the arguments of all equality   *)
(* joins, how windows are narrowed, and how index pairs are made from      *)
(* them.  Module EquiJoins has the other entry points.                     *)
(*                                                                         *)
(* Every left row comes with the window of right rows that have its key.   *)
(* Within a key the right rows are sorted for the first predicate, which   *)
(* narrows the windows by binary search.  So does the second if it happens *)
(* to ascend in every window; else an envelope of it, its running extreme  *)
(* within each key, only cuts off what cannot match, and every row left is *)
(* compared.  A window that becomes empty has one end set to -1.           *)
(***************************************************************************)
EXTENDS CompareOp, SequencesExt

CONSTANTS
    LeftLen, RightLen,
    Calls,      \* the calls considered
    None        \* no second predicate

Left  == 0 .. LeftLen - 1
Right == 0 .. RightLen - 1

Keeps == {"all", "any", "first", "last"}

\* Ranges and residuals, residuals only, equality only, one partner beside every
\* row, and equi_aggregate.
Entries == {"range", "ne", "only", "uniq", "aggregate"}

\* The rows of the right columns; without windows there may be few of them.
RightRows(c) == DOMAIN c.right_index

\* windowed: whether the call has windows, starts and ends; op1, left1, right1:
\* the first range predicate, op2 and so on the second; residual: the pairs the
\* residual predicates accept, when there are any; requests: the lengths of the
\* arrays to be aggregated.
Call(c) ==
    /\ c.entry \in Entries /\ c.keep \in Keeps
    /\ {c.windowed, c.reverse, c.ordered, c.has_residuals} \subseteq BOOLEAN
    /\ c.starts \in [Left -> Int] /\ c.ends \in [Left -> Int]
    /\ {c.op1, c.op2} \subseteq RangeOps \union {None}
    /\ c.left1 \in [Left -> Int] /\ c.left2 \in [Left -> Int]
    /\ RightRows(c) \subseteq Right
    /\ \A column \in {c.right1, c.right2, c.right_index} : column \in [RightRows(c) -> Int]
    /\ c.residual \in SUBSET (Left \X Right)
    /\ c.requests \in Seq(Nat)

InUse(c, i) == c.starts[i] >= 0 /\ c.ends[i] >= 0

InBounds(c, i) == c.starts[i] <= c.ends[i] /\ c.ends[i] <= RightLen

KeyWindow(c, i) == c.starts[i] .. c.ends[i] - 1

\* What an entry point has no argument for.
Shape(c) ==
    /\ c.op1 = None => c.op2 = None
    /\ c.entry \in {"ne", "only", "uniq"} => c.op1 = None
    /\ c.entry = "range" => c.op1 # None
    /\ c.entry = "only" => ~c.has_residuals
    /\ c.entry \in {"uniq", "aggregate"} => c.keep = "all"
    /\ c.windowed => RightRows(c) = Right
    /\ c.entry # "aggregate" => (c.windowed <=> c.entry # "uniq")
    /\ c.ordered => c.entry = "only"
    /\ ~c.has_residuals => c.residual = Left \X Right

\* What callers keep to.  Rows with one key share its window, others have none of
\* it in common; right rows of a key are sorted for the first predicate, and have
\* labels of their own, which ascend if the call says so.  Where one row of a
\* window is taken unseen, there is one.
IsCall(c) ==
    /\ Call(c) /\ Shape(c)
    /\ c.windowed =>
        /\ \A j, k \in Right : c.right_index[j] = c.right_index[k] => j = k
        /\ \A i \in Left : InUse(c, i) /\ InBounds(c, i) =>
            /\ c.op1 # None =>
                \A j, k \in KeyWindow(c, i) : j <= k => c.right1[j] <= c.right1[k]
            /\ \A k \in Left : InUse(c, k) /\ InBounds(c, k) =>
                KeyWindow(c, i) = KeyWindow(c, k) \/ KeyWindow(c, i) \intersect KeyWindow(c, k) = {}
    /\ c.ordered => \A j, k \in Right : j <= k => c.right_index[j] <= c.right_index[k]
    /\ c.entry = "only" /\ (c.keep = "any" \/ (c.ordered /\ c.keep # "all")) =>
        \A i \in Left : c.starts[i] # c.ends[i]

ASSUME EquiAssumption ==
    LeftLen \in Nat /\ RightLen \in Nat /\ \A c \in Calls : IsCall(c)

VARIABLES
    call,           \* arguments; never changes
    pc,             \* the loop that runs, or how the call returned
    row,            \* the row it stands at
    starts, ends,   \* the windows, narrowed in place
    envelope,       \* running extremes of the second column
    path,           \* how candidates are read, once it is chosen
    count,          \* matches counted for keep="all"
    output          \* the pairs emitted

windowVars == <<starts, ends>>
vars == <<call, pc, row, windowVars, envelope, path, count, output>>

Active(i) == starts[i] >= 0 /\ ends[i] >= 0

NoneActive == \A i \in Left : ~Active(i)

\* Without windows the candidate of a row is the right row beside it, if any.
Window(i) ==
    IF ~call.windowed THEN {i} \intersect RightRows(call)
    ELSE IF Active(i) THEN starts[i] .. ends[i] - 1 ELSE {}

-----------------------------------------------------------------------------
\* Narrowing.

\* The pass that reads the candidates.
FirstPass ==
    IF call.entry = "aggregate" THEN "feed"
    ELSE IF call.entry = "uniq" THEN "emit"
    ELSE IF call.keep = "all" THEN "count" ELSE "select"

\* validate_start_end, before anything is narrowed.
Refuse ==
    /\ pc = "validate"
    /\ \E i \in Left : Active(i) /\ ~InBounds(call, i)
    /\ pc' = "error"
    /\ UNCHANGED <<call, row, windowVars, envelope, path, count, output>>

Validate ==
    /\ pc = "validate"
    /\ \A i \in Left : Active(i) => InBounds(call, i)
    /\ pc' = IF call.op1 = None THEN FirstPass ELSE "first"
    /\ UNCHANGED <<call, row, windowVars, envelope, path, count, output>>

\* Operators that bound a window from below; the others bound it from above.
RaisesStart == {"<", "<="}

\* The closure given to partition_point_between.
Skips(op, l, r) ==
    \/ op \in {"<", ">="} /\ r <= l
    \/ op \in {"<=", ">"} /\ r < l

\* What a bisection of lo .. hi may return: everything it decided by is on the
\* right side.  It is unique where the values ascend.
Boundaries(values, lo, hi, op, l) ==
    { b \in lo .. hi : /\ b > lo => Skips(op, l, values[b - 1])
                       /\ b < hi => ~Skips(op, l, values[b]) }

\* A row of apply_equi_range_bound or of narrow_unordered_second_range.
NarrowRow(values, op, lefts) ==
    /\ row < LeftLen
    /\ row' = row + 1
    /\ IF ~Active(row)
       THEN UNCHANGED windowVars
       ELSE \E b \in Boundaries(values, starts[row], ends[row], op, lefts[row]) :
            \/ /\ op \in RaisesStart
               /\ starts' = [starts EXCEPT ![row] = IF b = ends[row] THEN -1 ELSE b]
               /\ UNCHANGED ends
            \/ /\ op \notin RaisesStart
               /\ ends' = [ends EXCEPT ![row] = IF b = starts[row] THEN -1 ELSE b]
               /\ UNCHANGED starts

ApplyFirst ==
    /\ pc = "first"
    /\ NarrowRow(call.right1, call.op1, call.left1)
    /\ UNCHANGED <<call, pc, envelope, path, count, output>>

\* range_is_monotonic_for_windows: no descent inside a window.
SecondAscends ==
    \A i \in Left : \A j \in Window(i) :
        j + 1 \in Window(i) => call.right2[j] <= call.right2[j + 1]

\* An aggregation does not look whether a search left any window.
EndsEarly == NoneActive /\ call.entry # "aggregate"

EndFirst ==
    /\ pc = "first" /\ row = LeftLen
    /\ pc' = IF EndsEarly THEN "none" ELSE IF call.op2 = None THEN FirstPass
             ELSE IF SecondAscends THEN "second" ELSE "envelope"
    /\ row' = 0
    /\ UNCHANGED <<call, windowVars, envelope, path, count, output>>

ApplySecond ==
    /\ pc = "second"
    /\ NarrowRow(call.right2, call.op2, call.left2)
    /\ UNCHANGED <<call, pc, envelope, path, count, output>>

EndSecond ==
    /\ pc = "second" /\ row = LeftLen
    /\ pc' = IF EndsEarly THEN "none" ELSE FirstPass
    /\ row' = 0
    /\ UNCHANGED <<call, windowVars, envelope, path, count, output>>

\* The windows as the first predicate left them.
NarrowedWindow(i) == Window(i)

\* The equality windows, copied before the first predicate narrows them.
EqualityWindow(i) == IF InUse(call, i) THEN KeyWindow(call, i) ELSE {}

\* Both from the left.
ExtremeFromLeft(rows, j) ==
    IF call.op2 \in RaisesStart THEN Max({call.right2[k] : k \in {m \in rows : m <= j}})
    ELSE Min({call.right2[k] : k \in {m \in rows : m <= j}})

\* From the left the largest value so far, from the right the smallest.
Extreme(rows, j) ==
    IF call.op2 \in RaisesStart THEN Max({call.right2[k] : k \in {m \in rows : m <= j}})
    ELSE Min({call.right2[k] : k \in {m \in rows : m >= j}})

\* A window of build_second_range_envelope; windows met before are met again to
\* no effect, where the code leaves them out.
EnvelopeRow ==
    /\ pc = "envelope" /\ row < LeftLen
    /\ envelope' = [j \in Right |->
            IF j \in EqualityWindow(row) THEN Extreme(EqualityWindow(row), j) ELSE envelope[j]]
    /\ row' = row + 1
    /\ UNCHANGED <<call, pc, windowVars, path, count, output>>

EndEnvelope ==
    /\ pc = "envelope" /\ row = LeftLen
    /\ pc' = "narrow" /\ row' = 0
    /\ UNCHANGED <<call, windowVars, envelope, path, count, output>>

Narrow ==
    /\ pc = "narrow"
    /\ NarrowRow(envelope, call.op2, call.left2)
    /\ UNCHANGED <<call, pc, envelope, path, count, output>>

\* With residuals, widths and samples decide whether the skip scan or the mask
\* over whole windows reads the candidates; here either may.
EndNarrow ==
    /\ pc = "narrow" /\ row = LeftLen
    /\ IF NoneActive
       THEN pc' = "none" /\ UNCHANGED path
       ELSE pc' = FirstPass /\ path' \in {"scan"} \union (IF call.has_residuals THEN {"mask"} ELSE {})
    /\ row' = 0
    /\ UNCHANGED <<call, windowVars, envelope, count, output>>

-----------------------------------------------------------------------------
\* Materialization.

\* The envelope is taken for the final word.
PassesResidual(i, j) == <<i, j>> \in call.residual

Holds(op, l, r) == op = None \/ Apply(op, l, r)

\* An unordered second predicate is compared again, by the scan or as the
\* additional range of the mask; without windows all of them are.
Passes(i, j) ==
    /\ path = "aligned" => Holds(call.op1, call.left1[i], call.right1[j])
    /\ path # "windows" => Holds(call.op2, call.left2[i], call.right2[j])
    /\ <<i, j>> \in call.residual

Candidates(i) == {j \in Window(i) : Passes(i, j)}

\* Only the join with nothing but residuals meets bad windows this late.
Refused(i) == call.entry = "ne" /\ ~(InUse(call, i) /\ InBounds(call, i))

CountRow ==
    /\ pc = "count" /\ row < LeftLen /\ ~Refused(row)
    /\ count' = count + Cardinality(Candidates(row))
    /\ row' = row + 1
    /\ UNCHANGED <<call, pc, windowVars, envelope, path, output>>

EndCount ==
    /\ pc = "count" /\ row = LeftLen
    /\ pc' = IF count = 0 THEN "none" ELSE "emit"
    /\ row' = 0
    /\ UNCHANGED <<call, windowVars, envelope, path, count, output>>

\* Windows read from the end.
Descending(rows) == SetToSortSeq(rows, >)

\* The n-th row in order has n - 1 rows before it.
Ascending(rows) ==
    [n \in 1 .. Cardinality(rows) |->
        CHOOSE j \in rows : Cardinality({k \in rows : k < j}) = n - 1]

EmitRow ==
    /\ pc = "emit" /\ row < LeftLen
    /\ \E found \in {Ascending(Candidates(row))} :
        output' = output \o [n \in DOMAIN found |-> <<row, found[n]>>]
    /\ row' = row + 1
    /\ UNCHANGED <<call, pc, windowVars, envelope, path, count>>

EndEmit ==
    /\ pc = "emit" /\ row = LeftLen
    /\ pc' = IF output = <<>> THEN "none" ELSE "done"
    /\ UNCHANGED <<call, row, windowVars, envelope, path, count, output>>

\* first and last without residuals or a second look: the extreme label of every
\* window, asked for all rows at once (adaptive_extreme_positions).
UseExtrema ==
    /\ call.entry = "range" /\ call.keep \in {"first", "last"}
    /\ path = "windows" /\ ~call.has_residuals

\* Positions with the smallest, or the largest, label.
Best(rows) ==
    { j \in rows : \A k \in rows :
        IF call.keep = "first" THEN call.right_index[j] <= call.right_index[k]
        ELSE call.right_index[j] >= call.right_index[k] }

SelectExtrema ==
    /\ pc = "select" /\ UseExtrema
    /\ \E rows \in {Ascending({i \in Left : Window(i) # {}})} :
        \E chosen \in [DOMAIN rows -> Right] :
            /\ \A n \in DOMAIN rows : chosen[n] \in Best(Window(rows[n]))
            /\ output' = [n \in DOMAIN rows |-> <<rows[n], chosen[n]>>]
    /\ pc' = IF output' = <<>> THEN "none" ELSE "done"
    /\ UNCHANGED <<call, row, windowVars, envelope, path, count>>

\* The last row of the window, tried first by any where the envelope cut the end.
Tried(i) ==
    IF call.keep = "any" /\ path = "scan" /\ call.op2 \notin RaisesStart
    THEN {j \in Candidates(i) : j = ends[i] - 1} ELSE {}

\* Ascending labels have their extremes at the ends.
Selected(i) ==
    IF Tried(i) # {} THEN Tried(i)
    ELSE IF call.keep = "any" \/ (call.ordered /\ call.keep = "first")
    THEN {j \in Candidates(i) : j = Min(Candidates(i))}
    ELSE IF call.ordered THEN {j \in Candidates(i) : j = Max(Candidates(i))}
    ELSE Best(Candidates(i))

\* "equi-join window is empty"
NoExtreme(i) == call.entry = "only" /\ Window(i) = {}

SelectRow ==
    /\ pc = "select" /\ ~UseExtrema /\ row < LeftLen /\ ~Refused(row) /\ ~NoExtreme(row)
    /\ \/ Selected(row) = {} /\ UNCHANGED output
       \/ \E j \in Selected(row) : output' = Append(output, <<row, j>>)
    /\ row' = row + 1
    /\ UNCHANGED <<call, pc, windowVars, envelope, path, count>>

EndSelect ==
    /\ pc = "select" /\ ~UseExtrema /\ row = LeftLen
    /\ pc' = IF output = <<>> THEN "none" ELSE "done"
    /\ UNCHANGED <<call, row, windowVars, envelope, path, count, output>>

-----------------------------------------------------------------------------

Init ==
    /\ call \in Calls
    /\ pc = "enter"
    /\ row = 0
    /\ starts = call.starts
    /\ ends = call.ends
    /\ envelope = call.right2
    /\ path = IF call.windowed THEN "windows" ELSE "aligned"
    /\ count = 0
    /\ output = <<>>

NarrowNext ==
    \/ Refuse \/ Validate \/ ApplyFirst \/ EndFirst \/ ApplySecond \/ EndSecond
    \/ EnvelopeRow \/ EndEnvelope \/ Narrow \/ EndNarrow

MaterializeNext ==
    \/ CountRow \/ EndCount \/ EmitRow \/ EndEmit
    \/ SelectExtrema \/ SelectRow \/ EndSelect
=============================================================================
