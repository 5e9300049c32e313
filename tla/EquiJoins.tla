----------------------------- MODULE EquiJoins -----------------------------
(***************************************************************************)
(* All equality joins of src/src/conditional_join/equi_join.rs: the join   *)
(* with ranges of module EquiRange, equality with residuals only, equality *)
(* alone, unique keys with the partners already side by side, and the      *)
(* aggregations.  What an aggregation does with the pairs it is given is   *)
(* in modules AggregationState and WindowAggregates.                       *)
(***************************************************************************)
EXTENDS EquiRange

Aggregating == call.entry = "aggregate"

\* The arrays come from the side that is not put out, and must have its length.
SourceLen == IF call.reverse THEN LeftLen ELSE Cardinality(RightRows(call))

\* What an entry point looks at before anything else: "at least one aggregation is
\* required", AggregationSet::new; "residual_predicates must not be empty"; all
\* windows, also the negative ones; equal lengths.
Accepted ==
    CASE call.entry = "range" -> TRUE
      [] call.entry = "ne"    -> call.has_residuals
      [] call.entry = "only"  -> \A i \in Left : InUse(call, i) /\ InBounds(call, i)
      [] call.entry = "uniq"  -> RightRows(call) = Left
      [] call.entry = "aggregate" ->
            /\ call.requests # <<>>
            /\ \A n \in DOMAIN call.requests : call.requests[n] = SourceLen

\* The others step over windows that are not in use, and validate the rest first.
ValidatesLater == call.windowed /\ call.entry \in {"range", "aggregate"}

Enter ==
    /\ pc = "enter"
    /\ pc' = IF ~Accepted THEN "error" ELSE IF ValidatesLater THEN "validate" ELSE FirstPass
    /\ UNCHANGED <<call, row, windowVars, envelope, path, count, output>>

\* A row that cannot be answered fails the call, in the middle of a pass.
RefuseRow ==
    /\ row < LeftLen
    /\ \/ pc \in {"count", "select"} /\ Refused(row)
       \/ pc = "select" /\ NoExtreme(row)
    /\ pc' = "error"
    /\ UNCHANGED <<call, row, windowVars, envelope, path, count, output>>

-----------------------------------------------------------------------------
\* Aggregation.

\* The first right row of every label, in order: unique_reverse_output_slots.
FirstRows ==
    { j \in RightRows(call) : \A k \in RightRows(call) :
        call.right_index[k] = call.right_index[j] => j <= k }

SlotOf(j) ==
    Cardinality({k \in FirstRows : \E m \in FirstRows :
                    call.right_index[m] = call.right_index[j] /\ k < m})

\* The right rows whose labels go out beside the slots.
OutputRows ==
    IF call.windowed THEN Ascending(RightRows(call)) ELSE Ascending(FirstRows)

SlotLabel(slot) == call.right_index[OutputRows[slot + 1]]

\* The slot that a pair is aggregated into, and the row that supplies the value.
Contribution(i, j) ==
    IF ~call.reverse THEN <<i, j>>
    ELSE IF call.windowed THEN <<j, i>> ELSE <<SlotOf(j), i>>

Contributions(i) ==
    [n \in DOMAIN Ascending(Candidates(i)) |-> Contribution(i, Ascending(Candidates(i))[n])]

\* The windows say it all, and are handed over as they are.
Whole == call.windowed /\ ~call.reverse /\ ~call.has_residuals /\ path = "windows"

\* aggregate_starts_ends is given all windows at once.
HandOver ==
    /\ pc = "feed" /\ Whole
    /\ output' = FlattenSeq([i \in 1 .. LeftLen |-> Contributions(i - 1)])
    /\ pc' = IF output' = <<>> THEN "none" ELSE "done"
    /\ UNCHANGED <<call, row, windowVars, envelope, path, count>>

\* A row of the loop over candidates, or of aggregate_unordered_second_range.
FeedRow ==
    /\ pc = "feed" /\ ~Whole /\ row < LeftLen
    /\ \E found \in {Contributions(row)} : output' = output \o found
    /\ row' = row + 1
    /\ UNCHANGED <<call, pc, windowVars, envelope, path, count>>

\* No slot was updated, or the results are made.
EndFeed ==
    /\ pc = "feed" /\ ~Whole /\ row = LeftLen
    /\ pc' = IF output = <<>> THEN "none" ELSE "done"
    /\ UNCHANGED <<call, row, windowVars, envelope, path, count, output>>

EntryNext == Enter \/ RefuseRow

AggregateNext == HandOver \/ FeedRow \/ EndFeed

Next == EntryNext \/ NarrowNext \/ MaterializeNext \/ AggregateNext

Spec == Init /\ [][Next]_vars /\ WF_vars(Next)

-----------------------------------------------------------------------------
\* What the joins promise.

\* A refused call promises nothing.  Windows that are not in use are left out by
\* some entry points and refused by others, like empty ones.
Valid ==
    /\ Accepted
    /\ call.windowed => \A i \in Left : InUse(call, i) => InBounds(call, i)
    /\ call.entry = "ne" => \A i \in Left : InUse(call, i)
    /\ call.entry = "only" /\ call.keep # "all" => \A i \in Left : KeyWindow(call, i) # {}

\* The right rows with the key of the left row.
SameKey(i) ==
    IF ~call.windowed THEN {i} \intersect RightRows(call)
    ELSE IF InUse(call, i) THEN KeyWindow(call, i) ELSE {}

Matches(i, j) ==
    /\ Valid /\ j \in SameKey(i)
    /\ call.op1 # None => Apply(call.op1, call.left1[i], call.right1[j])
    /\ call.op2 # None => Apply(call.op2, call.left2[i], call.right2[j])
    /\ <<i, j>> \in call.residual

\* Labels of right rows, but their positions where the values come from them.
Named(j) == IF Aggregating /\ ~call.reverse THEN j ELSE call.right_index[j]

\* The n-th pair put out, left row first.
PairAt(n) ==
    IF ~Aggregating THEN <<output[n][1], Named(output[n][2])>>
    ELSE IF call.reverse THEN <<output[n][2], SlotLabel(output[n][1])>> ELSE output[n]

Places(i) == {n \in DOMAIN output : PairAt(n)[1] = i}

Emitted(i) == IF pc = "error" THEN {} ELSE {PairAt(n)[2] : n \in Places(i)}

\* No pair is given twice, and none to a second slot of its label.
EachOnce(i) ==
    /\ Cardinality(Places(i)) = Cardinality({PairAt(n)[2] : n \in Places(i)})
    /\ \A m \in Places(i), n \in DOMAIN output :
        Aggregating /\ call.reverse /\ PairAt(m)[2] = PairAt(n)[2] => output[m][1] = output[n][1]

Answer ==
    [i \in Left |-> IF pc \in {"none", "done", "error"} /\ (pc = "done" => EachOnce(i))
                    THEN Emitted(i) ELSE None]

Request ==
    [keep |-> call.keep,
     matches |-> [i \in Left |-> {Named(j) : j \in {k \in RightRows(call) : Matches(i, k)}}]]

Requests == [keep: Keeps, matches: [Left -> SUBSET Int]]

Join == INSTANCE RangeJoin
            WITH Rows <- Left, Pending <- None, request <- Request, answer <- Answer

\* Whatever the predicates look like and whichever reader is chosen, the call
\* answers as the join promises, or refuses as a whole, and returns.  An
\* aggregation is given every matching pair once, in either direction, and all
\* values for one right label go into one slot.
ImplementsRangeJoin == Join!Spec

\* At no point has narrowing lost a match: a matching right row lies in the
\* window as it stands, and a row set inactive has no match.  The envelope is
\* sound because it covers whole keys, not the windows it narrows.
NarrowingKeepsMatches ==
    \A i \in Left : \A j \in RightRows(call) : Matches(i, j) => j \in Window(i)

\* The comment on keep="any": where > or >= narrowing cut the end of a window,
\* or found it at the end of the key, the last row left is itself a match of the
\* second predicate, so one look usually settles the row.
CutEndsAtMatch ==
    [][pc = "narrow" /\ call.op2 \in {">", ">="} =>
        \A i \in Left :
            /\ i = row /\ starts[i] >= 0 /\ ends[i] >= 0 /\ ends'[i] >= 0
            /\ ends'[i] # ends[i] \/ ends[i] = call.ends[i]
            => Apply(call.op2, call.left2[i], call.right2[ends'[i] - 1])]_vars

\* Index pairs leave in left order, and all matches of a row in right-array order,
\* as Keep::All is documented, each once.
AllInRightOrder ==
    ~Aggregating => \A m, n \in DOMAIN output : m < n =>
        \/ output[m][1] < output[n][1]
        \/ output[m][1] = output[n][1] /\ output[m][2] < output[n][2]
=============================================================================
