---------------------------- MODULE RegionLabels ----------------------------
(***************************************************************************)
(* The construction of one predicate's region labels: build_region_paths   *)
(* and what it calls, in src/src/conditional_join/regions.rs.  The loops   *)
(* of the code are loops here, one action per iteration: search a boundary *)
(* for every left row, raise one event per window, accumulate the events   *)
(* along the right column, read the left labels off at the boundaries,     *)
(* gather the right labels into the order of another predicate's column,   *)
(* and clear the right rows that the first predicate already excludes.     *)
(***************************************************************************)
EXTENDS RegionPaths, CompareOp

CONSTANTS
    Calls,  \* the calls considered: [op, left, right, filter, alignment, mask]
    None    \* the absent optional argument

VARIABLES
    call,           \* arguments; never changes
    pc,             \* the loop that runs, or how the call returned
    cursor,         \* the position of that loop
    boundaries,     \* where each left row's window begins
    successful,     \* whether it is nonempty
    left_region,    \* labels of the left rows
    right_region,   \* events, then labels, of the right rows
    seen,           \* source positions the gather has used
    realigned       \* right labels gathered so far, in global order

vars == <<call, pc, cursor, boundaries, successful, left_region, right_region,
          seen, realigned>>

-----------------------------------------------------------------------------

\* The order the caller sorts the right column in: matches form a suffix.
SearchOrder(op, right) ==
    \A j, k \in Right : j <= k =>
        IF op \in {"<", "<="} THEN right[j] <= right[k] ELSE right[j] >= right[k]

\* What the typed entry point hands over: an alignment may have any length.
IsCall(c) ==
    /\ c.op \in RangeOps
    /\ c.left \in [Left -> Int]
    /\ c.right \in [Right -> Int]
    /\ c.filter \in [Left -> Nat] \union {None}
    /\ c.mask \in [Right -> Nat] \union {None}
    /\ c.alignment # None =>
        /\ c.alignment = [k \in DOMAIN c.alignment |-> c.alignment[k]]
        /\ \A k \in DOMAIN c.alignment : c.alignment[k] \in Int

ASSUME CallsAssumption ==
    \A c \in Calls : IsCall(c) /\ SearchOrder(c.op, c.right)

\* The strict operators admit ties.
RangeBoundaryTies(op, l, right) ==
    CHOOSE k \in 0 .. RightLen :
        \A j \in Right : j >= k <=>
            IF op \in {"<", "<="} THEN l <= right[j] ELSE l >= right[j]

\* range_boundary: the first offset of the matching suffix.
RangeBoundary(op, l, right) ==
    CHOOSE k \in 0 .. RightLen :
        \A j \in Right : j >= k <=> Apply(op, l, right[j])

\* Positions the gather may not use: negative or beyond the column.
OutOfBounds(position) == position < 0 \/ position >= RightLen

\* The bookkeeping of used positions left out.
NeverRepeated(position) == FALSE

Repeated(position) == position \in seen

-----------------------------------------------------------------------------

Init ==
    /\ call \in Calls
    /\ pc = "search"
    /\ cursor = 0
    /\ boundaries = [i \in Left |-> RightLen]
    /\ successful = [i \in Left |-> FALSE]
    /\ left_region = [i \in Left |-> 0]
    /\ right_region = [j \in Right |-> 0]
    /\ seen = {}
    /\ realigned = [j \in Right |-> 0]

\* The first predicate already excluded this left row: no search.
SkipFiltered ==
    /\ pc = "search" /\ cursor < LeftLen
    /\ call.filter # None /\ call.filter[cursor] = 0
    /\ boundaries' = [boundaries EXCEPT ![cursor] = RightLen]
    /\ successful' = [successful EXCEPT ![cursor] = FALSE]
    /\ cursor' = cursor + 1
    /\ UNCHANGED <<call, pc, left_region, right_region, seen, realigned>>

SearchBoundary ==
    /\ pc = "search" /\ cursor < LeftLen
    /\ call.filter # None => call.filter[cursor] # 0
    /\ LET boundary == RangeBoundary(call.op, call.left[cursor], call.right)
       IN  /\ boundaries' = [boundaries EXCEPT ![cursor] = boundary]
           /\ successful' = [successful EXCEPT ![cursor] = boundary < RightLen]
    /\ cursor' = cursor + 1
    /\ UNCHANGED <<call, pc, left_region, right_region, seen, realigned>>

\* successful_count = 0: the call returns None before any label exists.
ReturnNone ==
    /\ pc = "search" /\ cursor = LeftLen
    /\ \A i \in Left : ~successful[i]
    /\ pc' = "none"
    /\ UNCHANGED <<call, cursor, boundaries, successful, left_region,
                   right_region, seen, realigned>>

\* From one loop to the next, whose first position is `first`.
Turn(from, limit, to, first) ==
    /\ pc = from /\ cursor = limit
    /\ pc' = to
    /\ cursor' = first
    /\ UNCHANGED <<call, boundaries, successful, left_region, seen, realigned>>

StartEvents ==
    /\ \E i \in Left : successful[i]
    /\ Turn("search", LeftLen, "events", 0)
    /\ UNCHANGED right_region

\* An event overwrites instead of counting: windows that begin together.
SetEvent == [right_region EXCEPT ![boundaries[cursor]] = 1]

\* right_region[boundary] += 1 for a successful window.
CountEvent == [right_region EXCEPT ![boundaries[cursor]] = @ + 1]

AddEvent ==
    /\ pc = "events" /\ cursor < LeftLen
    /\ right_region' =
        IF successful[cursor] THEN CountEvent ELSE right_region
    /\ cursor' = cursor + 1
    /\ UNCHANGED <<call, pc, boundaries, successful, left_region, seen,
                   realigned>>

StartAccumulation ==
    /\ Turn("events", LeftLen, "accumulate", 1)
    /\ UNCHANGED right_region

\* right_region[position] += right_region[position - 1]
Accumulate ==
    /\ pc = "accumulate" /\ cursor < RightLen
    /\ right_region' = [right_region EXCEPT ![cursor] = @ + right_region[cursor - 1]]
    /\ cursor' = cursor + 1
    /\ UNCHANGED <<call, pc, boundaries, successful, left_region, seen,
                   realigned>>

StartLabels ==
    /\ Turn("accumulate", RightLen, "label", 0)
    /\ UNCHANGED right_region

\* A successful left row reads the label at its own boundary.
LabelLeft ==
    /\ pc = "label" /\ cursor < LeftLen
    /\ left_region' =
        IF successful[cursor]
        THEN [left_region EXCEPT ![cursor] = right_region[boundaries[cursor]]]
        ELSE left_region
    /\ cursor' = cursor + 1
    /\ UNCHANGED <<call, pc, boundaries, successful, right_region, seen,
                   realigned>>

\* No alignment: the labels are already in global order.
KeepOrder ==
    /\ call.alignment = None
    /\ Turn("label", LeftLen, "mask", 0)
    /\ UNCHANGED right_region

StartGather ==
    /\ call.alignment # None /\ DOMAIN call.alignment = Right
    /\ Turn("label", LeftLen, "gather", 0)
    /\ UNCHANGED right_region

Refuse ==
    /\ pc' = "error"
    /\ UNCHANGED <<call, cursor, boundaries, successful, left_region,
                   right_region, seen, realigned>>

RefuseLength ==
    /\ pc = "label" /\ cursor = LeftLen
    /\ call.alignment # None /\ DOMAIN call.alignment # Right
    /\ Refuse

\* A negative, out-of-bounds or repeated source position.
RefusePosition ==
    /\ pc = "gather" /\ cursor < RightLen
    /\ OutOfBounds(call.alignment[cursor]) \/ Repeated(call.alignment[cursor])
    /\ Refuse

\* The inverse permutation: scatters where the code gathers.
Scattered(source) == [realigned EXCEPT ![source] = right_region[cursor]]

\* realigned[global_position] = right_region[source_position]
Gathered(source) == [realigned EXCEPT ![cursor] = right_region[source]]

Gather ==
    /\ pc = "gather" /\ cursor < RightLen
    /\ LET source == call.alignment[cursor]
       IN  /\ ~OutOfBounds(source) /\ ~Repeated(source)
           /\ seen' = seen \union {source}
           /\ realigned' = Gathered(source)
    /\ cursor' = cursor + 1
    /\ UNCHANGED <<call, pc, boundaries, successful, left_region, right_region>>

StartMask ==
    /\ Turn("gather", RightLen, "mask", 0)
    /\ right_region' = realigned

\* A right row the first predicate cannot use loses its label.
MaskRight ==
    /\ pc = "mask" /\ call.mask # None /\ cursor < RightLen
    /\ right_region' =
        IF call.mask[cursor] = 0
        THEN [right_region EXCEPT ![cursor] = 0]
        ELSE right_region
    /\ cursor' = cursor + 1
    /\ UNCHANGED <<call, pc, boundaries, successful, left_region, seen,
                   realigned>>

Return ==
    /\ pc = "mask"
    /\ call.mask = None \/ cursor = RightLen
    /\ pc' = "done"
    /\ UNCHANGED <<call, cursor, boundaries, successful, left_region,
                   right_region, seen, realigned>>

Next ==
    \/ SkipFiltered \/ SearchBoundary \/ ReturnNone \/ StartEvents \/ AddEvent
    \/ StartAccumulation \/ Accumulate \/ StartLabels \/ LabelLeft
    \/ KeepOrder \/ StartGather \/ RefuseLength
    \/ Gather \/ RefusePosition \/ StartMask \/ MaskRight \/ Return

Spec == Init /\ [][Next]_vars

-----------------------------------------------------------------------------

TypeOK ==
    /\ call \in Calls
    /\ pc \in {"search", "events", "accumulate", "label", "gather", "mask",
               "done", "none", "error"}
    /\ cursor \in Nat
    /\ boundaries \in Boundaries
    /\ successful \in [Left -> BOOLEAN]
    /\ left_region \in [Left -> Nat]
    /\ right_region \in [Right -> Nat]
    /\ seen \in SUBSET Right
    /\ realigned \in [Right -> Nat]

\* Left rows the earlier predicate left in play, and right rows likewise.
Filtered(i) == call.filter # None => call.filter[i] # 0
Unmasked(j) == call.mask # None => call.mask[j] # 0

IsPermutation(alignment) ==
    DOMAIN alignment = Right /\ alignment \in Permutations(Right)

\* The row of the predicate's own column behind global right position j.
SourceOf(j) == IF call.alignment = None THEN j ELSE call.alignment[j]

\* The pair is in play and satisfies the comparison on the values.
Satisfies(i, j) ==
    /\ Filtered(i) /\ Unmasked(j)
    /\ Apply(call.op, call.left[i], call.right[SourceOf(j)])

\* Labels stand for the comparison: when the paths are returned, a left label is
\* nonzero and at most a right label exactly when the two values satisfy the
\* predicate; None is returned only when no pair in play does.
LabelsDecidePredicate ==
    /\ pc = "done" =>
        \A i \in Left, j \in Right :
            left_region[i] # 0 /\ left_region[i] <= right_region[j] <=> Satisfies(i, j)
    /\ pc = "none" =>
        \A i \in Left, j \in Right :
            ~(Filtered(i) /\ Apply(call.op, call.left[i], call.right[j]))

\* The events and their running sum count the windows begun: the loops build
\* the labels that module RegionPaths states in one line.
LabelsAreCounts ==
    pc \in {"label", "gather"} /\ cursor = LeftLen =>
        /\ right_region = RightLabels(boundaries)
        /\ pc = "label" => left_region = LeftLabels(boundaries)

\* An alignment is accepted exactly when it is a permutation of the right
\* rows: none that repeats, skips or leaves the column ever orders a result.
AlignmentIsChecked ==
    /\ pc = "error" => ~IsPermutation(call.alignment)
    /\ pc \in {"mask", "done"} /\ call.alignment # None =>
            IsPermutation(call.alignment)
=============================================================================
