----------------------------- MODULE JoinSearch -----------------------------
(***************************************************************************)
(* Binary search for a range predicate's right-hand rows                   *)
(* (src/src/conditional_join/join_search.rs, and range_boundary in         *)
(* src/src/conditional_join/regions.rs, which calls it).                   *)
(*                                                                         *)
(* Two callers look up one left value in a sorted right column.            *)
(* range_window keeps the column ascending for every operator and answers  *)
(* a suffix for < and <=, a prefix for > and >=.  range_boundary wants the *)
(* answer to be a suffix for all four, so the column arrives descending    *)
(* for > and >= and the probe is the mirrored comparison.  Both rest on    *)
(* partition_point, whose strided branch is the loop modelled here, one    *)
(* action per iteration; the contiguous branch calls the standard library, *)
(* which promises the same offset.                                         *)
(***************************************************************************)
EXTENDS CompareOp, TLAPS

CONSTANTS
    Len,        \* length of the sorted right column
    Searches    \* the lookups considered: [caller, op, left, right]

Callers == {"range_window", "range_boundary"}

Offsets == 0 .. Len - 1

\* The order the caller keeps the right column in.
InOrder(caller, op, right) ==
    \A i, j \in Offsets : i <= j =>
        IF caller = "range_boundary" /\ op \in {">", ">="}
        THEN right[i] >= right[j]
        ELSE right[i] <= right[j]

Search == [caller: Callers, op: RangeOps, left: Int, right: [Offsets -> Int]]

ASSUME LenAssumption == Len \in Nat
ASSUME SearchesAssumption ==
    \A s \in Searches : s \in Search /\ InOrder(s.caller, s.op, s.right)

VARIABLES
    search,     \* the arguments of the call; never changes
    low, high,  \* the undecided half-open interval of offsets
    pc          \* "probe" while the loop runs, then "done"

vars == <<search, low, high, pc>>

-----------------------------------------------------------------------------

\* A plausible slip: >= copies the probe of >.
SkipsMirrored(caller, op, l, r) ==
    \/ op \in {"<"} /\ r <= l
    \/ op \in {"<=", ">", ">="} /\ r < l

\* The closure handed to partition_point: TRUE on the prefix it skips.
Skips(caller, op, l, r) ==
    \/ caller = "range_window"   /\ op \in {"<", ">="} /\ r <= l
    \/ caller = "range_window"   /\ op \in {"<=", ">"} /\ r < l
    \/ caller = "range_boundary" /\ op = "<"  /\ r <= l
    \/ caller = "range_boundary" /\ op = "<=" /\ r < l
    \/ caller = "range_boundary" /\ op = ">"  /\ r >= l
    \/ caller = "range_boundary" /\ op = ">=" /\ r > l

Skipped(offset) ==
    Skips(search.caller, search.op, search.left, search.right[offset])

\* low + ((high - low) >> 1)
Middle == low + ((high - low) \div 2)

\* The probed offset counted with the undecided ones.
AtMiddle == Middle

\* Where low resumes once the probed offset is skipped.
BeyondMiddle == Middle + 1

Init ==
    /\ search \in Searches
    /\ low = 0
    /\ high = Len
    /\ pc = "probe"

\* predicate(values[middle]) is true: the partition point lies beyond.
RaiseLow ==
    /\ pc = "probe" /\ low < high
    /\ Skipped(Middle)
    /\ low' = BeyondMiddle
    /\ UNCHANGED <<search, high, pc>>

\* It is false: the partition point is middle or before.
LowerHigh ==
    /\ pc = "probe" /\ low < high
    /\ ~Skipped(Middle)
    /\ high' = Middle
    /\ UNCHANGED <<search, low, pc>>

\* The interval is empty: low is returned to the caller.
Return ==
    /\ pc = "probe" /\ low >= high
    /\ pc' = "done"
    /\ UNCHANGED <<search, low, high>>

Next == RaiseLow \/ LowerHigh \/ Return

Spec == Init /\ [][Next]_vars /\ WF_vars(Next)

-----------------------------------------------------------------------------

\* The half-open window the caller reports.
Window ==
    IF search.caller = "range_window" /\ search.op \in {">", ">="}
    THEN 0 .. low - 1
    ELSE low .. Len - 1

TypeOK ==
    /\ search \in Searches
    /\ low \in 0 .. Len
    /\ high \in 0 .. Len
    /\ pc \in {"probe", "done"}

\* Everything below low is skipped, everything from high on is kept, and the
\* interval never inverts: what each iteration may rely on.
Bracketed ==
    /\ low <= high
    /\ \A i \in Offsets : i < low => Skipped(i)
    /\ \A i \in Offsets : i >= high => ~Skipped(i)
    /\ pc = "done" => low = high

\* The window a kernel receives holds exactly the right rows that satisfy the
\* predicate, ties included, for every operator and in either column order.
WindowIsExact ==
    pc = "done" =>
        \A i \in Offsets :
            i \in Window <=> Apply(search.op, search.left, search.right[i])

\* The loop ends: every iteration shrinks the undecided interval.
Returns == <>(pc = "done")

-----------------------------------------------------------------------------

\* The search returns the exact window, for every column length, every sorted
\* column of integers and every range operator.  IInv is its inductive invariant.
IInv == TypeOK /\ Bracketed

\* In a sorted column the probe is monotone: once an offset is kept, so is
\* every later one.  This is the precondition partition_point documents.
LEMMA ProbeIsMonotone ==
    ASSUME NEW s \in Searches, NEW i \in Offsets, NEW j \in Offsets, i <= j,
           Skips(s.caller, s.op, s.left, s.right[j])
    PROVE  Skips(s.caller, s.op, s.left, s.right[i])
<1>1. /\ s.caller \in Callers /\ s.op \in RangeOps /\ s.left \in Int
      /\ s.right[i] \in Int /\ s.right[j] \in Int
      /\ InOrder(s.caller, s.op, s.right)
    BY SearchesAssumption DEF Search
<1>2. IF s.caller = "range_boundary" /\ s.op \in {">", ">="}
      THEN s.right[i] >= s.right[j]
      ELSE s.right[i] <= s.right[j]
    BY <1>1 DEF InOrder
<1> QED
    BY <1>1, <1>2 DEF Skips, Callers, RangeOps

\* Halving stays inside the interval.
LEMMA MiddleIsInside ==
    ASSUME low \in 0 .. Len, high \in 0 .. Len, low < high
    PROVE  Middle \in low .. high - 1
    BY LenAssumption DEF Middle

LEMMA InitEstablishes == Init => IInv
    BY LenAssumption DEF Init, IInv, TypeOK, Bracketed, Offsets

LEMMA NextPreserves == IInv /\ [Next]_vars => IInv'
<1> SUFFICES ASSUME IInv, [Next]_vars PROVE IInv'
    OBVIOUS
<1>1. /\ search \in Searches /\ low \in 0 .. Len /\ high \in 0 .. Len
      /\ pc \in {"probe", "done"} /\ low <= high
    BY DEF IInv, TypeOK, Bracketed
<1>2. CASE RaiseLow
    <2>1. Middle \in low .. high - 1 /\ Middle \in Offsets
        BY <1>1, <1>2, MiddleIsInside, LenAssumption DEF RaiseLow, BeyondMiddle, Offsets
    <2>2. TypeOK'
        BY <1>1, <1>2, <2>1, LenAssumption DEF RaiseLow, BeyondMiddle, TypeOK
    <2>3. \A i \in Offsets : i <= Middle => Skipped(i)
        BY <1>1, <1>2, <2>1, ProbeIsMonotone DEF RaiseLow, BeyondMiddle, Skipped
    <2>4. \A i \in Offsets : Skipped(i)' <=> Skipped(i)
        BY <1>2 DEF RaiseLow, BeyondMiddle, Skipped
    <2>5. (\A i \in Offsets : i < low => Skipped(i))'
        BY <1>1, <1>2, <2>1, <2>3, <2>4 DEF RaiseLow, BeyondMiddle, Offsets
    <2>6. (\A i \in Offsets : i >= high => ~Skipped(i))'
        BY <1>2, <2>4 DEF RaiseLow, BeyondMiddle, IInv, Bracketed
    <2>7. low' <= high' /\ pc' # "done"
        BY <1>1, <1>2, <2>1 DEF RaiseLow, BeyondMiddle
    <2> QED
        BY <2>2, <2>5, <2>6, <2>7 DEF IInv, Bracketed
<1>3. CASE LowerHigh
    <2>1. Middle \in low .. high - 1 /\ Middle \in Offsets
        BY <1>1, <1>3, MiddleIsInside, LenAssumption DEF LowerHigh, Offsets
    <2>2. TypeOK'
        BY <1>1, <1>3, <2>1, LenAssumption DEF LowerHigh, TypeOK
    <2>3. \A i \in Offsets : i >= Middle => ~Skipped(i)
        BY <1>1, <1>3, <2>1, ProbeIsMonotone DEF LowerHigh, Skipped
    <2>4. \A i \in Offsets : Skipped(i)' <=> Skipped(i)
        BY <1>3 DEF LowerHigh, Skipped
    <2>5. (\A i \in Offsets : i >= high => ~Skipped(i))'
        BY <1>1, <1>3, <2>1, <2>3, <2>4 DEF LowerHigh, Offsets
    <2>6. (\A i \in Offsets : i < low => Skipped(i))'
        BY <1>3, <2>4 DEF LowerHigh, IInv, Bracketed
    <2>7. low' <= high' /\ pc' # "done"
        BY <1>1, <1>3, <2>1 DEF LowerHigh
    <2> QED
        BY <2>2, <2>5, <2>6, <2>7 DEF IInv, Bracketed
<1>4. CASE Return
    BY <1>1, <1>4 DEF Return, IInv, TypeOK, Bracketed, Skipped
<1>5. CASE UNCHANGED vars
    BY <1>5 DEF vars, IInv, TypeOK, Bracketed, Skipped
<1> QED
    BY <1>2, <1>3, <1>4, <1>5 DEF Next

\* At the return, the skipped prefix and the kept suffix are the window.
LEMMA BracketGivesWindow == IInv => WindowIsExact
<1> SUFFICES ASSUME IInv, pc = "done", NEW i \in Offsets
             PROVE  i \in Window <=>
                        Apply(search.op, search.left, search.right[i])
    BY DEF WindowIsExact
<1>1. /\ search.caller \in Callers /\ search.op \in RangeOps
      /\ search.left \in Int /\ search.right[i] \in Int
    BY SearchesAssumption DEF IInv, TypeOK, Search
<1>2. i < low <=> Skipped(i)
    BY LenAssumption DEF IInv, TypeOK, Bracketed, Offsets
<1>3. i \in Window <=>
        IF search.caller = "range_window" /\ search.op \in {">", ">="}
        THEN i < low ELSE ~(i < low)
    BY LenAssumption DEF IInv, TypeOK, Window, Offsets
<1> QED
    BY <1>1, <1>2, <1>3 DEF Skipped, Skips, Apply, Callers, RangeOps

\* The undecided interval is always bracketed by decided offsets, and the
\* variables keep their types (join_search.rs partition_point).
THEOREM SearchInvariant == Spec => []IInv
    BY InitEstablishes, NextPreserves, PTL DEF Spec

\* Every window handed to a kernel holds exactly the rows that satisfy the
\* predicate, for every operator, either column order and any ties.
THEOREM SearchIsExact == Spec => []WindowIsExact
    BY SearchInvariant, BracketGivesWindow, PTL
=============================================================================
