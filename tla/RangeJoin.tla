----------------------------- MODULE RangeJoin -----------------------------
(***************************************************************************)
(* What an index join promises, whatever kernel computes it                *)
(* (src/src/conditional_join/join_types.rs, Keep): every left row gets its *)
(* answer once, and the answer is what the keep policy allows among the    *)
(* right labels that satisfy every predicate.  Rows may be answered in any *)
(* order and several at a time, as when a kernel returns None for all.     *)
(***************************************************************************)
EXTENDS Integers

CONSTANTS
    Rows,       \* the left rows
    Requests,   \* the joins considered: [keep, matches]
    Pending     \* not yet answered

VARIABLES
    request,    \* keep policy and, per left row, its matching right labels
    answer      \* per left row: Pending, or the set of labels emitted for it

vars == <<request, answer>>

\* The answers the policy allows a row whose matching labels are M.
Permitted(keep, M) ==
    { A \in SUBSET M :
        /\ A = {} <=> M = {}
        /\ keep = "all" => A = M
        /\ keep # "all" => \A x, y \in A : x = y
        /\ keep = "first" => \A x \in A, m \in M : x <= m
        /\ keep = "last"  => \A x \in A, m \in M : x >= m }

Init ==
    /\ request \in Requests
    /\ answer = [i \in Rows |-> Pending]

AnswerRow(i) ==
    /\ answer[i] = Pending /\ answer'[i] # Pending
    /\ \E M \in {request.matches[i]}, A \in {answer'[i]} : A \in Permitted(request.keep, M)

Next ==
    /\ \A i \in Rows : answer'[i] = answer[i] \/ AnswerRow(i)
    /\ UNCHANGED request

AllAnswered == \A i \in Rows : answer[i] # Pending

\* No row is answered wrongly or twice; and in the end all are answered.
Safety == Init /\ [][Next]_vars

Spec == Safety /\ <>AllAnswered
=============================================================================
