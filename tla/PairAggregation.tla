-------------------------- MODULE PairAggregation --------------------------
(***************************************************************************)
(* What an aggregation of a join promises, whatever kernel computes it     *)
(* (src/src/aggregation/state.rs): the joined pairs are reduced per output *)
(* slot, nulls count only as pairs, integers are exact up to their width,  *)
(* minima and maxima are rows that hold one, and the answer is None        *)
(* exactly when no pair is joined.  It says nothing of order: what a       *)
(* floating sum or product may be is any order of its values.              *)
(***************************************************************************)
EXTENDS AggregationSets

CONSTANTS
    Requests,   \* the aggregations considered: [joined, inputs, wellformed]
    Pending, Absent, Refused

VARIABLES
    request,    \* for every output slot the source rows joined to it, the
                \* operations asked for, and whether their columns fit
    answer      \* Pending, Absent, Refused or [results, matched]

\* What a slot joined to the rows J may hold.
Permitted(s, J, value) ==
    LET valid == {p \in J : ~s.nulls[p]}
        exact == IF s.op = "sum" THEN MapThenSumSet(LAMBDA p : s.values[p], valid)
                 ELSE MapThenFoldSet(LAMBDA x, y : x * y, 1, LAMBDA p : s.values[p],
                                     LAMBDA S : CHOOSE p \in S : TRUE, valid)
    IN  CASE s.op = "size" -> value = Cardinality(J)
          [] s.op = "count" -> value = Cardinality(valid)
          [] Extreme(s) ->
                IF valid = {} THEN value = NoRow
                ELSE /\ value \in valid
                     /\ \A p \in valid :
                            IF s.op = "min" THEN s.values[value] <= s.values[p]
                            ELSE s.values[value] >= s.values[p]
          [] Ordered(s) -> Len(value) = Cardinality(valid) /\ ToSet(value) = valid
          [] OTHER ->
                /\ (value - exact) % Modulus = 0
                /\ value \in IF s.dtype = "unsigned" THEN 0 .. Modulus - 1
                             ELSE -(Modulus \div 2) .. Modulus \div 2 - 1

SlotsOf(r) == DOMAIN r.joined

Nothing(r) == \A o \in SlotsOf(r) : r.joined[o] = {}

Init == request \in Requests /\ answer = Pending

\* Columns that do not fit need not be looked at when nothing is joined.
Answer ==
    /\ answer = Pending /\ answer' # Pending
    /\ \E r \in {request}, a \in {answer'} :
        CASE a = Refused -> ~r.wellformed
          [] a = Absent  -> Nothing(r)
          [] OTHER ->
                /\ r.wellformed /\ ~Nothing(r)
                /\ \A o \in SlotsOf(r) :
                    /\ a.matched[o] <=> r.joined[o] # {}
                    /\ \A k \in DOMAIN r.inputs :
                        Permitted(r.inputs[k], r.joined[o], a.results[k][o])
    /\ UNCHANGED request

Spec == Init /\ [][Answer]_<<request, answer>> /\ <>(answer # Pending)
=============================================================================
