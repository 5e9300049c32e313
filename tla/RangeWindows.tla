---------------------------- MODULE RangeWindows ----------------------------
(***************************************************************************)
(* What the joins and the aggregations over windows of sorted right rows   *)
(* compute with, as operators: the windows of range predicates             *)
(* (src/src/conditional_join/single_range_predicate.rs, range_join.rs),    *)
(* the spans that windows cover, packed end to end                         *)
(* (src/src/aggregation/packed_spans.rs), and what the envelope sweeps of  *)
(* range_join.rs know before they run: an estimate of their candidates,    *)
(* and the ranks and thresholds of the residual.                           *)
(***************************************************************************)
EXTENDS CompareOp, SequencesExt

CONSTANTS
    LeftLen, RightLen,
    SampleBlocks,   \* SWEEP_WIDTH_SAMPLE_BLOCKS: 32 in the code
    SampleRows      \* SWEEP_WIDTH_SAMPLE_ROWS: 256 in the code

ASSUME RangeAssumption ==
    /\ LeftLen \in Nat \ {0} /\ RightLen \in Nat \ {0}
    /\ SampleBlocks \in Nat \ {0} /\ SampleRows \in Nat \ {0}

Left  == 0 .. LeftLen - 1
Right == 0 .. RightLen - 1

Predicate == [op: Operators, left: [Left -> Int], right: [Right -> Int]]

Ascends(column) == \A j, k \in Right : j <= k => column[j] <= column[k]

Accepts(p, i, j) == Apply(p.op, p.left[i], p.right[j])

-----------------------------------------------------------------------------
\* Windows.

SuffixOps == {"<", "<="}

\* The right rows a binary search skips (module JoinSearch).
Skips(op, l, r) ==
    \/ op \in {"<", ">="} /\ r <= l
    \/ op \in {"<=", ">"} /\ r < l

Cut(anchor, i) ==
    Cardinality({j \in Right : Skips(anchor.op, anchor.left[i], anchor.right[j])})

Start(anchor, i) == IF anchor.op \in SuffixOps THEN Cut(anchor, i) ELSE 0

End(anchor, i) == IF anchor.op \in SuffixOps THEN RightLen ELSE Cut(anchor, i)

\* The windows of all anchors, intersected.
WindowOf(anchors, i) ==
    [ row |-> i,
      start |-> Max({Start(anchors[n], i) : n \in DOMAIN anchors}),
      end |-> Min({End(anchors[n], i) : n \in DOMAIN anchors}) ]

Slots(w) == w.start .. w.end - 1

-----------------------------------------------------------------------------
\* Spans.

Interval(w) == [start |-> w.start, end |-> w.end]

Before(a, b) == a.start < b.start \/ (a.start = b.start /\ a.end <= b.end)

\* An interval joins the last span it overlaps or touches.
JoinSpan(spans, w) ==
    IF spans # <<>> /\ w.start <= Last(spans).end
    THEN [spans EXCEPT ![Len(spans)].end = Max({@, w.end})]
    ELSE Append(spans, w)

\* queried_source_spans.
SpansOf(intervals) == FoldLeft(JoinSpan, <<>>, SetToSortSeq(intervals, Before))

\* PackedSpanLayout: each span starts where the one before it ends.
Laid(intervals) ==
    LET offset[n \in Nat] ==
            IF n = 1 THEN 0
            ELSE offset[n - 1] + intervals[n - 1].end - intervals[n - 1].start
    IN  [n \in DOMAIN intervals |-> [start |-> intervals[n].start, end |-> intervals[n].end,
                                     offset |-> offset[n]]]

\* The length of all spans.
LengthOf(spans) ==
    IF spans = <<>> THEN 0 ELSE Last(spans).offset + Last(spans).end - Last(spans).start

\* assign_range_clusters: the first span that ends beyond the window's start.
ClusterOf(spans, w) == 1 + Cardinality({n \in DOMAIN spans : spans[n].end <= w.start})

\* Where row j of the nth span lies among the packed rows.
PackedAt(spans, n, j) == spans[n].offset + j - spans[n].start

\* The row that lies there.
RowPacked(spans, at) ==
    CHOOSE j \in UNION {Slots(spans[n]) : n \in DOMAIN spans} :
        \E n \in DOMAIN spans : j \in Slots(spans[n]) /\ PackedAt(spans, n, j) = at

-----------------------------------------------------------------------------
\* The estimate of FirstAnchorSweep.

Width(anchors, i) == LET w == WindowOf(anchors, i) IN Max({0, w.end - w.start})

Block(b) ==
    LET stride == LeftLen \div SampleBlocks
    IN  b * stride .. IF b + 1 = SampleBlocks THEN LeftLen - 1 ELSE (b + 1) * stride - 1

\* The rows of a block that are probed: they are spread over what remains of it
\* from the first row with a candidate.
Probes(anchors, b) ==
    LET first == Min({i \in Block(b) : Width(anchors, i) > 0})
        span == Max(Block(b)) + 1 - first
        probes == Min({span, SampleRows})
    IN  {first + (n * span) \div probes : n \in 0 .. probes - 1}

\* The estimate, candidate_width of FirstAnchorSweep, is not 0 if and only if some
\* row that is looked at has a candidate: the sum over the probes of a block is
\* scaled to its length, which never makes it less.
SeesCandidates(anchors) ==
    IF LeftLen <= SampleBlocks * SampleRows
    THEN \E i \in Left : Width(anchors, i) > 0
    ELSE \E b \in 0 .. SampleBlocks - 1 :
            /\ \E i \in Block(b) : Width(anchors, i) > 0
            /\ \E i \in Probes(anchors, b) : Width(anchors, i) > 0

-----------------------------------------------------------------------------
\* Envelopes and ranks.

\* The running extreme of a column that the operator needs: from the right for >
\* and >=, from the left for < and <=.
EnvelopeOf(p) ==
    [j \in Right |-> IF p.op \in SuffixOps THEN Max({p.right[k] : k \in 0 .. j})
                     ELSE Min({p.right[k] : k \in j .. RightLen - 1})]

\* anchor_is_envelope_of: shown from the values.
IsEnvelope(anchor, p) ==
    /\ p.op \in RangeOps
    /\ anchor.op = p.op /\ anchor.left = p.left
    /\ anchor.right = EnvelopeOf(p)

\* The distinct values of a column, and how many are less, or at most, as large.
Values(column) == {column[x] : x \in DOMAIN column}

Below(column, value) == Cardinality({d \in Values(column) : d < value})
UpTo(column, value)  == Cardinality({d \in Values(column) : d <= value})

\* residual_rank_thresholds: a right row satisfies the residual of left row i if
\* and only if its rank is at least the threshold of i.
RightRank(p, j) ==
    IF p.op \in SuffixOps THEN Below(p.right, p.right[j])
    ELSE Cardinality(Values(p.right)) - 1 - Below(p.right, p.right[j])

LeftThreshold(p, i) ==
    LET value == p.left[i]
        ranks == Cardinality(Values(p.right))
    IN  CASE p.op = "<"  -> UpTo(p.right, value)
          [] p.op = "<=" -> Below(p.right, value)
          [] p.op = ">"  -> ranks - Below(p.right, value)
          [] p.op = ">=" -> ranks - UpTo(p.right, value)

\* reverse_residual_rank_thresholds: the same for the left rows that right row j
\* asks for.
LeftRank(p, i) ==
    IF p.op \in SuffixOps THEN Cardinality(Values(p.left)) - 1 - Below(p.left, p.left[i])
    ELSE Below(p.left, p.left[i])

RightThreshold(p, j) ==
    LET value == p.right[j]
        ranks == Cardinality(Values(p.left))
    IN  CASE p.op = "<"  -> ranks - Below(p.left, value)
          [] p.op = "<=" -> ranks - UpTo(p.left, value)
          [] p.op = ">"  -> UpTo(p.left, value)
          [] p.op = ">=" -> Below(p.left, value)
=============================================================================
