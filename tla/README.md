# janitor-rs in TLA+

janitor-rs computes the row positions (and aggregates) of non-equi joins for
pyjanitor's `conditional_join`: NumPy arrays in, NumPy arrays out. This directory
models its kernels, checks the models with TLC and proves what carries the
most weight with TLAPS.

The library is one Rust crate without threads, without persistence and without I/O
beyond its arguments. Its difficulty lies elsewhere: every kernel replaces a nested
loop over row pairs by a clever order of visiting rows, and most of them run
several *passes* over the same data (find matching rows, count, allocate, write)
where each pass must reach exactly the decisions of the one before. The models
therefore follow the loops of the code, one action per iteration, and ask
whether what comes out of the last pass is what a nested loop would have given.

## The system

Paths are relative to `src/src/`. "State" is what a component keeps between the steps of
one call; nothing survives a call.

| Component | Source | State | Operations | Correct when |
|---|---|---|---|---|
| Comparison operators | `conditional_join/compare_op.rs` | none | decode, `apply` | only the documented names decode; `apply` is the order |
| Binary search | `join_search.rs` | a bracket `[low, high)` | `partition_point`, `partition_point_between`, `range_window`, `range_boundary` | the window holds exactly the matching rows |
| Result and keep types | `join_types.rs` | none | `Keep::parse`, result dictionaries | as documented per keep policy |
| Region labels | `regions.rs` 408-533, 1931-2091 | boundaries, event counts, labels, the set of gathered positions | `build_region_paths` and its typed workers | a label comparison decides the predicate; a faulty alignment is refused |
| Dual-region index join | `regions.rs` 590-1300, 2100-2340 | label paths, search order, sweep position, running maximum, rank layout, offsets, output | one sequence of sweeps per keep policy | passes agree; no pair lost or repeated; the kept row is the right one |
| Active-rank structures | `regions.rs` 40-400 | counts, two-level bitset, Fenwick cells, tree of extremes | activate, iterate from a rank, suffix sum, suffix extreme | same answers as a plain record of activations |
| Dual-region join with residuals | `regions.rs` 1567-1908 | as above, and per-row candidates | collect, count, write | as the dual join, for the pairs the residuals accept |
| N-region index join | `regions.rs` 1363-1560, 2350-2985 | label paths per dimension, work budget, chosen generator, output | prepare, plan, sweep or tree, select, count, write | same answer from either generator; passes agree |
| Region kd-tree | `region_kd_tree.rs` | an order of the rows, an arena of nodes, the open part of a query | build, query above, query below | exactly the rows asked for; stops on request |
| Region aggregation | `regions.rs` 2990-4062 | label paths, rank structures, aggregate states | sums, counts, extremes over the dual and n-region join | equals the aggregate over the joined pairs |
| Residual predicates | `predicate.rs` | validated typed columns | `predicates_match`, `predicates_match_window` | null rows never match except where `!=` says so; windowed and single forms agree |
| Candidate materialization | `join_candidate_materialization.rs` | per-row counts and offsets | count pass, write pass, select | both passes keep the same pairs |
| Range skip scan | `range_skip_scan.rs` | block and super-block summaries, walk position, open run | report matches, report open runs, count | no matching row is skipped |
| Single-range join | `single_range_predicate.rs` | windows, prefix or suffix extremes | the four policies over one window per row | as documented per policy |
| Range join | `range_join.rs`, `range_predicate.rs` | windows of both bounds, tree of extremes, ranks of a residual, sampled estimate | two-sided joins with and without residuals, envelope sweep, aggregation | as documented per policy, whichever way the windows are read |
| Existence by staircase | `staircase_any.rs` | sorted right rows, best row of each suffix or prefix | sort, search in batches | finds a match whenever one exists |
| Packed spans | `aggregation/packed_spans.rs` | merged spans and their offsets | merge, assign, pack | packed coordinates keep every window contiguous |
| Not-equal join | `not_equals_only.rs` | merge position, null groups, prefix and suffix extremes | the four policies, residuals | all pairs with different values and no others |
| Equality join | `equi_join.rs` | per-row windows, envelope of the second column, chosen reader, output | narrow, materialize, select, aggregate | narrowing loses no match; as documented per policy |
| Join aggregation glue | `join_aggregation_helpers.rs` | none | choose windows, feed the state | each row is fed its own window |
| Aggregation state | `aggregation/state.rs`, `common.rs` | running aggregates, prefix sums, segment trees | per-window, sweep and tree updates | equals the aggregate over the window |
| Aggregation input | `aggregation/input.rs` | none | parse Python arguments | accepts the documented forms |
| Module registration | `lib.rs` | none | PyO3 registration | - |

**How components interact.** By calls and return values. A caller (pyjanitor)
sorts the right column of each predicate and passes a permutation back to the first
predicate's order; binary search turns values into boundaries; region labels turn
boundaries into integers; the dual and n-region joins sweep over the integers and
feed the active-rank structures or the kd-tree; callbacks hand candidates to residual
predicates and may ask the generator to stop. The equality join feeds its windows to
binary search, the skip scan and the residuals. A kernel returns `None` for "no row
has a match" and a Python error for what it calls an internal inconsistency.

**What is hard.** Not concurrency, failure or time, of which there is none, but:

- *ordering*: a sweep needs left rows in the order of their first label and an
  unstable sort leaves ties open; a write pass relies on the order of a count pass;
- *staleness*: a running maximum answers a row with a position another row opened;
  a cut-off computed for one window must not outlive it; labels gathered into one
  order must not be compared with labels in another;
- *several passes over one protocol*: sized by one, filled by another, read by a third;
- *boundaries*: bitset words, block edges, power-of-two trees, empty windows, sentinel labels;
- *choice of algorithm*: budgets and samples choose a generator; the answer must
  not depend on the choice.

`PROJECT.json` lists the places one by one ("hazards") with the properties that cover them.

## The modules

| Module | Models | Based on |
|---|---|---|
| `CompareOp` | the operators and `apply` | - |
| `JoinSearch` | `partition_point`, `range_window`, `range_boundary` | `CompareOp` |
| `RegionPaths` | what the labels of one predicate are, as operators on boundaries | - |
| `RegionLabels` | the loops that compute those labels, with filter, alignment and mask | `RegionPaths`, `CompareOp` |
| `RangeJoin` | the abstract specification of every index join: `Safety` (no wrong answer, no second one), and `Spec`, which adds that every row is answered | - |
| `PairAggregation` | the abstract specification of every aggregation of a join | `AggregationSets` |
| `DualRegions` | state and preparation of the dual-region join | `RegionPaths` |
| `KeepAny` | its passes for `keep="any"` | `DualRegions` |
| `RegionLayout` | the filter and the layout by label rank that the other passes share | `DualRegions` |
| `LayoutPasses` | its passes for `keep="all"`, `"first"` and `"last"` | `RegionLayout` |
| `ResidualPasses` | its two walks over candidates when there are residual predicates | `LayoutPasses` |
| `DualRegionIndices` | the whole join, its properties, its refinement of `RangeJoin` | the five above |
| `ActiveRanks` | the three structures over label ranks | - |
| `RegionKdTree` | building and querying the kd-tree | - |
| `NRegion` | the index join over three or more predicates, and what its candidates are aggregated into | `RegionPaths`, `RangeJoin` |
| `RangeSkipScan` | summaries of an unordered column and the walks over them | `CompareOp` |
| `EquiRange` | arguments, narrowing and materialization of the equality joins | `CompareOp` |
| `EquiJoins` | their five entry points and the feeding of aggregations; properties and refinement | `EquiRange`, `RangeJoin` |
| `NotEquals` | the join whose predicates are all `!=` | `RangeJoin` |
| `RangeWindows` | windows, packed spans, the sampled estimate, ranks and thresholds, as operators | `CompareOp` |
| `WindowJoin` | window joins: state, search, residual predicates with null masks and their readers, counting, emitting, the probes of `keep="any"` | `RangeWindows` |
| `PackedExtremes` | extremes of windows by scan or by a segment tree over packed spans | `WindowJoin` |
| `EnvelopeSweep` | sampled estimate, ranks of a residual, Fenwick tree of extremes | `WindowJoin` |
| `Staircase` | the existence join over unordered right columns | `WindowJoin` |
| `WindowJoins` | the five entry points together, their properties and refinement | the four above, `RangeJoin` |
| `AggregationSets` | accumulators as values: update, merge, rank tree nodes | - |
| `AggregationState` | the six bulk methods of the accumulators with all their plans | `RangeWindows`, `AggregationSets` |
| `WindowAggregates` | aggregations over windows, by bulk method, pair by pair or rank tree | `AggregationState` |
| `JoinAggregates` | these and the dual-region aggregations; properties and refinement | `WindowAggregates`, `RegionPaths`, `PairAggregation` |
| `MC...` | instances for TLC (`ActiveRanks` needs none) | the module of that name |
| `...Proofs` | theorems and proofs | see below |

**Correspondence.** Variables carry the names the code gives them (`previous_end`,
`left_has_match`, `layout_offsets`, ...); `pc` names the loop that runs, or how the
call returned; `row` is that loop's index. An action is one iteration of a loop,
or the end of a loop with all the straight-line code up to the next. Early
returns are actions of their own. `PROJECT.json` "map" gives the lines of every definition.
Variables are 0-based like the code; Rust slices are functions on `0 .. n - 1`.

**Composition.** `DualRegionIndices`, `WindowJoins`, `EquiJoins` and `JoinAggregates` compose
several modules each over one set of variables.
Elsewhere a module takes another's result as given and the other module shows it:

| Assumed in | What | Shown in |
|---|---|---|
| `RegionLabels` | the window of a value in a sorted column | `JoinSearch` (`WindowIsExact`; proved) |
| `DualRegions`, `NRegion` | labels are those of `RegionPaths` | `RegionLabels` (`LabelsAreCounts`; proved) |
| `DualRegions` (`FirstRank` and above, in order) | iteration over the open ranks | `ActiveRanks` (`ScanIsExact`) |
| `DualRegions` (keep first and last) | best index among the open ranks | `ActiveRanks` (`SuffixExtremeIsExact`) |
| `NRegion` | a tree query's answer, as a set | `RegionKdTree` (`VisitIsExact`) |
| `NRegion`, `EquiJoins`, `NotEquals` (aggregations) | what the accumulators do with the pairs they are fed | `JoinAggregates` (`ImplementsPairAggregation`) |
| `EquiRange`, `WindowJoin` | boundaries of a window | `JoinSearch` |
| `EquiRange`, `WindowJoin`, `WindowAggregates` | the rows a skip scan reports | `RangeSkipScan` (`ScanIsExact`; proved) |

**Contract of the caller.** Right columns ascend or descend as the kernels document. In
`NotEquals`, the left maps and null lists ascend ("physical positions in original row order", `not_equals_only.rs`
270): validation checks that they partition the rows, not their order, and the walk
passes over a row that is not the next of a map, so the order is an assumption
(`IsCall`) and not a conclusion. Rows of either side are named by their positions
there; the full position arrays only relabel them.

In the equality joins, left rows with one key share a window, the windows of different keys are
disjoint, and the right rows of a key ascend for the first range. `equi_only_indices` with
`keep="any"` or with ordered labels takes the first or last row of a window unseen, so those
calls have no empty window; `equi_uniq_residual_indices` and the aggregation without windows pair row
`i` with row `i`.

In `WindowJoin`, the right columns of anchors ascend in the one order they share
(layout contract, `range_join.rs` 22), but for the existence join, which sorts for itself; and
right labels are distinct. Null masks come only with `!=`: the parser refuses them elsewhere
(`predicate.rs` 651).

**Abstractions.** Values are integers of a small range, since the kernels only compare them;
NaN is outside the kernels' contract (stated at `equi_join.rs` 362 and 600 and
`staircase_any.rs` 19) and does not occur. A dispatch over element types is one definition.
`left_index` is the identity: it is only copied to the output. `right_index` is not, since
first and last compare it. An unstable sort or selection is a choice over all outcomes
it permits. The gates that choose an algorithm by a sample or a ratio of sizes are
arbitrary choices: both outcomes must be right. Residual predicates are columns with operators
and null masks in `WindowJoin`, where they are evaluated in four ways, and columns in
`WindowAggregates`; elsewhere they are a set of accepted pairs. The residuals of an aggregation have no null
masks: a masked pair is accepted or rejected by the same `predicates_match_dispatch` or
`predicates_match_window` as in `WindowJoin`, and what masks keep a call from, the envelope sweep
(`range_join.rs` 2421, 2436), needs a range as its residual, which never has one. Aggregated integers
wrap at a width of 4 bits; a floating sum or product *is* the order in which its values are met. Overflow of totals (`checked_add` on `usize`) needs more rows than memory
holds and is left out.

## What the runs check

| Run | Shows | Bounds |
|---|---|---|
| `join_search` | the bisection returns exactly the matching rows, ties included, for both callers, and ends | every sorted column of 5 values in 0..2, every probe in -1..3 |
| `region_labels` | label comparison decides value comparison, after filter, alignment and mask; labels are counts of windows begun; a repeated, negative, excessive or short alignment is refused | 2 left, 3 right rows, values 0..2, all permutations and five faulty alignments |
| `dual_region_indices` | no internal error (an out-of-order window is one), an active count always delimits the open rows of a rank, the filter is exact, no pair leaves twice (`NoPairTwice`), and the whole, with and without residuals, implements `RangeJoin` (`AnswersAsRangeJoin`) and ends (`AnswersEveryRow`) | 3 left, 3 right rows, all pairs of windows, all four policies, all tie orders; residuals that reject a pair of each row |
| `dual_regions_all_order` | *violation*: `keep="all"` does not emit a row's matches in right-array order | 2 by 2 rows |
| `active_ranks` | scan, suffix sum and suffix extreme equal the plain record | 9 ranks, words of 2 bits, 3 activations |
| `region_kd_tree` | the tree is a partition of the rows with right bounding boxes; a query sees exactly the rows it asks for, once each, and stops on request | 5 points, 3 dimensions, leaves of 2, every outcome of the selection |
| `n_region` | either generator gives the answer of `RangeJoin`, for index joins and for what an aggregation is fed in either direction; the work counted for the budget is the work the sweep would do; the second visit fits the first; malformed calls are refused | 2 left, 3 right rows, 3 predicates (4 for aggregations), budget 2, samples of 2 rows |
| `range_skip_scan` | walks report and count exactly the matches, runs cover them, at every alignment of the window to the blocks | 7 rows, blocks of 2, super-blocks of 2 blocks |
| `equi_range` | narrowing keeps every match, index pairs leave in left and right order, a window cut by the envelope ends at a match of the second range, and every entry point implements `RangeJoin`; an aggregation is fed each matching pair once, into one slot per label | 2 left, 3 right rows, values 0..2, all operators, with and without residuals, five layouts of windows (shared key, two keys, an inactive row, out of bounds, empty); aligned rows with repeated labels; arrays of right and wrong length |
| `not_equals` | validation accepts partitions only; the merge meets every left row; capacity and count are exact; walks keep left order and emit no pair twice; the whole implements `RangeJoin` | 3 left rows with values 0, 1, 1, any of them null; 3 right rows with values 0..2 or null, ties in every order; eight faulty partitions; all entries and policies; both kinds of nulls |
| `window_joins` | every way to read windows (ends, prefix and suffix tables, scan, segment tree, probes, envelope sweep, staircase) and every way to ask residuals of them (pair by pair, over a whole window, promoted to a skip scan, over its runs), with null masks, answers as `RangeJoin` promises; pairs come in left order and, within a row, right order; the far end of a window decides it where the code says so; the Fenwick tree is right at every insertion | 4 left, 4 right rows, values 0..2; windows of 2 rows get a mask; probes of 1 row, 2 blocks of 1 sample, batches of 3; families of calls per entry point, with nested, touching, overlapping and separate windows |
| `join_aggregates` | over windows and over dual regions, forward and reverse, every plan (direct scans, running tables, wrapped prefix differences, segment trees, event sweeps, rank trees) comes to what `PairAggregation` promises of the joined pairs; floating reductions over windows meet their values in source order; no node of a rank tree is ever stale; a threshold sweep has inserted exactly the rows of the asking slot's window | 4 left, 5 right rows, one of them null; integers of 4 bits, with sums and products that overflow; ten operations at once; thresholds of the plans lowered so that each plan is chosen |

**Why the bounds are enough.** The kernels have no arithmetic on values, so a small domain
with ties below, at and above every probe gives every outcome of every comparison.
Three rows per side give two ties and one distinct row, an inactive row between active ones,
and windows that nest, coincide and are disjoint. Structural constants (word width,
block and super-block size, leaf size, sample size, budget) are parameters and are set so
small that every level of the structure is reached and every "skip a whole group" branch
fires with partial groups at both ends; 64-bit words, 32-row blocks and 64-row-per-row
budgets of the code differ only in size. `MCDualRegionIndices` and `MCNRegion` list
the windows of the first predicate in one fixed order: left rows enter the joins only
through their windows and the search order is computed from them, so permuting left
rows in all predicates renames rows and nothing else. They use alignments that include
one that is not its own inverse (a rotation), so that gathering and scattering differ.
`MCEquiRange` fixes the shape of the key windows to five: one key shared by two rows, keys of
different size, an inactive row, a window out of bounds, an empty one. `MCWindowJoins` has four left rows because three windows or fewer never get a tree, and
three lanes so that a batch and a tail both run; two sample blocks of one probe make four rows
more than the estimate reads, and a batch of one probed row leaves a middle of a window undecided.
`MCJoinAggregates` has one query more than is answered directly, and five right rows do not fill a
tree of eight leaves; four bits let every sum of three values wrap. `MaxActivations` bounds the
sweep in `ActiveRanks`; three activations put two in one word and one in
another group, or three in three. Its nine ranks in words of two bits make five words and three
summary words, so that a scan meets empty words inside a group, whole empty groups and a partial
last word, and the tree has leaves beyond the last rank.

**Fairness and liveness.** A call is one sequential computation: as long as the
process runs, the next statement is executed. `WF_vars(Next)` says just that, and liveness
(`Returns` of the search, `VisitIsExact` of the tree, `AnswersEveryRow` of the dual-region join, the
"every row is answered" part of `RangeJoin` for the other joins and of `PairAggregation`)
says that the loops end. Three modules state safety only and assume no fairness: `RegionLabels`, whose loops all
run over fixed ranges, `RangeSkipScan`, and `ActiveRanks`, a structure that does what its caller asks. `CHECK_DEADLOCK FALSE` appears in every configuration whose model
is a call that returns and then has nothing left to do.

**A divergence from the documentation.** `Keep::All` is documented as emitting pairs "in
physical right-array order" (`join_types.rs` 18). The dual-region kernel groups a row's
matches by label rank and, inside a rank, by the order of opening. Run
`dual_regions_all_order` shows two matches of one row with descending right positions; the
set of pairs is right. The equality join does keep the documented order (`AllInRightOrder` in
run `equi_range`).

**Outside the contract.** `equi_only_indices` documents `None` "when the windows contain no rows"
(`equi_join.rs` 2280), but `keep="any"` reads `right_index[start]` of an empty window, which is
another key's row; its callers pass no empty windows, and the model assumes it.

**A claim with a condition.** `join_candidate_materialization.rs` 227 says that a window
whose second anchor is the envelope of the only residual "always has a match at one of its
two ends". `EnvelopeEndsDecide` holds for anchors that bound the window on opposite sides; with two
anchors on the same side a row can stay undecided and is then searched, so the answer is right
all the same (`ImplementsRangeJoin`).

## What is proved

All for any number of rows, any values and any calls that meet the named
assumptions of the modules.

| Module | Theorem | Says |
|---|---|---|
| `JoinSearch` | `SearchInvariant`, `SearchIsExact` | the window of a search is exact |
| `RegionPathsProofs` | `LabelsDecideWindow` | comparing labels decides membership in the window |
| `RegionLabelsProofs` | `LabelsAreCountsTheorem` | the loops over events compute the counts that comparison needs |
| `RegionLabelsProofs` | `AlignmentIsCheckedTheorem` | an alignment is applied exactly when it is a permutation |
| `RegionLabelsProofs` | `LabelsDecidePredicateTheorem` | what the call returns decides the predicate, through filter, alignment and mask |
| `DualRegionProofs` | `PathsInvariant` | paths and search order are what the sweeps assume |
| `DualRegionProofs` | `NeverOutOfOrderTheorem` | no sweep of any policy meets a window out of order |
| `DualRegionProofs` | `FilterIsExactTheorem` | the running maximum flags exactly the rows with a match |
| `DualRegionProofs` | `SelectionIsExactTheorem` | a stale maximum still selects a matching row, for exactly the right left rows |
| `DualRegionProofs` | `KeepAnyIsCorrect` | the finished `keep="any"` call answers each row with a match once, with a match of it |
| `DualRegionProofs` | `ActivePrefixTheorem` | an active count delimits exactly what is open of its rank, in every sweep of the layout |
| `DualRegionProofs` | `PassesAgreeTheorem` | no policy, with or without residuals, returns an internal error |
| `DualRegionProofs` | `TypeOKTheorem` | every variable keeps its type; every index stays inside its array |
| `DualRegionProofs` | `AnswersAsRangeJoinTheorem` | the join implements `RangeJoin`, under every policy, with and without residuals: no row is answered wrongly, or twice |
| `DualRegionProofs` | `NoPairTwiceTheorem` | no pair is put out twice as long as right labels differ |
| `NRegionProofs` | `VisitInvariant` | what a visit has handed over are the matches of the rows passed, whichever generator runs |
| `NRegionProofs` | `PassesAgreeTheorem` | with three or more predicates, no internal error either |
| `NRegionProofs` | `PlanIsExactTheorem` | the counted work that chooses the generator is the sweep's real work |
| `NRegionProofs` | `AnswersAsRangeJoinTheorem` | the join and its aggregations implement `RangeJoin`, whichever generator runs and in whatever order |
| `NRegionProofs` | `NoPairTwiceTheorem` | no pair is put out, or given to an aggregation, twice as long as right labels differ |
| `NotEqualsProofs` | `PartitionsAreCheckedTheorem` | what passes validation names every row once |
| `EquiJoinsProofs` | `NarrowingKeepsMatchesTheorem` | no bisection of an equality join cuts a match out of its window |
| `EquiJoinsProofs` | `CutEndsAtMatchTheorem` | a window cut by the envelope for `>` or `>=` ends at a match of the second range |
| `EquiJoinsProofs` | `AllInRightOrderTheorem` | index pairs of an equality join come in left order, those of a row in right order, none twice |
| `EquiJoinsProofs` | `AnswersAsRangeJoinTheorem` | every equality join implements `RangeJoin`, aggregations in both directions and refused calls included |
| `EquiJoinsProofs` | `EveryPairOnceTheorem` | a call that returns pairs returns none twice, and gives all values of a right label to one slot |
| `RangeSkipScanProofs` | `ScanIsExactTheorem` | a skip scan reports or counts each matching row of its window once, in order, whatever it passes over |
| `RangeSkipScanProofs` | `RunsCoverMatchesTheorem` | the runs of opened blocks lie apart and cover every match |
| `NotEqualsProofs` | `EveryRowIsWalkedTheorem` | no walk of the all-`!=` join misses a left row |
| `NotEqualsProofs` | `CapacityIsExactTheorem` | the pairs emitted are as many as were counted from values and lengths alone |
| `NotEqualsProofs` | `WalksInLeftOrderTheorem` | the merge of its two maps puts pairs out in left order, none twice |
| `NotEqualsProofs` | `AnswersAsRangeJoinTheorem` | the join implements `RangeJoin`, by walks and by direct selection, under every policy, with nulls and residuals |

**Argument.** *Search*: the bracket invariant `IInv` says that everything below `low` is
skipped by the probe and nothing from `high` on; it is inductive because the probe is monotone
along a sorted column (`ProbeIsMonotone`). *Labels*: a right label counts the distinct
windows begun at or before it, a left label is the count at the beginning of its own
window; the count rises exactly at a beginning (`LabelRises`), so the two compare like
positions. *Label loops*: that the search is exact at every row (`SearchInv`), that the running
sum over events is the count at every right row passed (`CountInv`), that labels follow
(`LabelInv`), that gathering has used exactly the positions it has marked (`GatherInv`) and that a mask
sets to nothing only what no partner could use (`MaskInv`). *Sweeps*: neither `NeverOutOfOrder` nor `FilterIsExact` is inductive. They rest
on `PathInv` (labels are those of the call; the search order descends), on it `SweepInv`
(what is open is a suffix that no remaining row's window passes), and on that `FilterInv`
(the maximum is the largest second label in the open suffix, and every visited
row has been decided by it). For `keep="any"` the decisive point is that the row which holds the
maximum was opened by an *earlier* left row: `AnyInv` says it lies in the open suffix, and
since windows only grow it lies in the current window too. `EmitInv` carries the selection through
the second pass to the output. *Layout*: what a sweep has opened when it stands at a row is a function of the row
alone (`OpenInv`, through `OpenAt`), so two sweeps that stand at the same row have opened the same positions;
`LayoutInv` describes totals, slices and places by those sets, and the place of a position is its
number in the order of opening. *Agreement of passes*: each counting pass stores for a row a function of what
is open there (`CountInv`, `AskInv`), each emitting pass meets the same function, and the places and the
reserved total are sums of it (`SumInv`, a function that satisfies the recursion of a sum, since a
recursive definition over data cannot be used). A rank has an extreme exactly when something of it is
open (`BestInv`), so a flagged row always finds one, and the number of flagged rows is what was reserved
(`MatchInv`). Together they are the inductive `AgreeInv`, from which both `PassesAgree`
and `TypeOK` follow. *Refinement*: what a sweep has open for a row, at or above the row's second label, is the set
of its matches (`RanksDecide`, `CandidatesAreMatches`), and the slots a rank's active count delimits hold
exactly what is open of it (`SlotsHoldCandidates`), so each emitting loop has only to write what it is
given. Four invariants say of a half-written output that it does so far: copied for `keep="all"` (`CopyInv`),
reduced to the extreme for first and last (`ExtremeInv`), picked for any (`SelectInv`), and `PolicyInv`
keeps the passes of one policy apart from those of another. A visit of the last pass answers one row of `RangeJoin`, with
nothing if the row is passed over (`RowStep`), a return of `None` answers all rows (`NoneStep`), and every
other step stutters; no step changes an answer (`Steady`). The inductive `RefineInv` is `AgreeInv` and these.
An answer of `RangeJoin` is a set and does not show a pair put out twice; that there is none follows from the
same invariant, since the places of a row are as many as its matches (`HoldsOnce`) and no position is in two
of its slots (`SlotsHoldOnce`).
*Three and more regions*: the labels are masked after the starts were searched, which is harmless because masking
takes out only rows that match nothing (`DominationDecides`, `StartsAreExact`). A pair belongs to a row of the
generator; `Seen` says which pairs are behind, by the number of the row and what is left of its candidates. Entering a
row adds nothing to it, since sweep and tree both hand over all of the row's matches (`EnteringKeeps`): in the sweep the
window stands for the first comparison, and a row found hopeless has no candidate because the maxima cover all that
is open (`HopelessHasNone`). Handing over a candidate adds just that pair (`HandingOver`). So counts, the chosen row and the output are
functions of `Seen` (`CountInv`, `SelectInv`, `OutInv`), and when a pass has ended everything has been seen (`EverythingSeen`);
each ending step then answers all rows of `RangeJoin` at once (`EndIsPermitted`). The plan's total is the number of
pairs in both windows of the rows passed (`PlanInv`).
*Narrowing*: a bisection keeps what satisfies its predicate if the
column ascends over the window (`BisectionKeeps`), whatever it probes. The first column ascends by contract, the
second because the code looked (and windows only shrink after, `WindowInv`), an envelope because it is the
running extreme of the whole key (`EnvelopeInv`; keys are equal or disjoint, so a row of the envelope
has one value for all windows of its key), and it accepts all that its column accepts (`EnvelopeAscends`).
That keys are apart is what the proof needs of the caller and the code does not check. *Order of equality joins*: `OrderInv` says
that everything put out so far belongs to earlier left rows, so a row's candidates, themselves in ascending order,
may be appended (`RowExtends`); a selecting pass appends at most one (`PairExtends`). *Equality joins as range joins*:
a window narrowed by a column that ascends holds only what satisfies that column's predicate (`NarrowDrops`), and
where the envelope narrowed it the chosen path compares again; `ExactInv` says so, and that no pass goes on past a row it
would refuse. With narrowing's invariant the candidates of a valid call are therefore exactly its matches (`CandidatesMatch`).
What is put out is read by what it shows, a left row and a right label, since a reversed aggregation puts out slots: the slots
number the first rows of the labels, and a slot leads back to its label (`SlotShowsLabel`). `Fed` says that the rows
passed have in the output what their policy allows of their candidates, and nothing is shown twice; every pass keeps it (`RowIsFed`),
the windows handed over at once and the extremes taken at once establish it (`WholeIsFed`, `ExtremaAreFed`). A pass that ends has
shown the call to be valid (`PassedIsValid`), a refusal that it is not (`RefusedIsInvalid`). *Skip scan*: a summary keeps the most permissive value
of its rows for the comparison, so a summary that fails speaks for all of them, at both levels; hence everything before
the block where the walk stands is settled, matches reported or counted and runs recorded (`SettledInv`), however
far it jumped. For runs, `RunsInv` adds where the open run began and that finished ones end before it. *All-`!=` join*: validation checks length, range and
repetition but never that a row is named; `PartitionNamesEveryRow` closes the gap (an
injection between finite sets of one size is onto). The walk's invariant `Merged` says that
both maps are split at the current row and that their two offsets add up to it; since the row is named
once and the maps ascend, it is the next of exactly one of them (`RowIsNext`). The visits of a row name no right
row twice, since the right maps are a partition too, and are as many as `PairsOfValue` or `PairsOfNull` says. The
capacity is thereby the sum along the value map and a product for the nulls; `CapacityInv` relates what is emitted to
that sum up to the two offsets, and for calls with residual predicates to the running total of the walk
before. `OrderInv` is as for equality joins. For the refinement: the right values ascend, so the prefix and the
suffix that the two searches leave are exactly the rows that differ (`EndsDivide`), and what a left row visits is
what matches it (`AcceptedAreMatching`). `AnswerInv` says that the pairs put out are those of the rows passed,
each row's chosen as its policy says (`Picks`); where direct selection passes no pair at all, the extreme of the
extremes of at most three parts is the extreme of their union (`SelectedIsPicked`). Only the steps that end a call
change what `RangeJoin` sees (`EndIsPermitted`).

`KeepAnyIsCorrect` is about calls without residual predicates (`AnyCall`); the refinement is about all calls.

**Only model-checked.** Refinement of `RangeJoin` for window joins and of `PairAggregation`, and everything under
fairness, `AnswersEveryRow` included (liveness is out of the provers' reach); the kd-tree, active-rank structures,
window joins and aggregations.

## Not modelled

- *Floating-point*: what a sum rounds to, and Kahan compensation, which refines the order the
  models keep; NaN is outside the contract.
- *Python objects*: extracting arguments, dispatch on NumPy types, building result
  dictionaries, module registration, benchmarks and their scripts. Each entry point's own
  checks are modelled; `matched` is always kept, where the code drops it unless asked.
- *Performance gates*: sampling, workspace estimates and size ratios are arbitrary choices where
  both outcomes are modelled. That a gate picks the faster algorithm is not a property of the
  answer. The counted budget of `NRegion` and the sampled estimate of `RangeWindows` are modelled,
  since a choice or an early return depends on them.
- *Sparse active ranks*: `ActiveRankCounts` uses an ordered map from ranks to counts when ranks are
  many and rows few; it is the plain record to which `ActiveRanks` compares the dense form.
- *Tables for label ranks*: `compress_region_labels` numbers the labels by a map or by a dense table,
  chosen by a probe and two counts; both give the rank among the distinct labels that `DualRegions` states.
- *Building blocks*: entry points that return intermediate windows to Python
  (`range_window_bounds` and its users) apply to each row the search of `JoinSearch`.
- `materialize_not_equal_candidates` is not called by anything.

## Plan

What remains is to prove more, in this order:

1. `RegionKdTree`: `TreeIsSound` and the safety part of `VisitIsExact`.
