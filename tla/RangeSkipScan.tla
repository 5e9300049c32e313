--------------------------- MODULE RangeSkipScan ---------------------------
(***************************************************************************)
(* The skip scan of an unordered range predicate                           *)
(* (SecondRangeSkipScan in src/src/conditional_join/range_skip_scan.rs).   *)
(*                                                                         *)
(* A right column that is not sorted for its predicate is summarized: every*)
(* block of rows by its most permissive value, every super-block of blocks *)
(* likewise.  Three walks use the summaries to pass over rows of a window  *)
(* that cannot match: one reports the matching positions, one the runs of  *)
(* opened blocks, one only counts.  One action is one turn of their loop.  *)
(***************************************************************************)
EXTENDS CompareOp, SequencesExt

CONSTANTS
    RightLen,           \* length of the right column
    Block,          \* rows of a block: 32 in the code
    Super,          \* blocks of a super-block: 32 in the code
    DirectWidth,    \* narrower windows are read directly: 2 * Block in the code
    Scans           \* the walks considered

Positions == 0 .. RightLen - 1

Walks == {"matches", "runs", "count"}

\* summarized: FALSE for a scanner without summaries; stop: the callback has
\* enough with the first thing reported.
Scan == [walk: Walks, op: RangeOps, left: Int, values: [Positions -> Int],
         start: 0 .. RightLen, end: 0 .. RightLen, summarized: BOOLEAN, stop: BOOLEAN]

ASSUME ScanAssumption ==
    /\ RightLen \in Nat
    /\ Block \in Nat \ {0} /\ Super \in Nat \ {0} /\ DirectWidth \in Nat \ {0}
    /\ \A s \in Scans : s \in Scan /\ s.start <= s.end

VARIABLES
    scan,       \* the scanner and the arguments of the walk; never change
    block,      \* the block the walk stands before
    run_start,  \* where the open run began, or none
    reported,   \* positions, or runs [from, to), handed to the callback
    count,
    pc

vars == <<scan, block, run_start, reported, count, pc>>

NoRun == -1

-----------------------------------------------------------------------------
\* Summaries.

\* The least permissive value instead.
Strictest(values) ==
    IF scan.op \in {"<", "<="} THEN Min(values) ELSE Max(values)

MostPermissive(values) ==
    IF scan.op \in {"<", "<="} THEN Max(values) ELSE Min(values)

BlockRows(b) == b * Block .. Min({(b + 1) * Block, RightLen}) - 1

BlockCount == (RightLen + Block - 1) \div Block

BlockSummary(b) == MostPermissive({scan.values[p] : p \in BlockRows(b)})

SuperSummary(s) ==
    MostPermissive({BlockSummary(b) : b \in s * Super .. Min({(s + 1) * Super, BlockCount}) - 1})

Passes(value) == Apply(scan.op, scan.left, value)

-----------------------------------------------------------------------------
\* Walks.

Matching(from, to) == {p \in from .. to - 1 : Passes(scan.values[p])}

\* The rows of a block that belong to the window.
From(b) == Max({b * Block, scan.start})
To(b)   == Min({(b + 1) * Block, scan.end})

\* The rows in ascending order: the n-th has n - 1 rows before it.
Ascending(rows) ==
    [n \in 1 .. Cardinality(rows) |->
        CHOOSE p \in rows : Cardinality({q \in rows : q < p}) = n - 1]

\* Positions in ascending order; a callback that has enough ends the walk.
ReportMatches(from, to, next) ==
    LET found == Ascending(Matching(from, to))
    IN  IF scan.stop /\ found # <<>>
        THEN reported' = <<found[1]>> /\ pc' = "done"
        ELSE reported' = reported \o found /\ pc' = next

AddMatches(from, to, next) ==
    count' = count + Cardinality(Matching(from, to)) /\ pc' = next

\* The open run, if any, ends before position to.
CloseRun(to, next) ==
    IF run_start = NoRun
    THEN UNCHANGED reported /\ pc' = next
    ELSE reported' = Append(reported, <<run_start, to>>) /\ pc' = IF scan.stop THEN "done" ELSE next

Direct == ~scan.summarized \/ scan.end - scan.start < DirectWidth

ReadDirectly ==
    /\ pc = "start" /\ Direct
    /\ \/ scan.walk = "matches" /\ ReportMatches(scan.start, scan.end, "done") /\ UNCHANGED count
       \/ scan.walk = "count" /\ AddMatches(scan.start, scan.end, "done") /\ UNCHANGED reported
       \/ /\ scan.walk = "runs"
          /\ reported' = IF scan.start = scan.end THEN <<>> ELSE << <<scan.start, scan.end>> >>
          /\ pc' = "done" /\ UNCHANGED count
    /\ UNCHANGED <<scan, block, run_start>>

Enter ==
    /\ pc = "start" /\ ~Direct
    /\ block' = scan.start \div Block
    /\ pc' = "walk"
    /\ UNCHANGED <<scan, run_start, reported, count>>

LastBlock == (scan.end - 1) \div Block

Walking == pc = "walk" /\ block <= LastBlock

\* The note of a super-block is read wherever the walk stands.
SuperFailsHere == ~Passes(SuperSummary(block \div Super))

\* It is read at the first block only.
SuperFails == block % Super = 0 /\ ~Passes(SuperSummary(block \div Super))

SkippedBlocks == IF SuperFails THEN Super ELSE 1

Skip ==
    /\ Walking
    /\ SuperFails \/ ~Passes(BlockSummary(block))
    /\ CloseRun(block * Block, "walk")
    /\ run_start' = NoRun
    /\ block' = block + SkippedBlocks
    /\ UNCHANGED <<scan, count>>

OpenBlock ==
    /\ Walking
    /\ ~SuperFails /\ Passes(BlockSummary(block))
    /\ block' = block + 1
    /\ \/ /\ scan.walk = "matches"
          /\ ReportMatches(From(block), To(block), "walk")
          /\ UNCHANGED <<run_start, count>>
       \/ /\ scan.walk = "count"
          /\ AddMatches(From(block), To(block), "walk")
          /\ UNCHANGED <<run_start, reported>>
       \/ /\ scan.walk = "runs"
          /\ run_start' = IF run_start = NoRun THEN From(block) ELSE run_start
          /\ UNCHANGED <<reported, count, pc>>
    /\ UNCHANGED scan

EndWalk ==
    /\ pc = "walk" /\ block > LastBlock
    /\ CloseRun(scan.end, "done")
    /\ run_start' = NoRun
    /\ UNCHANGED <<scan, block, count>>

Init ==
    /\ scan \in Scans
    /\ block = 0
    /\ run_start = NoRun
    /\ reported = <<>>
    /\ count = 0
    /\ pc = "start"

Next == ReadDirectly \/ Enter \/ Skip \/ OpenBlock \/ EndWalk

Spec == Init /\ [][Next]_vars

-----------------------------------------------------------------------------

\* The matching rows of the window, whatever is skipped.
Expected ==
    {p \in scan.start .. scan.end - 1 : Apply(scan.op, scan.left, scan.values[p])}

\* The walk reports every matching position of the window once, ascending, or
\* the first of them if the callback stops it; the counting walk agrees.
ScanIsExact ==
    pc = "done" =>
        /\ scan.walk = "count" => count = Cardinality(Expected)
        /\ scan.walk = "matches" =>
            reported = IF scan.stop /\ Expected # {} THEN <<Min(Expected)>>
                       ELSE Ascending(Expected)

\* Runs are nonempty pieces of the window with skipped rows between them, and
\* until the callback stops, no matching row lies outside them.
RunsCoverMatches ==
    pc = "done" /\ scan.walk = "runs" =>
        /\ \A n \in DOMAIN reported :
            /\ scan.start <= reported[n][1]
            /\ reported[n][1] < reported[n][2] /\ reported[n][2] <= scan.end
            /\ n > 1 => reported[n - 1][2] < reported[n][1]
        /\ \A p \in Expected :
            \/ \E n \in DOMAIN reported : reported[n][1] <= p /\ p < reported[n][2]
            \/ scan.stop /\ reported # <<>> /\ p >= reported[1][2]
=============================================================================
