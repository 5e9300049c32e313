-------------------------- MODULE EquiJoinsProofs --------------------------
(***************************************************************************)
(* Narrowing the windows of an equality join, for every call and every     *)
(* size: no step loses a match (NarrowingKeepsMatches), although each of   *)
(* the three ways to narrow bisects another column.  The first predicate's *)
(* column ascends within a key by contract; the second's is looked at      *)
(* before it is searched; and an envelope ascends because it is a running  *)
(* extreme of the whole key, of which every narrowed window is a part      *)
(* (EnvelopeInv).  And the order of what is put out: left rows in order, a *)
(* row's right rows in order, none twice (OrderInv).                       *)
(*                                                                         *)
(* Then what is put out at all.  Whatever path reads the candidates, those *)
(* of a valid call are its matches: a row is compared again exactly where  *)
(* windows alone do not prove it (ExactInv).  Every pass gives the rows it *)
(* has passed what the policy allows (Fed, GivenInv), so that the join is  *)
(* a RangeJoin.                                                            *)
(***************************************************************************)
EXTENDS EquiJoins, FiniteSetTheorems, WellFoundedInduction, TLAPS

Narrowing == {"first", "second", "envelope", "narrow"}

\* Windows only shrink, and are narrowed only once they are validated.
WindowInv ==
    /\ call \in Calls /\ row \in Nat
    /\ starts \in [Left -> Int] /\ ends \in [Left -> Int]
    /\ pc \in Narrowing \union {"validate"} => call.windowed
    /\ pc \in Narrowing => \A i \in Left : InUse(call, i) => InBounds(call, i)
    /\ pc = "first" => call.op1 # None
    /\ pc \in Narrowing \ {"first"} => call.op2 # None
    /\ pc \in {"enter", "validate"} => starts = call.starts /\ ends = call.ends
    /\ \A i \in Left : Active(i) =>
        /\ InUse(call, i)
        /\ call.starts[i] <= starts[i] /\ ends[i] <= call.ends[i]
    /\ pc = "second" => SecondAscends

\* Over a key that has been visited, the envelope is its running extreme.
Covered(i) ==
    \A j \in EqualityWindow(i) : envelope[j] = Extreme(EqualityWindow(i), j)

EnvelopeInv ==
    /\ pc = "envelope" => \A i \in Left : i < row => Covered(i)
    /\ pc = "narrow" => \A i \in Left : Covered(i)

NarrowInv == WindowInv /\ EnvelopeInv /\ NarrowingKeepsMatches

USE DEF vars, windowVars

-----------------------------------------------------------------------------
\* Numbers.

LEMMA LeastNatural ==
    ASSUME NEW S \in SUBSET Nat, S # {}
    PROVE  \E m \in S : \A k \in S : m <= k
<1>1. \E m \in S : \A k \in S : <<k, m>> \notin OpToRel(<, Nat)
    BY NatLessThanWellFounded, WFMin, Zenon
<1>2. \E m \in S : \A k \in S : ~(k < m)
    BY <1>1, Zenon DEF OpToRel
<1> HIDE <1>1
<1> QED
    BY <1>2

\* A column takes its extremes on an interval that is not empty.
LEMMA IntervalExtremes ==
    ASSUME NEW a \in Int, NEW b \in Int, a <= b, NEW f, \A k \in a .. b : f[k] \in Int
    PROVE  /\ \E m \in a .. b : \A k \in a .. b : f[m] <= f[k]
           /\ \E m \in a .. b : \A k \in a .. b : f[m] >= f[k]
<1> DEFINE known(n) ==
        /\ \E m \in a .. a + n : \A k \in a .. a + n : f[m] <= f[k]
        /\ \E m \in a .. a + n : \A k \in a .. a + n : f[m] >= f[k]
    unknown == {n \in Nat : a + n <= b /\ ~known(n)}
<1>0. ASSUME NEW n \in Nat, a + n <= b
      PROVE  /\ n = 0 => known(n)
             /\ n # 0 /\ known(n - 1) => known(n)
    <2>1. ASSUME n = 0 PROVE known(n)
        <3>1. a + n = a /\ a .. a = {a} /\ f[a] \in Int
            BY <2>1
        <3> QED
            BY <3>1
    <2>2. ASSUME n # 0, known(n - 1) PROVE known(n)
        <3> DEFINE c == a + n
                   d == a + (n - 1)
        <3>1. d \in Int /\ c \in Int /\ d + 1 = c /\ a <= d /\ c <= b
            BY <1>0, <2>2
        <3>2. /\ \E m \in a .. d : \A k \in a .. d : f[m] <= f[k]
              /\ \E m \in a .. d : \A k \in a .. d : f[m] >= f[k]
            BY <2>2
        <3> HIDE DEF c, d
        <3>3. \A k \in a .. c : k \in a .. d \/ k = c
            BY <3>1
        <3>4. (\A k \in a .. c : f[k] \in Int) /\ c \in a .. c /\ \A k \in a .. d : k \in a .. c
            BY <3>1
        <3>5. \E m \in a .. c : \A k \in a .. c : f[m] <= f[k]
            <4>1. PICK m \in a .. d : \A k \in a .. d : f[m] <= f[k]
                BY <3>2
            <4>2. f[m] \in Int /\ f[c] \in Int /\ m \in a .. c
                BY <3>4
            <4>3. CASE f[m] <= f[c]
                BY <3>3, <4>1, <4>2, <4>3
            <4>4. CASE f[c] <= f[m]
                <5>1. \A k \in a .. c : f[c] <= f[k]
                    BY <3>3, <3>4, <4>1, <4>2, <4>4
                <5> QED
                    BY <3>4, <5>1
            <4> QED
                BY <4>2, <4>3, <4>4
        <3>6. \E m \in a .. c : \A k \in a .. c : f[m] >= f[k]
            <4>1. PICK m \in a .. d : \A k \in a .. d : f[m] >= f[k]
                BY <3>2
            <4>2. f[m] \in Int /\ f[c] \in Int /\ m \in a .. c
                BY <3>4
            <4>3. CASE f[m] >= f[c]
                BY <3>3, <4>1, <4>2, <4>3
            <4>4. CASE f[c] >= f[m]
                <5>1. \A k \in a .. c : f[c] >= f[k]
                    BY <3>3, <3>4, <4>1, <4>2, <4>4
                <5> QED
                    BY <3>4, <5>1
            <4> QED
                BY <4>2, <4>3, <4>4
        <3> QED
            BY <3>5, <3>6 DEF c
    <2> QED
        BY <2>1, <2>2
<1> HIDE DEF known
<1>1. unknown = {}
    <2> SUFFICES ASSUME unknown # {} PROVE FALSE
        OBVIOUS
    <2>1. PICK n \in unknown : \A k \in unknown : n <= k
        BY LeastNatural
    <2>2. n \in Nat /\ a + n <= b /\ ~known(n) /\ n # 0
        BY <1>0, <2>1
    <2>3. n - 1 \in Nat /\ a + (n - 1) <= b /\ ~(n <= n - 1)
        BY <2>2
    <2>4. known(n - 1)
        BY <2>1, <2>3
    <2> QED
        BY <1>0, <2>2, <2>4
<1>2. b - a \in Nat /\ a + (b - a) = b
    OBVIOUS
<1>3. known(b - a)
    BY <1>1, <1>2
<1> HIDE DEF unknown
<1> QED
    BY <1>2, <1>3, Zenon DEF known

LEMMA MaxIsMember ==
    ASSUME NEW S, \E x \in S : \A y \in S : x >= y
    PROVE  Max(S) \in S /\ \A y \in S : Max(S) >= y
    BY Zenon DEF Max

LEMMA MinIsMember ==
    ASSUME NEW S, \E x \in S : \A y \in S : x <= y
    PROVE  Min(S) \in S /\ \A y \in S : Min(S) <= y
    BY Zenon DEF Min

-----------------------------------------------------------------------------
\* Calls.

LEMMA CallFields ==
    ASSUME NEW c \in Calls, c.windowed
    PROVE  /\ c.starts \in [Left -> Int] /\ c.ends \in [Left -> Int]
           /\ c.op1 # None => c.op1 \in RangeOps
           /\ c.op2 # None => c.op2 \in RangeOps
           /\ c.left1 \in [Left -> Int] /\ c.left2 \in [Left -> Int]
           /\ c.right1 \in [Right -> Int] /\ c.right2 \in [Right -> Int]
           /\ RightRows(c) = Right
           /\ \A i \in Left : InUse(c, i) /\ InBounds(c, i) =>
               /\ KeyWindow(c, i) \in SUBSET Right
               /\ c.op1 # None =>
                   \A j, k \in KeyWindow(c, i) : j <= k => c.right1[j] <= c.right1[k]
<1>1. IsCall(c) /\ Call(c) /\ Shape(c)
    BY EquiAssumption DEF IsCall
<1>2. RightRows(c) = Right
    BY <1>1 DEF Shape
<1>3. /\ c.right1 \in [RightRows(c) -> Int] /\ c.right2 \in [RightRows(c) -> Int]
      /\ c.starts \in [Left -> Int] /\ c.ends \in [Left -> Int]
      /\ c.left1 \in [Left -> Int] /\ c.left2 \in [Left -> Int]
      /\ c.op1 # None => c.op1 \in RangeOps
      /\ c.op2 # None => c.op2 \in RangeOps
    BY <1>1 DEF Call
<1>4. ASSUME NEW i \in Left, InUse(c, i), InBounds(c, i)
      PROVE  KeyWindow(c, i) \in SUBSET Right
    BY <1>3, <1>4, EquiAssumption DEF InUse, InBounds, KeyWindow, Right
<1>5. \A i \in Left : InUse(c, i) /\ InBounds(c, i) =>
        (c.op1 # None =>
            \A j, k \in KeyWindow(c, i) : j <= k => c.right1[j] <= c.right1[k])
    BY <1>1 DEF IsCall
<1> QED
    BY <1>2, <1>3, <1>4, <1>5

\* The keys of two left rows are the same or have no right row in common.
LEMMA KeysAreApart ==
    ASSUME NEW c \in Calls, c.windowed, NEW i \in Left, NEW k \in Left,
           InUse(c, i), InBounds(c, i), InUse(c, k), InBounds(c, k)
    PROVE  KeyWindow(c, i) = KeyWindow(c, k) \/ KeyWindow(c, i) \intersect KeyWindow(c, k) = {}
    BY EquiAssumption DEF IsCall

-----------------------------------------------------------------------------
\* Bisection.

\* In an ascending column a bisection leaves nothing that satisfies the predicate
\* on the wrong side, whatever it happened to probe.
LEMMA BisectionKeeps ==
    ASSUME NEW lo \in Int, NEW hi \in Int, NEW values, NEW op \in RangeOps, NEW l \in Int,
           \A k \in lo .. hi - 1 : values[k] \in Int,
           \A j, k \in lo .. hi - 1 : j <= k => values[j] <= values[k],
           NEW b \in Boundaries(values, lo, hi, op, l),
           NEW j \in lo .. hi - 1, Apply(op, l, values[j])
    PROVE  IF op \in RaisesStart THEN b <= j ELSE j < b
<1>1. /\ b \in lo .. hi
      /\ b > lo => Skips(op, l, values[b - 1])
      /\ b < hi => ~Skips(op, l, values[b])
    BY DEF Boundaries
<1>2. CASE op \in RaisesStart
    <2> SUFFICES ASSUME j < b PROVE FALSE
        BY <1>1, <1>2
    <2>1. b - 1 \in lo .. hi - 1 /\ j <= b - 1 /\ b > lo
        BY <1>1
    <2>2. values[j] <= values[b - 1] /\ values[j] \in Int /\ values[b - 1] \in Int
        BY <2>1
    <2> QED
        BY <1>1, <1>2, <2>1, <2>2 DEF RaisesStart, RangeOps, Skips, Apply
<1>3. CASE op \notin RaisesStart
    <2> SUFFICES ASSUME b <= j PROVE FALSE
        BY <1>1, <1>3
    <2>1. b \in lo .. hi - 1 /\ b < hi
        BY <1>1
    <2>2. values[b] <= values[j] /\ values[j] \in Int /\ values[b] \in Int
        BY <2>1
    <2> QED
        BY <1>1, <1>3, <2>1, <2>2 DEF RaisesStart, RangeOps, Skips, Apply
<1> QED
    BY <1>2, <1>3

\* Narrowing a row leaves the others alone and takes from the row's window.
LEMMA NarrowShrinks ==
    ASSUME WindowInv, NEW values, NEW op, NEW lefts, NarrowRow(values, op, lefts)
    PROVE  /\ row \in Left /\ row' \in Nat
           /\ starts' \in [Left -> Int] /\ ends' \in [Left -> Int]
           /\ \A i \in Left : i # row => starts'[i] = starts[i] /\ ends'[i] = ends[i]
           /\ \A i \in Left : Active(i)' =>
                Active(i) /\ starts[i] <= starts'[i] /\ ends'[i] <= ends[i]
<1>1. /\ row \in Left /\ row' \in Nat /\ starts \in [Left -> Int] /\ ends \in [Left -> Int]
      /\ starts[row] \in Int /\ ends[row] \in Int
    BY EquiAssumption DEF WindowInv, NarrowRow, Left
<1>2. CASE ~Active(row)
    BY <1>1, <1>2 DEF NarrowRow, Active
<1>3. CASE Active(row)
    <2>1. PICK b \in Boundaries(values, starts[row], ends[row], op, lefts[row]) :
            \/ /\ starts' = [starts EXCEPT ![row] = IF b = ends[row] THEN -1 ELSE b]
               /\ UNCHANGED ends
            \/ /\ ends' = [ends EXCEPT ![row] = IF b = starts[row] THEN -1 ELSE b]
               /\ UNCHANGED starts
        BY <1>3 DEF NarrowRow
    <2>2. b \in Int /\ starts[row] <= b /\ b <= ends[row]
        BY <1>1, <2>1 DEF Boundaries
    <2>3. starts' \in [Left -> Int] /\ ends' \in [Left -> Int]
        BY <1>1, <2>1, <2>2
    <2>4. \A i \in Left : i # row => starts'[i] = starts[i] /\ ends'[i] = ends[i]
        BY <1>1, <2>1
    <2>5. starts'[row] >= 0 /\ ends'[row] >= 0 => starts[row] <= starts'[row] /\ ends'[row] <= ends[row]
        BY <1>1, <2>1, <2>2
    <2>6. \A i \in Left : starts[i] \in Int /\ ends[i] \in Int
        BY <1>1
    <2> QED
        BY <1>1, <1>3, <2>3, <2>4, <2>5, <2>6 DEF Active
<1> QED
    BY <1>2, <1>3

\* What satisfies the predicate stays, if the column ascends in the window.
LEMMA NarrowKeeps ==
    ASSUME WindowInv, call.windowed, call' = call,
           NEW values, NEW op \in RangeOps, NEW lefts, NarrowRow(values, op, lefts),
           lefts[row] \in Int,
           \A k \in Window(row) : values[k] \in Int,
           \A j, k \in Window(row) : j <= k => values[j] <= values[k],
           NEW i \in Left, NEW j \in Window(i),
           i = row => Apply(op, lefts[row], values[j])
    PROVE  j \in Window(i)'
<1>1. /\ row \in Left /\ starts \in [Left -> Int] /\ ends \in [Left -> Int]
      /\ starts[row] \in Int /\ ends[row] \in Int
      /\ \A k \in Left : k # row => starts'[k] = starts[k] /\ ends'[k] = ends[k]
    BY NarrowShrinks DEF WindowInv
<1>2. Active(i) /\ j \in starts[i] .. ends[i] - 1
    BY DEF Window
<1>3. CASE i # row
    BY <1>1, <1>2, <1>3 DEF Window, Active
<1>4. CASE i = row
    <2>1. PICK b \in Boundaries(values, starts[row], ends[row], op, lefts[row]) :
            \/ /\ op \in RaisesStart
               /\ starts' = [starts EXCEPT ![row] = IF b = ends[row] THEN -1 ELSE b]
               /\ UNCHANGED ends
            \/ /\ op \notin RaisesStart
               /\ ends' = [ends EXCEPT ![row] = IF b = starts[row] THEN -1 ELSE b]
               /\ UNCHANGED starts
        BY <1>2, <1>4 DEF NarrowRow
    <2>2. b \in Int /\ starts[row] <= b /\ b <= ends[row]
        BY <1>1, <2>1 DEF Boundaries
    <2>3. Window(row) = starts[row] .. ends[row] - 1
        BY <1>2, <1>4 DEF Window
    <2>4. IF op \in RaisesStart THEN b <= j ELSE j < b
        BY <1>1, <1>2, <1>4, <2>1, <2>3, BisectionKeeps
    <2>5. starts[row] >= 0 /\ ends[row] >= 0 /\ j \in Int /\ starts[row] <= j /\ j < ends[row]
        BY <1>1, <1>2, <1>4 DEF Active
    <2>6. CASE op \in RaisesStart
        <3>1. starts'[row] = b /\ ends'[row] = ends[row]
            BY <1>1, <2>1, <2>2, <2>4, <2>5, <2>6
        <3> QED
            BY <1>1, <1>4, <2>2, <2>4, <2>5, <2>6, <3>1 DEF Window, Active
    <2>7. CASE op \notin RaisesStart
        <3>1. ends'[row] = b /\ starts'[row] = starts[row]
            BY <1>1, <2>1, <2>2, <2>4, <2>5, <2>7
        <3> QED
            BY <1>1, <1>4, <2>2, <2>4, <2>5, <2>7, <3>1 DEF Window, Active
    <2> QED
        BY <2>6, <2>7
<1> QED
    BY <1>3, <1>4

-----------------------------------------------------------------------------
\* Columns that ascend.

\* No descent between neighbours means no descent at all.
LEMMA NeighboursAscend ==
    ASSUME NEW lo \in Int, NEW hi \in Int, NEW f, \A k \in lo .. hi : f[k] \in Int,
           \A k \in lo .. hi : k + 1 \in lo .. hi => f[k] <= f[k + 1],
           NEW j \in lo .. hi, NEW k \in lo .. hi, j <= k
    PROVE  f[j] <= f[k]
<1> DEFINE less == {n \in Nat : j + n <= hi /\ ~(f[j] <= f[j + n])}
<1>1. less = {}
    <2> SUFFICES ASSUME less # {} PROVE FALSE
        OBVIOUS
    <2>1. PICK n \in less : \A m \in less : n <= m
        BY LeastNatural
    <2>2. n \in Nat /\ j + n <= hi /\ ~(f[j] <= f[j + n]) /\ f[j] \in Int
        BY <2>1
    <2>3. n # 0
        BY <2>2
    <2>4. n - 1 \in Nat /\ j + (n - 1) <= hi /\ ~(n <= n - 1) /\ (j + (n - 1)) + 1 = j + n
        BY <2>2, <2>3
    <2>5. f[j] <= f[j + (n - 1)]
        BY <2>1, <2>4
    <2>6. j + (n - 1) \in lo .. hi /\ j + n \in lo .. hi
        BY <2>2, <2>4
    <2>7. f[j + (n - 1)] <= f[j + n] /\ f[j + (n - 1)] \in Int /\ f[j + n] \in Int
        BY <2>4, <2>6
    <2> QED
        BY <2>2, <2>5, <2>7
<1>2. k - j \in Nat /\ j + (k - j) = k /\ j + (k - j) <= hi
    OBVIOUS
<1> QED
    BY <1>1, <1>2

\* A window that is still in use lies in its key.
LEMMA WindowsInKeys ==
    ASSUME WindowInv, pc \in Narrowing, NEW i \in Left
    PROVE  /\ Window(i) \in SUBSET Right
           /\ Window(i) \in SUBSET EqualityWindow(i)
           /\ EqualityWindow(i) \in SUBSET Right
           /\ Active(i) => InUse(call, i) /\ InBounds(call, i)
<1>1. /\ call \in Calls /\ call.windowed /\ call.starts[i] \in Int /\ call.ends[i] \in Int
      /\ starts[i] \in Int /\ ends[i] \in Int
      /\ InUse(call, i) => InBounds(call, i)
    BY CallFields DEF WindowInv
<1>2. EqualityWindow(i) \in SUBSET Right
    BY <1>1, CallFields DEF EqualityWindow
<1>3. CASE Active(i)
    <2>1. InUse(call, i) /\ call.starts[i] <= starts[i] /\ ends[i] <= call.ends[i]
        BY <1>3 DEF WindowInv
    <2>2. Window(i) = starts[i] .. ends[i] - 1
        BY <1>1, <1>3 DEF Window
    <2>3. EqualityWindow(i) = call.starts[i] .. call.ends[i] - 1
        BY <2>1 DEF EqualityWindow, KeyWindow
    <2> QED
        BY <1>1, <1>2, <2>1, <2>2, <2>3
<1>4. CASE ~Active(i)
    BY <1>1, <1>2, <1>4 DEF Window
<1> QED
    BY <1>3, <1>4

\* Inside a key, the running extreme is taken by a row on its own side, and
\* bounds the rows there.
LEMMA ExtremeBounds ==
    ASSUME NEW a \in Int, NEW b \in Int, NEW j \in a .. b,
           \A k \in a .. b : call.right2[k] \in Int
    PROVE  /\ Extreme(a .. b, j) \in Int
           /\ call.op2 \in RaisesStart =>
                /\ \E m \in a .. b : m <= j /\ Extreme(a .. b, j) = call.right2[m]
                /\ \A k \in a .. b : k <= j => call.right2[k] <= Extreme(a .. b, j)
           /\ call.op2 \notin RaisesStart =>
                /\ \E m \in a .. b : j <= m /\ Extreme(a .. b, j) = call.right2[m]
                /\ \A k \in a .. b : j <= k => Extreme(a .. b, j) <= call.right2[k]
<1> DEFINE f == call.right2
<1>1. CASE call.op2 \in RaisesStart
    <2> DEFINE S == {call.right2[k] : k \in {m \in a .. b : m <= j}}
    <2>0. j \in Int /\ a <= j /\ \A k \in a .. j : f[k] \in Int
        OBVIOUS
    <2> HIDE DEF f
    <2>1. PICK m \in a .. j : \A k \in a .. j : f[m] >= f[k]
        BY <2>0, IntervalExtremes, Zenon
    <2> USE DEF f
    <2>2. {k \in a .. b : k <= j} = a .. j
        OBVIOUS
    <2>3. S = {call.right2[k] : k \in a .. j}
        BY <2>2
    <2>4. \E x \in S : \A y \in S : x >= y
        BY <2>1, <2>3
    <2>5. Max(S) \in S /\ \A y \in S : Max(S) >= y
        BY <2>4, MaxIsMember, Zenon
    <2>6. Extreme(a .. b, j) = Max(S)
        BY <1>1 DEF Extreme
    <2> HIDE DEF S
    <2>7. PICK n \in a .. j : Max(S) = call.right2[n]
        BY <2>3, <2>5
    <2>8. \A k \in a .. j : Max(S) >= call.right2[k]
        BY <2>3, <2>5
    <2>9. n \in a .. b /\ n <= j /\ call.right2[n] \in Int
        OBVIOUS
    <2> QED
        BY <1>1, <2>6, <2>7, <2>8, <2>9
<1>2. CASE call.op2 \notin RaisesStart
    <2> DEFINE S == {call.right2[k] : k \in {m \in a .. b : m >= j}}
    <2>0. j \in Int /\ j <= b /\ \A k \in j .. b : f[k] \in Int
        OBVIOUS
    <2> HIDE DEF f
    <2>1. PICK m \in j .. b : \A k \in j .. b : f[m] <= f[k]
        BY <2>0, IntervalExtremes, Zenon
    <2> USE DEF f
    <2>2. {k \in a .. b : k >= j} = j .. b
        OBVIOUS
    <2>3. S = {call.right2[k] : k \in j .. b}
        BY <2>2
    <2>4. \E x \in S : \A y \in S : x <= y
        BY <2>1, <2>3
    <2>5. Min(S) \in S /\ \A y \in S : Min(S) <= y
        BY <2>4, MinIsMember, Zenon
    <2>6. Extreme(a .. b, j) = Min(S)
        BY <1>2 DEF Extreme
    <2> HIDE DEF S
    <2>7. PICK n \in j .. b : Min(S) = call.right2[n]
        BY <2>3, <2>5
    <2>8. \A k \in j .. b : Min(S) <= call.right2[k]
        BY <2>3, <2>5
    <2>9. n \in a .. b /\ j <= n /\ call.right2[n] \in Int
        OBVIOUS
    <2> QED
        BY <1>2, <2>6, <2>7, <2>8, <2>9
<1> QED
    BY <1>1, <1>2

\* The envelope of a key ascends, and no value of the second column that its
\* operator accepts is refused by it.
LEMMA EnvelopeAscends ==
    ASSUME NEW a \in Int, NEW b \in Int, call.op2 \in RangeOps, NEW l \in Int,
           \A k \in a .. b : call.right2[k] \in Int
    PROVE  /\ \A j, k \in a .. b : j <= k => Extreme(a .. b, j) <= Extreme(a .. b, k)
           /\ \A j \in a .. b :
                Apply(call.op2, l, call.right2[j]) => Apply(call.op2, l, Extreme(a .. b, j))
<1>1. \A j \in a .. b : Extreme(a .. b, j) \in Int
    BY ExtremeBounds
<1>2. ASSUME NEW j \in a .. b, NEW k \in a .. b, j <= k
      PROVE  Extreme(a .. b, j) <= Extreme(a .. b, k)
    <2>1. CASE call.op2 \in RaisesStart
        <3>1. PICK m \in a .. b : m <= j /\ Extreme(a .. b, j) = call.right2[m]
            BY <2>1, ExtremeBounds
        <3>2. m <= k
            BY <1>2, <3>1
        <3>3. call.right2[m] <= Extreme(a .. b, k)
            BY <2>1, <3>2, ExtremeBounds
        <3> QED
            BY <3>1, <3>3
    <2>2. CASE call.op2 \notin RaisesStart
        <3>1. PICK m \in a .. b : k <= m /\ Extreme(a .. b, k) = call.right2[m]
            BY <2>2, ExtremeBounds
        <3>2. j <= m
            BY <1>2, <3>1
        <3>3. Extreme(a .. b, j) <= call.right2[m]
            BY <2>2, <3>2, ExtremeBounds
        <3> QED
            BY <3>1, <3>3
    <2> QED
        BY <2>1, <2>2
<1>3. ASSUME NEW j \in a .. b, Apply(call.op2, l, call.right2[j])
      PROVE  Apply(call.op2, l, Extreme(a .. b, j))
    <2>1. /\ call.op2 \in RaisesStart => call.right2[j] <= Extreme(a .. b, j)
          /\ call.op2 \notin RaisesStart => Extreme(a .. b, j) <= call.right2[j]
          /\ call.right2[j] \in Int /\ Extreme(a .. b, j) \in Int
        BY ExtremeBounds
    <2> QED
        BY <1>3, <2>1 DEF Apply, RangeOps, RaisesStart
<1> QED
    BY <1>2, <1>3

-----------------------------------------------------------------------------
\* Windows stay in their keys.

\* Narrowing takes from every window, and puts nothing into one.
LEMMA WindowsShrink ==
    ASSUME WindowInv, call.windowed, call' = call,
           NEW values, NEW op, NEW lefts, NarrowRow(values, op, lefts), NEW i \in Left
    PROVE  Window(i)' \in SUBSET Window(i)
<1>1. /\ starts[i] \in Int /\ ends[i] \in Int /\ starts'[i] \in Int /\ ends'[i] \in Int
      /\ Active(i)' => Active(i) /\ starts[i] <= starts'[i] /\ ends'[i] <= ends[i]
    BY NarrowShrinks DEF WindowInv
<1> QED
    BY <1>1 DEF Window, Active

\* A step that leaves the windows alone.
LEMMA WindowsStay ==
    ASSUME call' = call, UNCHANGED windowVars, NEW i \in Left
    PROVE  Window(i)' = Window(i) /\ Active(i)' = Active(i)
    BY Zenon DEF Window, Active

LEMMA WindowInit == Init => WindowInv
<1> SUFFICES ASSUME Init PROVE WindowInv
    OBVIOUS
<1>1. call \in Calls /\ Call(call) /\ pc = "enter" /\ row = 0
    BY EquiAssumption DEF Init, IsCall
<1>2. call.starts \in [Left -> Int] /\ call.ends \in [Left -> Int]
    BY <1>1 DEF Call
<1>3. starts = call.starts /\ ends = call.ends
    BY DEF Init
<1>4. \A i \in Left : call.starts[i] \in Int /\ call.ends[i] \in Int
    BY <1>2
<1>5. \A i \in Left : Active(i) =>
        InUse(call, i) /\ call.starts[i] <= starts[i] /\ ends[i] <= call.ends[i]
    BY <1>3, <1>4 DEF Active, InUse
<1> QED
    BY <1>1, <1>2, <1>3, <1>5 DEF WindowInv, Narrowing

\* A row narrowed by the first or the second predicate, or by the envelope.
LEMMA WindowNarrow ==
    ASSUME WindowInv, pc \in Narrowing, pc' = pc, call' = call,
           NEW values, NEW op, NEW lefts, NarrowRow(values, op, lefts)
    PROVE  WindowInv'
<1>1. call.windowed
    BY DEF WindowInv
<1>2. /\ row' \in Nat /\ starts' \in [Left -> Int] /\ ends' \in [Left -> Int]
      /\ \A i \in Left : Active(i)' =>
            Active(i) /\ starts[i] <= starts'[i] /\ ends'[i] <= ends[i]
    BY NarrowShrinks
<1>3. \A i \in Left : Window(i)' \in SUBSET Window(i)
    BY <1>1, WindowsShrink
<1>4. ASSUME NEW i \in Left, Active(i)'
      PROVE  InUse(call, i) /\ call.starts[i] <= starts'[i] /\ ends'[i] <= call.ends[i]
    <2>1. /\ InUse(call, i) /\ call.starts[i] <= starts[i] /\ ends[i] <= call.ends[i]
          /\ starts[i] <= starts'[i] /\ ends'[i] <= ends[i]
        BY <1>2, <1>4 DEF WindowInv
    <2>2. /\ call.starts[i] \in Int /\ call.ends[i] \in Int /\ starts[i] \in Int
          /\ ends[i] \in Int /\ starts'[i] \in Int /\ ends'[i] \in Int
        BY <1>1, <1>2, CallFields DEF WindowInv
    <2> QED
        BY <2>1, <2>2
<1>5. ASSUME pc = "second" PROVE SecondAscends'
    BY <1>3, <1>5 DEF WindowInv, SecondAscends
<1> QED
    BY <1>1, <1>2, <1>4, <1>5 DEF WindowInv, Narrowing

\* A step that narrows nothing, and starts nothing that does.
LEMMA WindowQuiet ==
    ASSUME WindowInv, call' = call, UNCHANGED windowVars, row' \in Nat,
           pc' = pc \/ pc' \notin Narrowing \union {"enter", "validate"}
    PROVE  WindowInv'
<1>1. \A i \in Left : Window(i)' = Window(i) /\ Active(i)' = Active(i)
    BY WindowsStay
<1>2. SecondAscends' = SecondAscends
    BY <1>1 DEF SecondAscends
<1>3. CASE pc' = pc
    BY <1>1, <1>2, <1>3 DEF WindowInv
<1>4. CASE pc' \notin Narrowing \union {"enter", "validate"}
    BY <1>1, <1>4 DEF WindowInv, Narrowing
<1> QED
    BY <1>3, <1>4

LEMMA WindowNext == WindowInv /\ [Next]_vars => WindowInv'
<1> SUFFICES ASSUME WindowInv, [Next]_vars PROVE WindowInv'
    OBVIOUS
<1>0. row \in Nat /\ row + 1 \in Nat
    BY DEF WindowInv
<1>1. FirstPass \notin Narrowing \union {"enter", "validate"}
    BY DEF FirstPass, Narrowing
<1>2. CASE Enter
    <2>1. CASE pc' = "validate"
        <3>1. call' = call /\ UNCHANGED windowVars /\ row' = row /\ pc = "enter" /\ call.windowed
            BY <1>1, <1>2, <2>1 DEF Enter, ValidatesLater
        <3>2. \A i \in Left : Active(i)' = Active(i)
            BY <3>1, WindowsStay
        <3> QED
            BY <2>1, <3>1, <3>2 DEF WindowInv, Narrowing
    <2>2. CASE pc' # "validate"
        BY <1>0, <1>1, <1>2, <2>2, WindowQuiet DEF Enter, Narrowing
    <2> QED
        BY <2>1, <2>2
<1>3. CASE RefuseRow \/ Refuse
    BY <1>0, <1>3, WindowQuiet DEF RefuseRow, Refuse, Narrowing
<1>4. CASE Validate
    <2>1. CASE call.op1 = None
        BY <1>0, <1>1, <1>4, <2>1, WindowQuiet DEF Validate
    <2>2. CASE call.op1 # None
        <3>1. pc = "validate" /\ pc' = "first" /\ call' = call /\ row' = row
              /\ starts' = starts /\ ends' = ends
            BY <1>4, <2>2 DEF Validate
        <3>2. starts = call.starts /\ ends = call.ends /\ call.windowed
            BY <3>1 DEF WindowInv
        <3>3. \A i \in Left : InUse(call, i) => InBounds(call, i)
            BY <1>4, <3>2 DEF Validate, Active, InUse
        <3>4. \A i \in Left : Active(i)' = Active(i)
            BY <3>1 DEF Active
        <3> QED
            BY <2>2, <3>1, <3>2, <3>3, <3>4 DEF WindowInv, Narrowing
    <2> QED
        BY <2>1, <2>2
<1>5. CASE ApplyFirst
    BY <1>5, WindowNarrow DEF ApplyFirst, Narrowing
<1>6. CASE EndFirst
    <2>1. call' = call /\ starts' = starts /\ ends' = ends /\ row' = 0 /\ pc = "first"
        BY <1>6 DEF EndFirst
    <2>2. CASE pc' \in {"second", "envelope"}
        <3>1. call.op2 # None /\ (pc' = "second" => SecondAscends)
            BY <1>1, <1>6, <2>2 DEF EndFirst, Narrowing
        <3>2. \A i \in Left : Window(i)' = Window(i) /\ Active(i)' = Active(i)
            BY <2>1, WindowsStay
        <3>3. SecondAscends' = SecondAscends
            BY <2>1, <3>2 DEF SecondAscends
        <3> QED
            BY <2>1, <2>2, <3>1, <3>2, <3>3 DEF WindowInv, Narrowing
    <2>3. CASE pc' \notin {"second", "envelope"}
        <3>1. pc' = "none" \/ pc' = FirstPass
            BY <1>6, <2>3 DEF EndFirst
        <3> QED
            BY <1>1, <2>1, <3>1, WindowQuiet DEF Narrowing
    <2> QED
        BY <2>2, <2>3
<1>7. CASE ApplySecond
    BY <1>7, WindowNarrow DEF ApplySecond, Narrowing
<1>8. CASE EndSecond \/ EndNarrow
    <2>1. call' = call /\ UNCHANGED windowVars /\ row' = 0 /\ (pc' = "none" \/ pc' = FirstPass)
        BY <1>8 DEF EndSecond, EndNarrow
    <2> QED
        BY <1>1, <2>1, WindowQuiet DEF Narrowing
<1>9. CASE EnvelopeRow
    BY <1>0, <1>9, WindowQuiet DEF EnvelopeRow
<1>10. CASE EndEnvelope
    <2>1. call' = call /\ UNCHANGED windowVars /\ row' = 0 /\ pc = "envelope" /\ pc' = "narrow"
        BY <1>10 DEF EndEnvelope
    <2>2. \A i \in Left : Active(i)' = Active(i)
        BY <2>1, WindowsStay
    <2> QED
        BY <2>1, <2>2 DEF WindowInv, Narrowing
<1>11. CASE Narrow
    BY <1>11, WindowNarrow DEF Narrow, Narrowing
<1>12. CASE MaterializeNext
    <2>1. /\ call' = call /\ UNCHANGED windowVars /\ row' \in {row, row + 1, 0}
          /\ pc' = pc \/ pc' \in {"none", "emit", "done"}
        BY <1>12 DEF MaterializeNext, CountRow, EndCount, EmitRow, EndEmit, SelectExtrema,
                     SelectRow, EndSelect
    <2> QED
        BY <1>0, <2>1, WindowQuiet DEF Narrowing
<1>13. CASE AggregateNext
    <2>1. /\ call' = call /\ UNCHANGED windowVars /\ row' \in {row, row + 1}
          /\ pc' = pc \/ pc' \in {"none", "done"}
        BY <1>13 DEF AggregateNext, HandOver, FeedRow, EndFeed
    <2> QED
        BY <1>0, <2>1, WindowQuiet DEF Narrowing
<1>14. CASE UNCHANGED vars
    BY <1>0, <1>14, WindowQuiet
<1> QED
    BY <1>2, <1>3, <1>4, <1>5, <1>6, <1>7, <1>8, <1>9, <1>10, <1>11, <1>12, <1>13, <1>14
    DEF Next, EntryNext, NarrowNext

-----------------------------------------------------------------------------
\* The envelope covers the keys it has been built for.

\* What holds an extreme of a key does so whichever row of the key is asked.
LEMMA EnvelopeNext == WindowInv /\ EnvelopeInv /\ [Next]_vars => EnvelopeInv'
<1> SUFFICES ASSUME WindowInv, EnvelopeInv, [Next]_vars PROVE EnvelopeInv'
    OBVIOUS
<1>0. FirstPass \notin {"envelope", "narrow"}
    BY DEF FirstPass
<1>1. ASSUME call' = call, NEW i \in Left
      PROVE  /\ EqualityWindow(i)' = EqualityWindow(i)
             /\ \A j : Extreme(EqualityWindow(i), j)' = Extreme(EqualityWindow(i), j)
    <2>1. EqualityWindow(i)' = EqualityWindow(i)
        BY <1>1, Zenon DEF EqualityWindow
    <2> QED
        BY <1>1, <2>1, Zenon DEF Extreme
<1>2. ASSUME call' = call, envelope' = envelope, NEW i \in Left, Covered(i)
      PROVE  Covered(i)'
    BY <1>1, <1>2 DEF Covered
<1>3. CASE pc' \notin {"envelope", "narrow"}
    BY <1>3 DEF EnvelopeInv
<1>4. CASE EndFirst
    <2>1. pc' # "narrow" /\ row' = 0
        BY <1>0, <1>4 DEF EndFirst
    <2> QED
        BY <2>1 DEF EnvelopeInv, Left
<1>5. CASE EnvelopeRow
    <2>1. /\ call' = call /\ pc = "envelope" /\ pc' = pc /\ row \in Left /\ row' = row + 1
          /\ call \in Calls /\ call.windowed
          /\ \A i \in Left : i < row => Covered(i)
        BY <1>5, EquiAssumption DEF EnvelopeRow, EnvelopeInv, WindowInv, Narrowing, Left
    <2>2. envelope' = [j \in Right |->
            IF j \in EqualityWindow(row) THEN Extreme(EqualityWindow(row), j) ELSE envelope[j]]
        BY <1>5 DEF EnvelopeRow
    <2>3. ASSUME NEW i \in Left, i < row \/ i = row, NEW j \in EqualityWindow(i)
          PROVE  envelope'[j] = Extreme(EqualityWindow(i), j)
        <3>1. j \in Right
            BY <2>1, <2>3, WindowsInKeys DEF Narrowing
        <3>2. CASE j \in EqualityWindow(row)
            <4>1. InUse(call, i) /\ InUse(call, row) /\ InBounds(call, i) /\ InBounds(call, row)
                BY <2>1, <2>3, <3>2 DEF EqualityWindow, WindowInv, Narrowing
            <4>2. KeyWindow(call, i) = KeyWindow(call, row)
                  \/ KeyWindow(call, i) \intersect KeyWindow(call, row) = {}
                BY <2>1, <2>3, <4>1, KeysAreApart
            <4>3. j \in KeyWindow(call, i) /\ j \in KeyWindow(call, row)
                BY <2>3, <3>2, <4>1 DEF EqualityWindow
            <4>4. EqualityWindow(i) = EqualityWindow(row)
                BY <4>1, <4>2, <4>3 DEF EqualityWindow
            <4> QED
                BY <2>2, <3>1, <3>2, <4>4
        <3>3. CASE j \notin EqualityWindow(row)
            <4>1. i < row
                BY <2>3, <3>3
            <4>2. Covered(i)
                BY <2>1, <2>3, <4>1
            <4> QED
                BY <2>2, <2>3, <3>1, <3>3, <4>2 DEF Covered
        <3> QED
            BY <3>2, <3>3
    <2>4. ASSUME NEW i \in Left, i < row + 1 PROVE Covered(i)'
        <3>1. i < row \/ i = row
            BY <2>1, <2>4, EquiAssumption DEF Left
        <3> QED
            BY <1>1, <2>1, <2>3, <3>1 DEF Covered
    <2> QED
        BY <2>1, <2>4 DEF EnvelopeInv
<1>6. CASE EndEnvelope
    <2>1. /\ call' = call /\ envelope' = envelope /\ pc = "envelope" /\ pc' = "narrow"
          /\ row = LeftLen
        BY <1>6 DEF EndEnvelope
    <2>2. \A i \in Left : i < row
        BY <2>1, EquiAssumption DEF Left
    <2> QED
        BY <1>2, <2>1, <2>2 DEF EnvelopeInv
<1>7. CASE UNCHANGED vars \/ Narrow
    <2>1. /\ call' = call /\ envelope' = envelope /\ pc' = pc
          /\ pc = "narrow" \/ row' = row
        BY <1>7 DEF Narrow
    <2> QED
        BY <1>2, <2>1 DEF EnvelopeInv
<1>8. CASE Next /\ ~(EndFirst \/ EnvelopeRow \/ EndEnvelope \/ Narrow)
    <2>1. pc' \notin {"envelope", "narrow"}
        BY <1>0, <1>8 DEF Next, EntryNext, Enter, RefuseRow, NarrowNext, Refuse, Validate, ApplyFirst,
            ApplySecond, EndSecond, EndNarrow, MaterializeNext, CountRow, EndCount, EmitRow,
            EndEmit, SelectExtrema, SelectRow, EndSelect, AggregateNext, HandOver, FeedRow,
            EndFeed
    <2> QED
        BY <1>3, <2>1
<1> QED
    BY <1>3, <1>4, <1>5, <1>6, <1>7, <1>8

-----------------------------------------------------------------------------
\* Narrowing keeps the matches.

\* What matches is a matter of the arguments.
LEMMA MatchesStay ==
    ASSUME call' = call, NEW i, NEW j
    PROVE  Matches(i, j)' = Matches(i, j)
<1>1. Accepted' = Accepted /\ SameKey(i)' = SameKey(i)
    BY Zenon DEF Accepted, SourceLen, SameKey
<1>2. Valid' = Valid
    BY <1>1, Zenon DEF Valid
<1> QED
    BY <1>1, <1>2, Zenon DEF Matches

\* A match is a row of the key, accepted by both predicates.
LEMMA MatchFacts ==
    ASSUME NEW i \in Left, NEW j \in RightRows(call), Matches(i, j), call.windowed
    PROVE  /\ InUse(call, i) /\ InBounds(call, i) /\ j \in KeyWindow(call, i)
           /\ call.op1 # None => Apply(call.op1, call.left1[i], call.right1[j])
           /\ call.op2 # None => Apply(call.op2, call.left2[i], call.right2[j])
    BY DEF Matches, Valid, SameKey

LEMMA KeepsInit == Init => NarrowingKeepsMatches
<1> SUFFICES ASSUME Init, NEW i \in Left, NEW j \in RightRows(call), Matches(i, j)
             PROVE  j \in Window(i)
    BY DEF NarrowingKeepsMatches
<1>1. CASE call.windowed
    BY <1>1, MatchFacts DEF Init, Window, Active, InUse, KeyWindow
<1>2. CASE ~call.windowed
    BY <1>2 DEF Matches, SameKey, Window
<1> QED
    BY <1>1, <1>2

LEMMA KeepsNext ==
    ASSUME WindowInv, EnvelopeInv, NarrowingKeepsMatches, [Next]_vars
    PROVE  NarrowingKeepsMatches'
<1>1. call' = call
    BY DEF Next, EntryNext, Enter, RefuseRow, NarrowNext, Refuse, Validate, ApplyFirst, EndFirst,
        ApplySecond, EndSecond, EnvelopeRow, EndEnvelope, Narrow, EndNarrow, MaterializeNext,
        CountRow, EndCount, EmitRow, EndEmit, SelectExtrema, SelectRow, EndSelect,
        AggregateNext, HandOver, FeedRow, EndFeed
<1> SUFFICES ASSUME NEW i \in Left, NEW j \in RightRows(call), Matches(i, j)
             PROVE  j \in Window(i)'
    BY <1>1, MatchesStay DEF NarrowingKeepsMatches
<1>2. j \in Window(i)
    BY DEF NarrowingKeepsMatches
<1>3. CASE UNCHANGED windowVars
    BY <1>1, <1>2, <1>3, WindowsStay
<1>4. ASSUME pc \in Narrowing
      PROVE  /\ call \in Calls /\ call.windowed /\ RightRows(call) = Right /\ j \in Right
             /\ call.op1 # None => call.op1 \in RangeOps
             /\ call.op2 # None => call.op2 \in RangeOps
             /\ call.left1 \in [Left -> Int] /\ call.left2 \in [Left -> Int]
             /\ call.right1 \in [Right -> Int] /\ call.right2 \in [Right -> Int]
             /\ call.op1 # None => Apply(call.op1, call.left1[i], call.right1[j])
             /\ call.op2 # None => Apply(call.op2, call.left2[i], call.right2[j])
    BY <1>4, CallFields, MatchFacts DEF WindowInv
<1>5. CASE ApplyFirst
    <2>1. pc \in Narrowing /\ call.op1 # None /\ NarrowRow(call.right1, call.op1, call.left1)
        BY <1>5 DEF ApplyFirst, WindowInv, Narrowing
    <2>2. row \in Left
        BY <2>1, NarrowShrinks
    <2>3. \A k \in Window(row) : k \in Right /\ call.right1[k] \in Int
        BY <1>4, <2>1, <2>2, WindowsInKeys
    <2>4. ASSUME NEW k \in Window(row), NEW m \in Window(row), k <= m
          PROVE  call.right1[k] <= call.right1[m]
        <3>1. Active(row)
            BY <1>4, <2>1, <2>4 DEF Window
        <3>2. InUse(call, row) /\ InBounds(call, row)
            BY <2>1, <2>2, <3>1, WindowsInKeys
        <3>3. EqualityWindow(row) = KeyWindow(call, row)
            BY <3>2 DEF EqualityWindow
        <3>4. k \in KeyWindow(call, row) /\ m \in KeyWindow(call, row)
            BY <2>1, <2>2, <2>4, <3>3, WindowsInKeys
        <3> QED
            BY <1>4, <2>1, <2>2, <2>4, <3>2, <3>4, CallFields
    <2>5. call.left1[row] \in Int /\ call.op1 \in RangeOps
        BY <1>4, <2>1, <2>2
    <2> QED
        BY <1>1, <1>2, <1>4, <2>1, <2>2, <2>3, <2>4, <2>5, NarrowKeeps
<1>6. CASE ApplySecond
    <2>1. /\ pc \in Narrowing /\ call.op2 # None /\ NarrowRow(call.right2, call.op2, call.left2)
          /\ SecondAscends
        BY <1>6 DEF ApplySecond, WindowInv, Narrowing
    <2>2. row \in Left
        BY <2>1, NarrowShrinks
    <2>3. \A k \in Window(row) : k \in Right /\ call.right2[k] \in Int
        BY <1>4, <2>1, <2>2, WindowsInKeys
    <2>4. ASSUME NEW k \in Window(row), NEW m \in Window(row), k <= m
          PROVE  call.right2[k] <= call.right2[m]
        <3>1. Active(row)
            BY <1>4, <2>1, <2>4 DEF Window
        <3>2. /\ Window(row) = starts[row] .. ends[row] - 1
              /\ starts[row] \in Int /\ ends[row] - 1 \in Int
            BY <1>4, <2>1, <2>2, <3>1 DEF Window, WindowInv
        <3>3. \A n \in Window(row) : n + 1 \in Window(row) => call.right2[n] <= call.right2[n + 1]
            BY <2>1, <2>2 DEF SecondAscends
        <3> DEFINE lo == starts[row]
                   hi == ends[row] - 1
                   f == call.right2
        <3>4. /\ lo \in Int /\ hi \in Int /\ k \in lo .. hi /\ m \in lo .. hi
              /\ \A n \in lo .. hi : f[n] \in Int
              /\ \A n \in lo .. hi : n + 1 \in lo .. hi => f[n] <= f[n + 1]
            BY <2>3, <2>4, <3>2, <3>3
        <3> HIDE DEF lo, hi, f
        <3>5. f[k] <= f[m]
            BY <2>4, <3>4, NeighboursAscend
        <3> QED
            BY <3>5 DEF f
    <2>5. call.left2[row] \in Int /\ call.op2 \in RangeOps
        BY <1>4, <2>1, <2>2
    <2> QED
        BY <1>1, <1>2, <1>4, <2>1, <2>2, <2>3, <2>4, <2>5, NarrowKeeps
<1>7. CASE Narrow
    <2>1. /\ pc \in Narrowing /\ call.op2 # None /\ NarrowRow(envelope, call.op2, call.left2)
          /\ \A k \in Left : Covered(k)
        BY <1>7 DEF Narrow, WindowInv, EnvelopeInv, Narrowing
    <2>2. row \in Left
        BY <2>1, NarrowShrinks
    <2>3. call.left2[row] \in Int /\ call.op2 \in RangeOps
        BY <1>4, <2>1, <2>2
    <2>4. CASE Active(row)
        <3>1. EqualityWindow(row) = call.starts[row] .. call.ends[row] - 1
            BY <2>1, <2>2, <2>4, WindowsInKeys DEF EqualityWindow, KeyWindow
        <3>2. call.starts[row] \in Int /\ call.ends[row] - 1 \in Int
            BY <1>4, <2>1, <2>2, CallFields
        <3> DEFINE a == call.starts[row]
                   b == call.ends[row] - 1
        <3>3. \A k \in a .. b : k \in Right /\ call.right2[k] \in Int
            BY <1>4, <2>1, <2>2, <3>1, WindowsInKeys
        <3>4. \A k \in a .. b : envelope[k] = Extreme(a .. b, k)
            BY <2>1, <2>2, <3>1 DEF Covered
        <3>5. \A k \in Window(row) : k \in a .. b
            BY <2>1, <2>2, <3>1, WindowsInKeys
        <3>6. a \in Int /\ b \in Int
            BY <3>2
        <3> HIDE DEF a, b
        <3>7. /\ \A k \in a .. b : Extreme(a .. b, k) \in Int
              /\ \A k, m \in a .. b : k <= m => Extreme(a .. b, k) <= Extreme(a .. b, m)
              /\ \A k \in a .. b : Apply(call.op2, call.left2[row], call.right2[k])
                    => Apply(call.op2, call.left2[row], Extreme(a .. b, k))
            BY <2>3, <3>3, <3>6, ExtremeBounds, EnvelopeAscends
        <3>8. /\ \A k \in Window(row) : envelope[k] \in Int
              /\ \A k, m \in Window(row) : k <= m => envelope[k] <= envelope[m]
            BY <3>4, <3>5, <3>7
        <3>9. i = row => Apply(call.op2, call.left2[row], envelope[j])
            BY <1>2, <1>4, <2>1, <3>4, <3>5, <3>7
        <3> QED
            BY <1>1, <1>2, <1>4, <2>1, <2>2, <2>3, <3>8, <3>9, NarrowKeeps
    <2>5. CASE ~Active(row)
        <3>1. UNCHANGED windowVars
            BY <2>1, <2>5 DEF NarrowRow
        <3> QED
            BY <1>3, <3>1
    <2> QED
        BY <2>4, <2>5
<1>8. CASE UNCHANGED vars \/ (Next /\ ~(ApplyFirst \/ ApplySecond \/ Narrow))
    <2>1. UNCHANGED windowVars
        BY <1>8 DEF Next, EntryNext, Enter, RefuseRow, NarrowNext, Refuse, Validate, EndFirst,
            EndSecond, EnvelopeRow, EndEnvelope, EndNarrow, MaterializeNext, CountRow, EndCount,
            EmitRow, EndEmit, SelectExtrema, SelectRow, EndSelect, AggregateNext, HandOver,
            FeedRow, EndFeed
    <2> QED
        BY <1>3, <2>1
<1> QED
    BY <1>5, <1>6, <1>7, <1>8

-----------------------------------------------------------------------------
\* The strengthened invariant: windows, the envelope over them, and the matches.
THEOREM NarrowInvariant == Spec => []NarrowInv
<1>1. Init => NarrowInv
    <2>1. Init => EnvelopeInv
        BY DEF Init, EnvelopeInv
    <2> QED
        BY <2>1, WindowInit, KeepsInit DEF NarrowInv
<1>2. NarrowInv /\ [Next]_vars => NarrowInv'
    BY WindowNext, EnvelopeNext, KeepsNext DEF NarrowInv
<1> QED
    BY <1>1, <1>2, PTL DEF Spec

\* Whatever the predicates and the residuals, no bisection of an equality join
\* cuts a matching right row out of its window: not by the sorted column, not by
\* a second column that happens to ascend, and not by the envelope, which is made
\* for whole keys and used on narrowed windows.
THEOREM NarrowingKeepsMatchesTheorem == Spec => []NarrowingKeepsMatches
<1>1. NarrowInv => NarrowingKeepsMatches
    BY DEF NarrowInv
<1> QED
    BY <1>1, NarrowInvariant, PTL

-----------------------------------------------------------------------------
\* What is left at the end of a cut window.

\* A step of the envelope's bisection for > or >= ends the window at a row that
\* satisfies the predicate itself, unless it met the end the first predicate set.
LEMMA CutEnds ==
    ASSUME NarrowInv, Narrow, call.op2 \in {">", ">="}, row \in Left,
           starts[row] >= 0, ends[row] >= 0, ends'[row] >= 0,
           ends'[row] # ends[row] \/ ends[row] = call.ends[row]
    PROVE  Apply(call.op2, call.left2[row], call.right2[ends'[row] - 1])
<1>1. /\ WindowInv /\ EnvelopeInv /\ pc = "narrow" /\ pc \in Narrowing /\ Active(row)
      /\ NarrowRow(envelope, call.op2, call.left2) /\ Covered(row)
      /\ call.op2 \in RangeOps /\ call.op2 \notin RaisesStart
    BY DEF NarrowInv, Narrow, EnvelopeInv, Narrowing, Active, RangeOps, RaisesStart
<1>2. /\ call \in Calls /\ call.windowed
      /\ call.starts[row] \in Int /\ call.ends[row] \in Int
      /\ starts[row] \in Int /\ ends[row] \in Int
      /\ call.left2[row] \in Int /\ call.right2 \in [Right -> Int]
      /\ starts \in [Left -> Int] /\ ends \in [Left -> Int]
    BY <1>1, CallFields DEF WindowInv
<1>3. PICK b \in Boundaries(envelope, starts[row], ends[row], call.op2, call.left2[row]) :
        /\ ends' = [ends EXCEPT ![row] = IF b = starts[row] THEN -1 ELSE b]
        /\ UNCHANGED starts
    BY <1>1 DEF NarrowRow
<1>4. /\ b \in Int /\ starts[row] <= b /\ b <= ends[row]
      /\ b > starts[row] => Skips(call.op2, call.left2[row], envelope[b - 1])
      /\ b < ends[row] => ~Skips(call.op2, call.left2[row], envelope[b])
    BY <1>2, <1>3 DEF Boundaries
<1>5. ends'[row] = b /\ starts[row] < b
    BY <1>2, <1>3, <1>4
<1>6. /\ EqualityWindow(row) = call.starts[row] .. call.ends[row] - 1
      /\ Window(row) = starts[row] .. ends[row] - 1
    BY <1>1, <1>2, WindowsInKeys DEF EqualityWindow, KeyWindow, Window
<1> DEFINE lo == call.starts[row]
           hi == call.ends[row] - 1
<1>7. /\ \A k \in lo .. hi : envelope[k] = Extreme(lo .. hi, k)
      /\ \A k \in lo .. hi : call.right2[k] \in Int
      /\ \A k \in starts[row] .. ends[row] - 1 : k \in lo .. hi
    BY <1>1, <1>2, <1>6, WindowsInKeys DEF Covered
<1>8. lo \in Int /\ hi \in Int /\ (ends[row] = call.ends[row] => ends[row] - 1 = hi)
    BY <1>2
<1> HIDE DEF lo, hi
<1>9. b - 1 \in lo .. hi /\ (b < ends[row] => b \in lo .. hi)
    BY <1>2, <1>4, <1>5, <1>7
<1>10. PICK m \in lo .. hi : b - 1 <= m /\ Extreme(lo .. hi, b - 1) = call.right2[m]
    BY <1>1, <1>7, <1>8, <1>9, ExtremeBounds
<1>11. Skips(call.op2, call.left2[row], call.right2[m])
    BY <1>4, <1>5, <1>7, <1>9, <1>10
<1>12. m = b - 1
    <2>1. CASE b = ends[row]
        BY <1>4, <1>5, <1>8, <1>9, <1>10, <2>1
    <2>2. CASE b < ends[row]
        <3>1. ~Skips(call.op2, call.left2[row], Extreme(lo .. hi, b))
            BY <1>4, <1>7, <1>9, <2>2
        <3>2. \A k \in lo .. hi : b <= k => Extreme(lo .. hi, b) <= call.right2[k]
            BY <1>1, <1>7, <1>8, <1>9, <2>2, ExtremeBounds
        <3>3. Extreme(lo .. hi, b) \in Int /\ call.right2[m] \in Int
            BY <1>7, <1>8, <1>9, <2>2, ExtremeBounds
        <3>4. ~(b <= m)
            BY <1>2, <1>11, <3>1, <3>2, <3>3 DEF Skips
        <3> QED
            BY <1>4, <1>10, <3>4
    <2> QED
        BY <1>2, <1>4, <2>1, <2>2
<1>13. call.right2[b - 1] \in Int
    BY <1>7, <1>9
<1> QED
    BY <1>1, <1>2, <1>5, <1>11, <1>12, <1>13 DEF Skips, Apply

\* Why keep="any" tries the last row of a window first: where the envelope cut
\* the end, or left the end of the key, it holds a match of the second predicate,
\* for every call and every outcome of the bisection.
THEOREM CutEndsAtMatchTheorem == Spec => CutEndsAtMatch
<1>1. ASSUME NarrowInv, [Next]_vars
      PROVE  [pc = "narrow" /\ call.op2 \in {">", ">="} =>
                \A i \in Left :
                    /\ i = row /\ starts[i] >= 0 /\ ends[i] >= 0 /\ ends'[i] >= 0
                    /\ ends'[i] # ends[i] \/ ends[i] = call.ends[i]
                    => Apply(call.op2, call.left2[i], call.right2[ends'[i] - 1])]_vars
    <2>1. CASE UNCHANGED vars
        BY <2>1
    <2>2. CASE Next
        <3> SUFFICES ASSUME pc = "narrow", call.op2 \in {">", ">="}, row \in Left,
                            starts[row] >= 0, ends[row] >= 0, ends'[row] >= 0,
                            ends'[row] # ends[row] \/ ends[row] = call.ends[row]
                     PROVE  Apply(call.op2, call.left2[row], call.right2[ends'[row] - 1])
            OBVIOUS
        <3>1. row # LeftLen
            BY EquiAssumption DEF Left
        <3>2. Narrow
            BY <2>2, <3>1 DEF Next, EntryNext, Enter, RefuseRow, NarrowNext, Refuse, Validate,
                ApplyFirst, EndFirst, ApplySecond, EndSecond, EnvelopeRow, EndEnvelope, EndNarrow,
                MaterializeNext, CountRow, EndCount, EmitRow, EndEmit, SelectExtrema, SelectRow,
                EndSelect, AggregateNext, HandOver, FeedRow, EndFeed
        <3> QED
            BY <1>1, <3>2, CutEnds
    <2> QED
        BY <1>1, <2>1, <2>2
<1> QED
    BY <1>1, NarrowInvariant, PTL DEF Spec, CutEndsAtMatch
-----------------------------------------------------------------------------
\* The order of the pairs put out.

\* How many of the rows lie before p.
Rank(rows, p) == Cardinality({q \in rows : q < p})

\* A later row has a higher rank, and no rank exceeds the number of rows.
LEMMA RanksRise ==
    ASSUME NEW rows \in SUBSET Int, IsFiniteSet(rows), NEW p \in rows
    PROVE  /\ Rank(rows, p) \in 0 .. Cardinality(rows) - 1
           /\ \A q \in rows : p < q => Rank(rows, p) < Rank(rows, q)
<1> DEFINE before(q) == {x \in rows : x < q}
<1>1. \A q : before(q) \in SUBSET rows /\ IsFiniteSet(before(q)) /\ Cardinality(before(q)) \in Nat
    BY FS_Subset, FS_CardinalityType
<1>2. Cardinality(rows) \in Nat
    BY FS_CardinalityType
<1>3. p \notin before(p) /\ p \in Int
    OBVIOUS
<1>4. /\ IsFiniteSet(before(p) \union {p})
      /\ Cardinality(before(p) \union {p}) = Cardinality(before(p)) + 1
    <2> HIDE DEF before
    <2> QED
        BY <1>1, <1>3, FS_AddElement
<1>5. Cardinality(before(p)) + 1 <= Cardinality(rows)
    <2>1. before(p) \union {p} \in SUBSET rows
        OBVIOUS
    <2> HIDE DEF before
    <2> QED
        BY <1>4, <2>1, FS_Subset
<1>6. ASSUME NEW q \in rows, p < q
      PROVE  Cardinality(before(p)) < Cardinality(before(q))
    <2>1. ASSUME NEW x \in before(p) \union {p} PROVE x \in before(q)
        <3>1. x \in rows /\ x \in Int /\ p \in Int /\ q \in Int /\ (x < p \/ x = p)
            OBVIOUS
        <3> QED
            BY <1>6, <3>1
    <2>0. before(p) \union {p} \in SUBSET before(q)
        BY <2>1
    <2> HIDE DEF before
    <2>2. Cardinality(before(p) \union {p}) <= Cardinality(before(q))
        BY <1>1, <2>0, FS_Subset
    <2> QED
        BY <1>1, <1>4, <2>2
<1> QED
    BY <1>1, <1>2, <1>5, <1>6 DEF Rank

\* The ranks are all the numbers below the number of rows.
LEMMA EveryRankIsTaken ==
    ASSUME NEW rows \in SUBSET Int, IsFiniteSet(rows), NEW n \in 1 .. Cardinality(rows)
    PROVE  \E p \in rows : Rank(rows, p) = n - 1
<1> DEFINE size == Cardinality(rows)
           ranking == [p \in rows |-> Rank(rows, p) + 1]
<1>1. size \in Nat
    BY FS_CardinalityType
<1>2. \A p \in rows : Rank(rows, p) \in 0 .. size - 1
    BY RanksRise
<1>3. ASSUME NEW p \in rows, NEW q \in rows, Rank(rows, p) = Rank(rows, q)
      PROVE  p = q
    <2>1. p \in Int /\ q \in Int /\ Rank(rows, p) \in Int
        BY <1>1, <1>2
    <2>2. ~(p < q) /\ ~(q < p)
        BY <1>3, <2>1, RanksRise
    <2> QED
        BY <2>1, <2>2
<1>4. ranking \in [rows -> 1 .. size]
    BY <1>1, <1>2
<1>5. ranking \in Injection(rows, 1 .. size)
    <2>1. \A p, q \in rows : ranking[p] = ranking[q] => p = q
        BY <1>1, <1>2, <1>3
    <2> HIDE DEF ranking
    <2> QED
        BY <1>4, <2>1 DEF Injection, IsInjective
<1>6. IsFiniteSet(1 .. size) /\ Cardinality(1 .. size) = size
    <2> HIDE DEF size
    <2> QED
        BY <1>1, FS_Interval
<1>7. ranking \in Surjection(rows, 1 .. size)
    <2> HIDE DEF ranking
    <2> QED
        BY <1>5, <1>6, FS_Injection
<1>8. PICK p \in rows : ranking[p] = n
    <2> HIDE DEF ranking
    <2> QED
        BY <1>7 DEF Surjection
<1> QED
    BY <1>1, <1>2, <1>8

\* Ascending lists every row once, by rank.
LEMMA AscendingListsRows ==
    ASSUME NEW rows \in SUBSET Int, IsFiniteSet(rows)
    PROVE  /\ Cardinality(rows) \in Nat
           /\ Ascending(rows) \in Seq(Int) /\ Len(Ascending(rows)) = Cardinality(rows)
           /\ \A n \in 1 .. Cardinality(rows) :
                Ascending(rows)[n] \in rows /\ Rank(rows, Ascending(rows)[n]) = n - 1
           /\ \A p \in rows : /\ Rank(rows, p) + 1 \in 1 .. Cardinality(rows)
                              /\ Ascending(rows)[Rank(rows, p) + 1] = p
<1> DEFINE size == Cardinality(rows)
           list == Ascending(rows)
<1>1. size \in Nat
    BY FS_CardinalityType
<1>2. list = [n \in 1 .. size |-> CHOOSE p \in rows : Rank(rows, p) = n - 1]
    BY DEF Ascending, Rank
<1>3. ASSUME NEW n \in 1 .. size
      PROVE  list[n] \in rows /\ Rank(rows, list[n]) = n - 1
    <2>1. \E p \in rows : Rank(rows, p) = n - 1
        BY EveryRankIsTaken
    <2>2. list[n] = CHOOSE p \in rows : Rank(rows, p) = n - 1
        BY <1>2
    <2> QED
        BY <2>1, <2>2, Zenon
<1>4. list \in Seq(Int) /\ Len(list) = size
    <2>1. list \in [1 .. size -> Int]
        BY <1>2, <1>3
    <2> HIDE DEF list, size
    <2> QED
        BY <1>1, <2>1
<1>5. ASSUME NEW p \in rows
      PROVE  Rank(rows, p) + 1 \in 1 .. size /\ list[Rank(rows, p) + 1] = p
    <2> DEFINE n == Rank(rows, p) + 1
    <2>1. Rank(rows, p) \in 0 .. size - 1 /\ n \in 1 .. size /\ p \in Int
        BY <1>1, RanksRise
    <2>2. list[n] \in rows /\ Rank(rows, list[n]) = n - 1
        BY <1>3, <2>1
    <2>3. Rank(rows, list[n]) = Rank(rows, p) /\ list[n] \in Int /\ Rank(rows, p) \in Int
        <3>1. n - 1 = Rank(rows, p) /\ Rank(rows, p) \in Int
            BY <2>1
        <3> HIDE DEF n, list
        <3> QED
            BY <2>2, <3>1
    <2> HIDE DEF n, list
    <2>4. ~(list[n] < p) /\ ~(p < list[n])
        BY <2>2, <2>3, RanksRise
    <2>5. list[n] = p
        BY <2>1, <2>3, <2>4
    <2> QED
        BY <2>1, <2>5 DEF n
<1> QED
    BY <1>1, <1>3, <1>4, <1>5

\* A later entry of the list is a later row.
LEMMA AscendingAscends ==
    ASSUME NEW rows \in SUBSET Int, IsFiniteSet(rows),
           NEW m \in 1 .. Cardinality(rows), NEW n \in 1 .. Cardinality(rows), m < n
    PROVE  Ascending(rows)[m] < Ascending(rows)[n]
<1> DEFINE list == Ascending(rows)
<1>1. /\ Cardinality(rows) \in Nat
      /\ list[m] \in rows /\ list[n] \in rows
      /\ Rank(rows, list[m]) = m - 1 /\ Rank(rows, list[n]) = n - 1
    BY AscendingListsRows
<1>2. \A j \in rows : j \in Int
    OBVIOUS
<1> HIDE DEF list
<1>3. list[m] \in Int /\ list[n] \in Int /\ m \in Int /\ n \in Int
    <2>1. list[m] \in Int /\ list[n] \in Int
        BY <1>1, <1>2, Zenon
    <2> QED
        BY <1>1, <2>1
<1>4. list[n] < list[m] => Rank(rows, list[n]) < Rank(rows, list[m])
    BY <1>1, RanksRise
<1>5. list[n] # list[m]
    BY <1>1, <1>3
<1>6. list[m] < list[n]
    BY <1>1, <1>3, <1>4, <1>5
<1> QED
    BY <1>6 DEF list

\* A pair of positions.
Pairs == Left \X Int

\* Nothing is put out before the pass that emits, which has not come to its row.
OrderInv ==
    ~Aggregating =>
        /\ pc # "feed"
        /\ output \in Seq(Pairs)
        /\ pc \in Narrowing \union {"enter", "validate", "count"} => output = <<>>
        /\ pc \in {"emit", "select"} => \A n \in DOMAIN output : output[n][1] < row
        /\ AllInRightOrder

InOrder(pairs) ==
    \A m, n \in DOMAIN pairs : m < n =>
        \/ pairs[m][1] < pairs[n][1]
        \/ pairs[m][1] = pairs[n][1] /\ pairs[m][2] < pairs[n][2]

LEMMA Appended ==
    ASSUME NEW S, NEW s \in Seq(S), NEW t \in Seq(S)
    PROVE  /\ s \o t \in Seq(S) /\ Len(s \o t) = Len(s) + Len(t)
           /\ \A n \in 1 .. Len(s) : (s \o t)[n] = s[n]
           /\ \A n \in 1 .. Len(s \o t) : ~(n <= Len(s)) => (s \o t)[n] = t[n - Len(s)]
    OBVIOUS

\* What a row adds behind the pairs of earlier rows.
LEMMA RowExtends ==
    ASSUME NEW s \in Seq(Pairs), InOrder(s), NEW i \in Left,
           \A n \in DOMAIN s : s[n][1] < i,
           NEW f \in Seq(Int), \A m, n \in DOMAIN f : m < n => f[m] < f[n]
    PROVE  LET t == s \o [n \in DOMAIN f |-> <<i, f[n]>>]
           IN  /\ t \in Seq(Pairs) /\ InOrder(t)
               /\ \A n \in DOMAIN t : t[n][1] < i + 1
<1> DEFINE g == [n \in DOMAIN f |-> <<i, f[n]>>]
           t == s \o g
<1>1. g \in Seq(Pairs) /\ Len(g) = Len(f)
    <2>1. DOMAIN f = 1 .. Len(f) /\ Len(f) \in Nat /\ \A n \in 1 .. Len(f) : f[n] \in Int
        OBVIOUS
    <2>2. g \in [1 .. Len(f) -> Pairs]
        BY <2>1 DEF Pairs
    <2> HIDE DEF g
    <2> QED
        BY <2>1, <2>2
<1>2. \A n \in 1 .. Len(f) : g[n] = <<i, f[n]>> /\ g[n][1] = i /\ g[n][2] = f[n] /\ f[n] \in Int
    OBVIOUS
<1>3. i \in Int /\ \A n \in 1 .. Len(s) : s[n][1] \in Int /\ s[n][1] < i
    <2>1. \A n \in 1 .. Len(s) : s[n] \in Pairs /\ s[n][1] < i
        OBVIOUS
    <2> QED
        BY <2>1, EquiAssumption DEF Left, Pairs
<1> HIDE DEF g
<1>4. /\ t \in Seq(Pairs) /\ Len(t) = Len(s) + Len(f)
      /\ \A n \in 1 .. Len(s) : t[n] = s[n]
      /\ \A n \in 1 .. Len(t) : ~(n <= Len(s)) =>
            n - Len(s) \in 1 .. Len(f) /\ t[n] = g[n - Len(s)]
    <2>1. t \in Seq(Pairs) /\ Len(t) = Len(s) + Len(g)
        BY <1>1, Appended
    <2>2. \A n \in 1 .. Len(s) : t[n] = s[n]
        BY <1>1, Appended
    <2>3. \A n \in 1 .. Len(t) : ~(n <= Len(s)) => t[n] = g[n - Len(s)]
        BY <1>1, Appended
    <2>4. \A n \in 1 .. Len(t) : ~(n <= Len(s)) => n - Len(s) \in 1 .. Len(f)
        <3>1. Len(s) \in Nat /\ Len(f) \in Nat /\ Len(t) = Len(s) + Len(f)
            BY <1>1, <2>1
        <3> HIDE DEF t
        <3> QED
            BY <3>1
    <2> QED
        BY <1>1, <2>1, <2>2, <2>3, <2>4
<1>5. DOMAIN t = 1 .. Len(t) /\ DOMAIN s = 1 .. Len(s) /\ DOMAIN f = 1 .. Len(f)
    BY <1>4
<1>6. Len(s) \in Nat /\ Len(f) \in Nat /\ Len(t) \in Nat
    BY <1>4
<1> HIDE DEF t
<1>7. ASSUME NEW n \in DOMAIN t
      PROVE  /\ t[n][1] \in Int /\ t[n][1] < i + 1
             /\ n <= Len(s) => n \in DOMAIN s /\ t[n] = s[n] /\ t[n][1] < i
             /\ ~(n <= Len(s)) => /\ n - Len(s) \in DOMAIN f
                                  /\ t[n][1] = i /\ t[n][2] = f[n - Len(s)]
    <2>1. n \in 1 .. Len(t)
        BY <1>5
    <2>2. CASE n <= Len(s)
        BY <1>3, <1>4, <1>5, <1>6, <2>1, <2>2
    <2>3. CASE ~(n <= Len(s))
        <3>1. n - Len(s) \in 1 .. Len(f) /\ t[n] = g[n - Len(s)]
            BY <1>4, <2>1, <2>3
        <3>2. t[n][1] = i /\ t[n][2] = f[n - Len(s)]
            BY <1>2, <3>1
        <3> QED
            BY <1>3, <1>5, <2>3, <3>1, <3>2
    <2> QED
        BY <2>2, <2>3
<1>8. ASSUME NEW m \in DOMAIN t, NEW n \in DOMAIN t, m < n
      PROVE  \/ t[m][1] < t[n][1]
             \/ t[m][1] = t[n][1] /\ t[m][2] < t[n][2]
    <2>0. m \in Int /\ n \in Int
        BY <1>5
    <2>1. CASE n <= Len(s)
        <3>1. m <= Len(s)
            BY <1>6, <1>8, <2>0, <2>1
        <3>2. m \in DOMAIN s /\ n \in DOMAIN s /\ t[m] = s[m] /\ t[n] = s[n]
            BY <1>7, <2>1, <3>1
        <3>3. \/ s[m][1] < s[n][1]
              \/ s[m][1] = s[n][1] /\ s[m][2] < s[n][2]
            BY <1>8, <3>2, Zenon DEF InOrder
        <3> QED
            BY <3>2, <3>3, Zenon
    <2>2. CASE m <= Len(s) /\ ~(n <= Len(s))
        BY <1>7, <2>2
    <2>3. CASE ~(m <= Len(s)) /\ ~(n <= Len(s))
        <3>1. m - Len(s) < n - Len(s)
            BY <1>6, <1>8, <2>0
        <3>2. m - Len(s) \in DOMAIN f /\ n - Len(s) \in DOMAIN f
            BY <1>7, <2>3
        <3>3. f[m - Len(s)] < f[n - Len(s)]
            BY <3>1, <3>2
        <3> QED
            BY <1>7, <2>3, <3>3
    <2>4. m <= Len(s) \/ ~(m <= Len(s))
        OBVIOUS
    <2>5. n <= Len(s) \/ ~(n <= Len(s))
        OBVIOUS
    <2> QED
        BY <2>1, <2>2, <2>3, <2>4, <2>5
<1> QED
    BY <1>4, <1>7, <1>8, Zenon DEF InOrder, t, g

\* A row's candidates are rows of its window.
LEMMA CandidatesFinite ==
    ASSUME WindowInv, row \in Left
    PROVE  Candidates(row) \in SUBSET Int /\ IsFiniteSet(Candidates(row))
<1>1. starts[row] \in Int /\ ends[row] \in Int /\ row \in Int
    BY EquiAssumption DEF WindowInv, Left
<1>2. Window(row) \in SUBSET Int /\ IsFiniteSet(Window(row))
    <2>1. CASE ~call.windowed
        <3>1. Window(row) \in SUBSET {row}
            BY <2>1 DEF Window
        <3> QED
            BY <1>1, <3>1, FS_Singleton, FS_Subset
    <2>2. CASE call.windowed /\ Active(row)
        <3> DEFINE last == ends[row] - 1
        <3>1. Window(row) = starts[row] .. last /\ last \in Int
            BY <1>1, <2>2 DEF Window
        <3> HIDE DEF last
        <3> QED
            BY <1>1, <3>1, FS_Interval
    <2>3. CASE call.windowed /\ ~Active(row)
        BY <2>3, FS_EmptySet DEF Window
    <2> QED
        BY <2>1, <2>2, <2>3
<1>3. Candidates(row) \in SUBSET Window(row)
    BY DEF Candidates
<1> QED
    BY <1>2, <1>3, FS_Subset

\* The extremes of all windows come in left order.
LEMMA ExtremaOrdered ==
    ASSUME SelectExtrema
    PROVE  output' \in Seq(Pairs) /\ InOrder(output')
<1> DEFINE filled == {i \in Left : Window(i) # {}}
<1>1. filled \in SUBSET Int /\ IsFiniteSet(filled) /\ filled \in SUBSET Left
    <2>1. IsFiniteSet(Left) /\ Left \in SUBSET Int
        <3> DEFINE last == LeftLen - 1
        <3>1. last \in Int /\ Left = 0 .. last
            BY EquiAssumption DEF Left
        <3> HIDE DEF last
        <3> QED
            BY <3>1, FS_Interval
    <2>2. filled \in SUBSET Left
        OBVIOUS
    <2> HIDE DEF filled
    <2> QED
        BY <2>1, <2>2, FS_Subset
<1> DEFINE rows == Ascending(filled)
<1>2. PICK chosen \in [DOMAIN rows -> Right] :
        output' = [n \in DOMAIN rows |-> <<rows[n], chosen[n]>>]
    BY DEF SelectExtrema
<1>3. /\ Cardinality(filled) \in Nat /\ DOMAIN rows = 1 .. Cardinality(filled)
      /\ \A n \in 1 .. Cardinality(filled) : rows[n] \in Left
      /\ \A m, n \in 1 .. Cardinality(filled) : m < n => rows[m] < rows[n]
    <2> HIDE DEF filled
    <2>1. /\ Cardinality(filled) \in Nat /\ rows \in Seq(Int) /\ Len(rows) = Cardinality(filled)
          /\ \A n \in 1 .. Cardinality(filled) : rows[n] \in filled
        BY <1>1, AscendingListsRows
    <2>2. \A m, n \in 1 .. Cardinality(filled) : m < n => rows[m] < rows[n]
        BY <1>1, AscendingAscends
    <2>3. DOMAIN rows = 1 .. Cardinality(filled)
        BY <2>1
    <2> QED
        BY <1>1, <2>1, <2>2, <2>3
<1>4. \A n \in DOMAIN rows : chosen[n] \in Int
    BY <1>2, EquiAssumption DEF Right
<1> HIDE DEF rows, filled
<1>5. /\ output' \in [1 .. Cardinality(filled) -> Pairs]
      /\ \A n \in 1 .. Cardinality(filled) : output'[n][1] = rows[n]
    BY <1>2, <1>3, <1>4 DEF Pairs
<1>6. output' \in Seq(Pairs) /\ DOMAIN output' = 1 .. Cardinality(filled)
    BY <1>3, <1>5
<1> QED
    BY <1>3, <1>5, <1>6 DEF InOrder

\* A pair behind those of earlier rows.
LEMMA PairExtends ==
    ASSUME NEW s \in Seq(Pairs), InOrder(s), NEW i \in Left,
           \A n \in DOMAIN s : s[n][1] < i, NEW j \in Int
    PROVE  /\ Append(s, <<i, j>>) \in Seq(Pairs) /\ InOrder(Append(s, <<i, j>>))
           /\ \A n \in DOMAIN Append(s, <<i, j>>) : Append(s, <<i, j>>)[n][1] < i + 1
<1> DEFINE f == <<j>>
           t == s \o [n \in DOMAIN f |-> <<i, f[n]>>]
<1>1. f \in Seq(Int) /\ \A m, n \in DOMAIN f : m < n => f[m] < f[n]
    OBVIOUS
<1>2. [n \in DOMAIN f |-> <<i, f[n]>>] = << <<i, j>> >>
    OBVIOUS
<1>3. t = Append(s, <<i, j>>)
    BY <1>2, <<i, j>> \in Pairs DEF Pairs
<1> HIDE DEF f
<1>4. t \in Seq(Pairs) /\ InOrder(t) /\ \A n \in DOMAIN t : t[n][1] < i + 1
    BY <1>1, RowExtends
<1> QED
    BY <1>3, <1>4

LEMMA OrderInit == Init => OrderInv
<1> SUFFICES ASSUME Init PROVE OrderInv
    OBVIOUS
<1>1. pc = "enter" /\ output = <<>>
    BY DEF Init
<1> QED
    BY <1>1 DEF OrderInv, AllInRightOrder, Narrowing

LEMMA OrderNext == WindowInv /\ OrderInv /\ [Next]_vars => OrderInv'
<1> SUFFICES ASSUME WindowInv, OrderInv, [Next]_vars, ~Aggregating' PROVE OrderInv'
    BY DEF OrderInv
<1>0. /\ call' = call /\ ~Aggregating
      /\ row \in Nat /\ LeftLen \in Nat /\ (row < LeftLen => row \in Left)
    <2>1. call' = call
        BY DEF Next, EntryNext, Enter, RefuseRow, NarrowNext, Refuse, Validate,
            ApplyFirst, EndFirst, ApplySecond, EndSecond, EnvelopeRow, EndEnvelope, EndNarrow,
            Narrow, MaterializeNext, CountRow, EndCount, EmitRow, EndEmit, SelectExtrema,
            SelectRow, EndSelect, AggregateNext, HandOver, FeedRow, EndFeed
    <2> QED
        BY <2>1, EquiAssumption DEF WindowInv, Left, Aggregating
<1>1. /\ pc # "feed" /\ output \in Seq(Pairs)
      /\ pc \in Narrowing \union {"enter", "validate", "count"} => output = <<>>
      /\ pc \in {"emit", "select"} => \A n \in DOMAIN output : output[n][1] < row
      /\ InOrder(output)
    BY <1>0 DEF OrderInv, AllInRightOrder, InOrder
<1>2. FirstPass \in {"emit", "count", "select"}
    BY <1>0 DEF FirstPass, Aggregating
<1>3. SUFFICES /\ pc' # "feed" /\ output' \in Seq(Pairs)
               /\ pc' \in Narrowing \union {"enter", "validate", "count"} => output' = <<>>
               /\ pc' \in {"emit", "select"} => \A n \in DOMAIN output' : output'[n][1] < row'
               /\ InOrder(output')
    BY DEF OrderInv, AllInRightOrder, InOrder
<1>4. CASE EntryNext \/ NarrowNext \/ CountRow
    <2>1. /\ output' = output
          /\ \/ pc \in Narrowing \union {"enter", "validate", "count"} /\ pc' # "feed"
             \/ pc' = "error"
        BY <1>2, <1>4 DEF EntryNext, Enter, RefuseRow, NarrowNext, Refuse, Validate,
            ApplyFirst, EndFirst, ApplySecond, EndSecond, EnvelopeRow, EndEnvelope, EndNarrow,
            Narrow, CountRow, Narrowing
    <2>2. CASE pc' = "error"
        BY <1>1, <2>1, <2>2 DEF Narrowing
    <2>3. CASE pc' # "error"
        <3>1. output' = <<>> /\ DOMAIN output' = {}
            BY <1>1, <2>1, <2>3
        <3> QED
            BY <1>1, <2>1, <2>3, <3>1
    <2> QED
        BY <2>2, <2>3
<1>5. CASE EndCount
    <2>1. output' = <<>> /\ DOMAIN output' = {} /\ pc' \in {"none", "emit"}
        BY <1>1, <1>5 DEF EndCount
    <2> QED
        BY <1>1, <1>5, <2>1 DEF EndCount, Narrowing
<1>6. CASE EmitRow
    <2> DEFINE found == Ascending(Candidates(row))
    <2>1. /\ output' = output \o [n \in DOMAIN found |-> <<row, found[n]>>]
          /\ pc = "emit" /\ pc' = "emit" /\ row' = row + 1 /\ row \in Left
        BY <1>0, <1>6 DEF EmitRow
    <2>2. found \in Seq(Int) /\ \A m, n \in DOMAIN found : m < n => found[m] < found[n]
        <3>1. Candidates(row) \in SUBSET Int /\ IsFiniteSet(Candidates(row))
            BY <2>1, CandidatesFinite
        <3>2. found \in Seq(Int) /\ Len(found) = Cardinality(Candidates(row))
            BY <3>1, AscendingListsRows
        <3>3. DOMAIN found = 1 .. Cardinality(Candidates(row))
            BY <3>2
        <3> QED
            BY <3>1, <3>2, <3>3, AscendingAscends
    <2> HIDE DEF found
    <2>3. /\ output' \in Seq(Pairs) /\ InOrder(output')
          /\ \A n \in DOMAIN output' : output'[n][1] < row + 1
        BY <1>1, <2>1, <2>2, RowExtends
    <2> QED
        BY <2>1, <2>3 DEF Narrowing
<1>7. CASE EndEmit \/ EndSelect
    BY <1>1, <1>7 DEF EndEmit, EndSelect, Narrowing
<1>8. CASE SelectExtrema
    <2>1. pc' \in {"none", "done"}
        BY <1>8 DEF SelectExtrema
    <2> QED
        BY <1>8, <2>1, ExtremaOrdered DEF Narrowing
<1>9. CASE SelectRow
    <2>1. pc = "select" /\ pc' = "select" /\ row' = row + 1 /\ row \in Left
        BY <1>0, <1>9 DEF SelectRow
    <2>2. CASE output' = output
        <3>1. \A n \in DOMAIN output : output[n][1] < row + 1
            <4>1. \A n \in DOMAIN output : output[n][1] \in Int /\ output[n][1] < row
                <5>1. \A n \in DOMAIN output : output[n] \in Pairs
                    BY <1>1
                <5> QED
                    BY <1>1, <2>1, <5>1, EquiAssumption DEF Pairs, Left
            <4> QED
                BY <1>0, <4>1
        <3> QED
            BY <1>1, <2>1, <2>2, <3>1 DEF Narrowing
    <2>3. CASE \E j \in Selected(row) : output' = Append(output, <<row, j>>)
        <3>1. PICK j \in Selected(row) : output' = Append(output, <<row, j>>)
            BY <2>3
        <3>2. j \in Int
            <4>1. Selected(row) \in SUBSET Candidates(row)
                BY DEF Selected, Tried, Best
            <4> QED
                BY <2>1, <4>1, CandidatesFinite
        <3>3. /\ output' \in Seq(Pairs) /\ InOrder(output')
              /\ \A n \in DOMAIN output' : output'[n][1] < row + 1
            BY <1>1, <2>1, <3>1, <3>2, PairExtends
        <3> QED
            BY <2>1, <3>3 DEF Narrowing
    <2> QED
        BY <1>9, <2>2, <2>3 DEF SelectRow
<1>10. CASE AggregateNext
    BY <1>1, <1>10 DEF AggregateNext, HandOver, FeedRow, EndFeed
<1>11. CASE UNCHANGED vars
    BY <1>1, <1>11
<1> QED
    BY <1>4, <1>5, <1>6, <1>7, <1>8, <1>9, <1>10, <1>11 DEF Next, MaterializeNext

\* Every join that puts out index pairs puts out those of one left row after
\* those of the rows before it, and each row's in the order of the right column,
\* none twice: for all predicates, windows, policies and readers.
THEOREM AllInRightOrderTheorem == Spec => []AllInRightOrder
<1>1. WindowInv /\ OrderInv => AllInRightOrder
    BY DEF OrderInv, AllInRightOrder
<1> QED
    BY <1>1, WindowInit, WindowNext, OrderInit, OrderNext, PTL DEF Spec

-----------------------------------------------------------------------------
\* What narrowing leaves, and what has been checked.

Fits(op, lefts, column, i) == \A j \in Window(i) : Holds(op, lefts[i], column[j])

FitsFirst(i)  == Fits(call.op1, call.left1, call.right1, i)
FitsSecond(i) == Fits(call.op2, call.left2, call.right2, i)

Passing == {"count", "emit", "select", "feed"}

Ended == {"none", "done", "error"}

\* A window that has been searched holds only what satisfies the predicate, unless
\* it was searched by the envelope: then path says that rows are compared again.
\* And no pass comes to its end over a row that it would refuse.
ExactInv ==
    /\ pc \in Narrowing \union Passing \union Ended \union {"enter", "validate"}
    /\ call.windowed => path \in {"windows", "scan", "mask"}
    /\ ~call.windowed => path = "aligned"
    /\ pc \in Narrowing \union {"enter", "validate"} => path \in {"windows", "aligned"}
    /\ pc \notin {"enter", "error"} => Accepted
    /\ pc \notin {"enter", "validate", "error"} /\ call.windowed
        /\ call.entry \in {"range", "aggregate"} => \A i \in Left : InUse(call, i) => InBounds(call, i)
    /\ call.op1 = None => starts = call.starts /\ ends = call.ends
    /\ pc = "first" => \A i \in Left : i < row => FitsFirst(i)
    /\ pc \in Narrowing \ {"first"} => \A i \in Left : FitsFirst(i)
    /\ pc = "second" => \A i \in Left : i < row => FitsSecond(i)
    /\ pc \in Passing /\ call.windowed => \A i \in Left : FitsFirst(i)
    /\ pc \in Passing /\ path = "windows" => \A i \in Left : FitsSecond(i)
    /\ pc \in Narrowing => call.entry \in {"range", "aggregate"}
    /\ pc \in {"count", "emit"} => call.keep = "all"
    /\ pc = "count" => call.entry \in {"range", "ne", "only"}
    /\ pc = "emit" => call.entry # "aggregate"
    /\ pc = "select" => call.keep # "all" /\ call.entry \in {"range", "ne", "only"}
    /\ pc = "feed" => call.entry = "aggregate"
    /\ pc \in {"count", "select"} => \A i \in Left : i < row => ~Refused(i)
    /\ pc = "select" => \A i \in Left : i < row => ~NoExtreme(i)
    /\ pc \in {"emit", "feed"} => \A i \in Left : ~Refused(i)

\* In an ascending column a bisection leaves only what satisfies the predicate.
LEMMA BisectionDrops ==
    ASSUME NEW lo \in Int, NEW hi \in Int, NEW values, NEW op \in RangeOps, NEW l \in Int,
           \A k \in lo .. hi - 1 : values[k] \in Int,
           \A j, k \in lo .. hi - 1 : j <= k => values[j] <= values[k],
           NEW b \in Boundaries(values, lo, hi, op, l),
           NEW j \in lo .. hi - 1, IF op \in RaisesStart THEN b <= j ELSE j < b
    PROVE  Apply(op, l, values[j])
<1>1. /\ b \in lo .. hi
      /\ b > lo => Skips(op, l, values[b - 1])
      /\ b < hi => ~Skips(op, l, values[b])
    BY DEF Boundaries
<1>2. CASE op \in RaisesStart
    <2>1. b \in lo .. hi - 1 /\ b < hi
        BY <1>1, <1>2
    <2>2. values[b] <= values[j] /\ values[j] \in Int /\ values[b] \in Int
        BY <1>2, <2>1
    <2> QED
        BY <1>1, <1>2, <2>1, <2>2 DEF RaisesStart, RangeOps, Skips, Apply
<1>3. CASE op \notin RaisesStart
    <2>1. b - 1 \in lo .. hi - 1 /\ j <= b - 1 /\ b > lo
        BY <1>1, <1>3
    <2>2. values[j] <= values[b - 1] /\ values[j] \in Int /\ values[b - 1] \in Int
        BY <2>1
    <2> QED
        BY <1>1, <1>3, <2>1, <2>2 DEF RaisesStart, RangeOps, Skips, Apply
<1> QED
    BY <1>2, <1>3

\* Hence so does a row of the loop that narrows.
LEMMA NarrowDrops ==
    ASSUME WindowInv, call.windowed, call' = call,
           NEW values, NEW op \in RangeOps, NEW lefts, NarrowRow(values, op, lefts),
           NEW i \in Left, i = row,
           lefts[i] \in Int,
           \A k \in Window(i) : values[k] \in Int,
           \A j, k \in Window(i) : j <= k => values[j] <= values[k],
           NEW j, j \in Window(i)'
    PROVE  Apply(op, lefts[i], values[j])
<1>1. /\ starts \in [Left -> Int] /\ ends \in [Left -> Int]
      /\ starts[i] \in Int /\ ends[i] \in Int
      /\ starts' \in [Left -> Int] /\ ends' \in [Left -> Int]
      /\ Active(i)' => Active(i)
    BY NarrowShrinks DEF WindowInv
<1>2. Active(i)' /\ j \in starts'[i] .. ends'[i] - 1
    BY DEF Window, Active
<1>3. Active(i)
    BY <1>1, <1>2
<1>4. PICK b \in Boundaries(values, starts[i], ends[i], op, lefts[i]) :
        \/ /\ op \in RaisesStart
           /\ starts' = [starts EXCEPT ![i] = IF b = ends[i] THEN -1 ELSE b]
           /\ UNCHANGED ends
        \/ /\ op \notin RaisesStart
           /\ ends' = [ends EXCEPT ![i] = IF b = starts[i] THEN -1 ELSE b]
           /\ UNCHANGED starts
    BY <1>1, <1>3 DEF NarrowRow, Active
<1>5. b \in Int /\ starts[i] <= b /\ b <= ends[i]
    BY <1>1, <1>4 DEF Boundaries
<1>6. Window(i) = starts[i] .. ends[i] - 1
    BY <1>3 DEF Window
<1>7. j \in starts[i] .. ends[i] - 1 /\ (IF op \in RaisesStart THEN b <= j ELSE j < b)
    <2>1. starts'[i] >= 0 /\ ends'[i] >= 0
        BY <1>2 DEF Active
    <2>2. CASE op \in RaisesStart
        BY <1>1, <1>2, <1>4, <1>5, <2>1, <2>2
    <2>3. CASE op \notin RaisesStart
        BY <1>1, <1>2, <1>4, <1>5, <2>1, <2>3
    <2> QED
        BY <2>2, <2>3
<1> QED
    BY <1>1, <1>4, <1>6, <1>7, BisectionDrops

\* Within a key, the column of the first predicate ascends.
LEMMA FirstColumnAscends ==
    ASSUME WindowInv, pc = "first", NEW i \in Left
    PROVE  /\ \A k \in Window(i) : call.right1[k] \in Int
           /\ \A k, m \in Window(i) : k <= m => call.right1[k] <= call.right1[m]
           /\ call.windowed /\ call.left1[i] \in Int /\ call.op1 # None /\ call.op1 \in RangeOps
<1>1. /\ pc \in Narrowing /\ call \in Calls /\ call.windowed /\ call.op1 # None
      /\ call.op1 \in RangeOps /\ call.left1 \in [Left -> Int] /\ call.right1 \in [Right -> Int]
    <2>1. call \in Calls /\ call.windowed /\ call.op1 # None /\ pc \in Narrowing
        BY DEF WindowInv, Narrowing
    <2> QED
        BY <2>1, CallFields
<1>2. \A k \in Window(i) : call.right1[k] \in Int
    BY <1>1, WindowsInKeys
<1>3. ASSUME NEW k \in Window(i), NEW m \in Window(i), k <= m
      PROVE  call.right1[k] <= call.right1[m]
    <2>1. Active(i)
        BY <1>1, <1>3 DEF Window
    <2>2. InUse(call, i) /\ InBounds(call, i)
        BY <1>1, <2>1, WindowsInKeys
    <2>3. k \in KeyWindow(call, i) /\ m \in KeyWindow(call, i)
        BY <1>1, <1>3, <2>2, WindowsInKeys DEF EqualityWindow
    <2> QED
        BY <1>1, <1>3, <2>2, <2>3, CallFields
<1> QED
    BY <1>1, <1>2, <1>3

\* The column of the second does where it was found to.
LEMMA SecondColumnAscends ==
    ASSUME WindowInv, pc = "second", NEW i \in Left
    PROVE  /\ \A k \in Window(i) : call.right2[k] \in Int
           /\ \A k, m \in Window(i) : k <= m => call.right2[k] <= call.right2[m]
           /\ call.windowed /\ call.left2[i] \in Int /\ call.op2 # None /\ call.op2 \in RangeOps
<1>1. /\ pc \in Narrowing /\ call \in Calls /\ call.windowed /\ call.op2 # None /\ SecondAscends
      /\ call.op2 \in RangeOps /\ call.left2 \in [Left -> Int] /\ call.right2 \in [Right -> Int]
      /\ starts[i] \in Int /\ ends[i] \in Int
    <2>1. /\ call \in Calls /\ call.windowed /\ call.op2 # None /\ pc \in Narrowing
          /\ SecondAscends /\ starts[i] \in Int /\ ends[i] \in Int
        BY DEF WindowInv, Narrowing
    <2> QED
        BY <2>1, CallFields
<1>2. \A k \in Window(i) : call.right2[k] \in Int
    BY <1>1, WindowsInKeys
<1>3. ASSUME NEW k \in Window(i), NEW m \in Window(i), k <= m
      PROVE  call.right2[k] <= call.right2[m]
    <2>1. Active(i)
        BY <1>1, <1>3 DEF Window
    <2>2. Window(i) = starts[i] .. ends[i] - 1 /\ starts[i] \in Int /\ ends[i] - 1 \in Int
        BY <1>1, <2>1 DEF Window
    <2>3. \A n \in Window(i) : n + 1 \in Window(i) => call.right2[n] <= call.right2[n + 1]
        BY <1>1 DEF SecondAscends
    <2> DEFINE lo == starts[i]
               hi == ends[i] - 1
               f == call.right2
    <2>4. /\ lo \in Int /\ hi \in Int /\ k \in lo .. hi /\ m \in lo .. hi
          /\ \A n \in lo .. hi : f[n] \in Int
          /\ \A n \in lo .. hi : n + 1 \in lo .. hi => f[n] <= f[n + 1]
        BY <1>2, <1>3, <2>2, <2>3
    <2> HIDE DEF lo, hi, f
    <2>5. f[k] <= f[m]
        BY <1>3, <2>4, NeighboursAscend
    <2> QED
        BY <2>5 DEF f
<1> QED
    BY <1>1, <1>2, <1>3

\* A row that fits goes on fitting while windows shrink.
LEMMA FitsOn ==
    ASSUME WindowInv, call.windowed, call' = call,
           NEW values, NEW op, NEW lefts, NarrowRow(values, op, lefts), NEW i \in Left
    PROVE  /\ FitsFirst(i) => FitsFirst(i)'
           /\ FitsSecond(i) => FitsSecond(i)'
    BY WindowsShrink DEF FitsFirst, FitsSecond, Fits

LEMMA FitsStays ==
    ASSUME call' = call, UNCHANGED windowVars, NEW i \in Left
    PROVE  FitsFirst(i)' = FitsFirst(i) /\ FitsSecond(i)' = FitsSecond(i)
    BY WindowsStay DEF FitsFirst, FitsSecond, Fits

\* Without a predicate everything fits.
LEMMA NothingToFit ==
    /\ call.op1 = None => \A i \in Left : FitsFirst(i)
    /\ call.op2 = None => \A i \in Left : FitsSecond(i)
    BY DEF FitsFirst, FitsSecond, Fits, Holds

LEMMA RefusedStays ==
    ASSUME call' = call, UNCHANGED windowVars, NEW i \in Left
    PROVE  Refused(i)' = Refused(i) /\ NoExtreme(i)' = NoExtreme(i)
    BY WindowsStay, Zenon DEF Refused, NoExtreme, InUse, InBounds

LEMMA ExactInit == Init => ExactInv
<1> SUFFICES ASSUME Init PROVE ExactInv
    OBVIOUS
<1>1. /\ pc = "enter" /\ starts = call.starts /\ ends = call.ends /\ call \in Calls
      /\ path = IF call.windowed THEN "windows" ELSE "aligned"
    BY DEF Init
<1> QED
    BY <1>1 DEF ExactInv, Narrowing, Passing, Ended

\* What a call has, so far as its entry point says.
LEMMA CallShape ==
    ASSUME NEW c \in Calls
    PROVE  /\ c.entry \in Entries /\ c.keep \in Keeps
           /\ c.windowed \in BOOLEAN /\ c.reverse \in BOOLEAN /\ c.ordered \in BOOLEAN
           /\ c.has_residuals \in BOOLEAN
           /\ c.starts \in [Left -> Int] /\ c.ends \in [Left -> Int]
           /\ RightRows(c) \subseteq Right /\ c.right_index \in [RightRows(c) -> Int]
           /\ c.op1 = None => c.op2 = None
           /\ c.entry \in {"ne", "only", "uniq"} => c.op1 = None
           /\ c.entry \in {"uniq", "aggregate"} => c.keep = "all"
           /\ c.entry \in {"range", "ne", "only"} => c.windowed
           /\ c.entry = "uniq" => ~c.windowed
           /\ c.windowed => RightRows(c) = Right
           /\ c.windowed => \A j, k \in Right : c.right_index[j] = c.right_index[k] => j = k
           /\ c.ordered => c.entry = "only"
           /\ ~c.has_residuals => c.residual = Left \X Right
           /\ c.ordered => \A j, k \in Right : j <= k => c.right_index[j] <= c.right_index[k]
<1>1. IsCall(c) /\ Call(c) /\ Shape(c)
    BY EquiAssumption DEF IsCall
<1>2. /\ c.entry \in Entries /\ c.keep \in Keeps
      /\ c.windowed \in BOOLEAN /\ c.reverse \in BOOLEAN /\ c.ordered \in BOOLEAN
      /\ c.has_residuals \in BOOLEAN
      /\ c.starts \in [Left -> Int] /\ c.ends \in [Left -> Int]
      /\ RightRows(c) \subseteq Right /\ c.right_index \in [RightRows(c) -> Int]
    BY <1>1 DEF Call
<1>3. /\ c.op1 = None => c.op2 = None
      /\ c.entry \in {"ne", "only", "uniq"} => c.op1 = None
      /\ c.entry \in {"uniq", "aggregate"} => c.keep = "all"
      /\ c.entry # "aggregate" => (c.windowed <=> c.entry # "uniq")
      /\ c.windowed => RightRows(c) = Right
      /\ c.ordered => c.entry = "only"
      /\ ~c.has_residuals => c.residual = Left \X Right
    BY <1>1 DEF Shape
<1>4. /\ c.windowed => \A j, k \in Right : c.right_index[j] = c.right_index[k] => j = k
      /\ c.ordered => \A j, k \in Right : j <= k => c.right_index[j] <= c.right_index[k]
    BY <1>1 DEF IsCall
<1> QED
    BY <1>2, <1>3, <1>4

\* A row that is narrowed by a column in order fits afterwards.
LEMMA ExactNarrow ==
    ASSUME WindowInv, ExactInv, ApplyFirst \/ ApplySecond \/ Narrow
    PROVE  ExactInv'
<1>1. /\ pc' = pc /\ call' = call /\ path' = path /\ pc \in Narrowing /\ call.windowed
      /\ row \in Nat
    BY DEF ApplyFirst, ApplySecond, Narrow, WindowInv, Narrowing
<1>2. Accepted' = Accepted /\ \A i \in Left : (InUse(call, i)' = InUse(call, i))
                                               /\ (InBounds(call, i)' = InBounds(call, i))
    BY <1>1, Zenon DEF Accepted, SourceLen, InUse, InBounds
<1>3. call.op1 # None
    BY <1>1, CallShape DEF ApplyFirst, ApplySecond, Narrow, WindowInv, Narrowing
<1>4. \A i \in Left : FitsFirst(i) => FitsFirst(i)'
    BY <1>1, FitsOn DEF ApplyFirst, ApplySecond, Narrow
<1>5. \A i \in Left : FitsSecond(i) => FitsSecond(i)'
    BY <1>1, FitsOn DEF ApplyFirst, ApplySecond, Narrow
<1>6. row' = row + 1 /\ row \in Left /\ \A i \in Left : i < row' => i < row \/ i = row
    BY <1>1, EquiAssumption DEF ApplyFirst, ApplySecond, Narrow, NarrowRow, Left
<1>7. ASSUME pc = "first", NEW i \in Left, i = row PROVE FitsFirst(i)'
    <2>1. ApplyFirst
        BY <1>7 DEF ApplySecond, Narrow
    <2>2. ASSUME NEW j, j \in Window(i)' PROVE Apply(call.op1, call.left1[i], call.right1[j])
        BY <1>1, <1>7, <2>1, <2>2, FirstColumnAscends, NarrowDrops DEF ApplyFirst
    <2>3. \A j \in Window(i)' : Holds(call.op1, call.left1[i], call.right1[j])
        BY <2>2 DEF Holds
    <2> QED
        BY <1>1, <2>3 DEF FitsFirst, Fits, Holds
<1>8. ASSUME pc = "second", NEW i \in Left, i = row PROVE FitsSecond(i)'
    <2>1. ApplySecond
        BY <1>8 DEF ApplyFirst, Narrow
    <2>2. ASSUME NEW j, j \in Window(i)' PROVE Apply(call.op2, call.left2[i], call.right2[j])
        BY <1>1, <1>8, <2>1, <2>2, SecondColumnAscends, NarrowDrops DEF ApplySecond
    <2>3. \A j \in Window(i)' : Holds(call.op2, call.left2[i], call.right2[j])
        BY <2>2 DEF Holds
    <2> QED
        BY <1>1, <2>3 DEF FitsSecond, Fits, Holds
<1> QED
    BY <1>1, <1>2, <1>3, <1>4, <1>5, <1>6, <1>7, <1>8 DEF ExactInv, Narrowing, Passing

\* A step that leaves windows and path alone, inside a pass or out of one.
LEMMA ExactQuiet ==
    ASSUME ExactInv, WindowInv, call' = call, UNCHANGED windowVars, path' = path,
           \/ pc' = pc /\ row' = row
           \/ pc' \in Ended /\ (pc = "enter" => pc' = "error")
              /\ (pc = "validate" => pc' = "error") /\ (pc = "error" => pc' = "error")
    PROVE  ExactInv'
<1>1. Accepted' = Accepted /\ \A i \in Left : (InUse(call, i)' = InUse(call, i))
                                               /\ (InBounds(call, i)' = InBounds(call, i))
    BY Zenon DEF Accepted, SourceLen, InUse, InBounds
<1>2. \A i \in Left : /\ FitsFirst(i)' = FitsFirst(i) /\ FitsSecond(i)' = FitsSecond(i)
                      /\ Refused(i)' = Refused(i) /\ NoExtreme(i)' = NoExtreme(i)
    BY FitsStays, RefusedStays
<1> QED
    BY <1>1, <1>2 DEF ExactInv, Narrowing, Passing, Ended

\* A pass goes on, or the second pass of keep="all" begins.
LEMMA ExactPass ==
    ASSUME ExactInv, WindowInv, call' = call, UNCHANGED windowVars, path' = path,
           \/ /\ pc \in {"count", "select"} /\ pc' = pc /\ row' = row + 1 /\ row < LeftLen
              /\ ~Refused(row) /\ (pc = "select" => ~NoExtreme(row))
           \/ pc \in {"emit", "feed"} /\ pc' = pc
           \/ pc = "count" /\ pc' = "emit" /\ row = LeftLen
    PROVE  ExactInv'
<1>1. Accepted' = Accepted /\ \A i \in Left : (InUse(call, i)' = InUse(call, i))
                                               /\ (InBounds(call, i)' = InBounds(call, i))
    BY Zenon DEF Accepted, SourceLen, InUse, InBounds
<1>2. \A i \in Left : /\ FitsFirst(i)' = FitsFirst(i) /\ FitsSecond(i)' = FitsSecond(i)
                      /\ Refused(i)' = Refused(i) /\ NoExtreme(i)' = NoExtreme(i)
    BY FitsStays, RefusedStays
<1>3. row \in Nat /\ \A i \in Left : i \in Int /\ i < LeftLen
    BY EquiAssumption DEF WindowInv, Left
<1>4. row' = row + 1 => \A i \in Left : i < row' => i < row \/ i = row
    BY <1>3
<1>5. CASE pc \in {"count", "select"} /\ pc' = pc
    BY <1>1, <1>2, <1>4, <1>5 DEF ExactInv, Narrowing, Passing, Ended
<1>6. CASE pc \in {"emit", "feed"} /\ pc' = pc
    BY <1>1, <1>2, <1>6 DEF ExactInv, Narrowing, Passing, Ended
<1>7. CASE pc = "count" /\ pc' = "emit" /\ row = LeftLen
    BY <1>1, <1>2, <1>3, <1>7 DEF ExactInv, Narrowing, Passing, Ended
<1> QED
    BY <1>5, <1>6, <1>7

\* The first pass begins.
LEMMA ExactBegin ==
    ASSUME ExactInv, WindowInv, call' = call, UNCHANGED windowVars, row' = 0, pc' = FirstPass,
           pc \in Narrowing \union {"enter", "validate"}, Accepted,
           call.windowed => path' \in {"windows", "scan", "mask"},
           ~call.windowed => path' = "aligned",
           call.windowed /\ call.entry \in {"range", "aggregate"} =>
                \A i \in Left : InUse(call, i) => InBounds(call, i),
           call.windowed => \A i \in Left : FitsFirst(i),
           path' = "windows" => \A i \in Left : FitsSecond(i)
    PROVE  ExactInv'
<1>1. Accepted' = Accepted /\ \A i \in Left : (InUse(call, i)' = InUse(call, i))
                                               /\ (InBounds(call, i)' = InBounds(call, i))
    BY Zenon DEF Accepted, SourceLen, InUse, InBounds
<1>2. \A i \in Left : /\ FitsFirst(i)' = FitsFirst(i) /\ FitsSecond(i)' = FitsSecond(i)
                      /\ Refused(i)' = Refused(i) /\ NoExtreme(i)' = NoExtreme(i)
    BY FitsStays, RefusedStays
<1>3. \A i \in Left : ~(i < row')
    BY EquiAssumption DEF Left
<1>4. /\ pc' \in {"feed", "emit", "count", "select"}
      /\ pc' = "feed" <=> call.entry = "aggregate"
      /\ pc' = "emit" => call.entry = "uniq"
      /\ pc' = "count" => call.keep = "all" /\ call.entry \notin {"aggregate", "uniq"}
      /\ pc' = "select" => call.keep # "all" /\ call.entry \notin {"aggregate", "uniq"}
    BY DEF FirstPass
<1>5. call.entry \in Entries /\ (call.entry = "uniq" => call.keep = "all")
    BY CallShape DEF WindowInv
<1>6. pc' \in {"emit", "feed"} => \A i \in Left : ~Refused(i)
    BY <1>4 DEF Refused
<1>7. call.op1 = None => starts = call.starts /\ ends = call.ends
    BY DEF ExactInv
<1> QED
    BY <1>1, <1>2, <1>3, <1>4, <1>5, <1>6, <1>7 DEF ExactInv, Narrowing, Passing, Ended, Entries

LEMMA ExactNext ==
    ASSUME WindowInv, ExactInv, [Next]_vars, pc \in {"enter", "validate"} => row = 0
    PROVE  ExactInv'
<1>0. row \in Nat /\ LeftLen \in Nat /\ call \in Calls
    BY EquiAssumption DEF WindowInv
<1>1. CASE Enter
    <2>1. pc = "enter" /\ call' = call /\ UNCHANGED windowVars /\ path' = path /\ row' = 0 /\ row = 0
        BY <1>1 DEF Enter
    <2>2. CASE ~Accepted
        BY <1>1, <2>1, <2>2, ExactQuiet DEF Enter, Ended
    <2>3. CASE Accepted /\ ValidatesLater
        <3>1. Accepted' = Accepted
            BY <2>1, Zenon DEF Accepted, SourceLen
        <3>2. pc' = "validate"
            BY <1>1, <2>3 DEF Enter
        <3> QED
            BY <2>1, <2>3, <3>1, <3>2 DEF ExactInv, Narrowing, Passing, Ended
    <2>4. CASE Accepted /\ ~ValidatesLater
        <3>1. pc' = FirstPass
            BY <1>1, <2>4 DEF Enter
        <3>2. /\ call.entry \in Entries
              /\ call.entry \in {"ne", "only", "uniq"} => call.op1 = None
              /\ call.op1 = None => call.op2 = None
              /\ call.entry \in {"range", "ne", "only"} => call.windowed
            BY <1>0, CallShape
        <3>3. call.windowed => call.entry \in {"ne", "only"} /\ call.op1 = None /\ call.op2 = None
            BY <2>4, <3>2, <1>0, CallShape DEF ValidatesLater, Entries
        <3>4. /\ call.windowed => path \in {"windows", "scan", "mask"}
              /\ ~call.windowed => path = "aligned"
            BY DEF ExactInv
        <3> QED
            BY <2>1, <2>4, <3>1, <3>3, <3>4, NothingToFit, ExactBegin
    <2> QED
        BY <2>2, <2>3, <2>4
<1>2. CASE RefuseRow
    <2>1. pc' = "error" /\ call' = call /\ UNCHANGED windowVars /\ path' = path
        BY <1>2 DEF RefuseRow
    <2> QED
        BY <2>1, ExactQuiet DEF Ended
<1>3. CASE Refuse
    <2>1. pc' = "error" /\ call' = call /\ UNCHANGED windowVars /\ path' = path
        BY <1>3 DEF Refuse
    <2> QED
        BY <2>1, ExactQuiet DEF Ended
<1>4. CASE Validate
    <2>1. /\ pc = "validate" /\ call' = call /\ UNCHANGED windowVars /\ path' = path
          /\ row' = 0 /\ row = 0 /\ call.windowed
          /\ starts = call.starts /\ ends = call.ends /\ Accepted
          /\ path = "windows"
        BY <1>4 DEF Validate, WindowInv, ExactInv
    <2>2. \A i \in Left : InUse(call, i) => InBounds(call, i)
        BY <1>4, <2>1 DEF Validate, Active, InUse
    <2>3. CASE call.op1 = None
        <3>1. pc' = FirstPass /\ call.op2 = None
            BY <1>0, <1>4, <2>3, CallShape DEF Validate
        <3> QED
            BY <2>1, <2>2, <2>3, <3>1, NothingToFit, ExactBegin
    <2>4. CASE call.op1 # None
        <3>1. pc' = "first"
            BY <1>4, <2>4 DEF Validate
        <3>2. Accepted' = Accepted /\ \A i \in Left : (InUse(call, i)' = InUse(call, i))
                                               /\ (InBounds(call, i)' = InBounds(call, i))
            BY <2>1, Zenon DEF Accepted, SourceLen, InUse, InBounds
        <3>3. \A i \in Left : ~(i < row')
            BY <2>1, EquiAssumption DEF Left
        <3>4. call.entry \in {"range", "aggregate"}
            BY <1>0, <2>4, CallShape DEF Entries
        <3> QED
            BY <2>1, <2>2, <2>4, <3>1, <3>2, <3>3, <3>4 DEF ExactInv, Narrowing, Passing, Ended
    <2> QED
        BY <2>3, <2>4
<1>5. CASE ApplyFirst \/ ApplySecond \/ Narrow
    BY <1>5, ExactNarrow
<1>6. CASE EndFirst \/ EndSecond \/ EndEnvelope \/ EndNarrow
    <2>1. /\ pc \in Narrowing /\ row = LeftLen /\ call' = call /\ UNCHANGED windowVars /\ row' = 0
          /\ call.windowed /\ call.op1 # None /\ Accepted
          /\ call.entry \in {"range", "aggregate"}
          /\ \A i \in Left : InUse(call, i) => InBounds(call, i)
          /\ path = "windows"
        <3>1. pc \in Narrowing /\ row = LeftLen /\ call' = call /\ UNCHANGED windowVars /\ row' = 0
            BY <1>6 DEF EndFirst, EndSecond, EndEnvelope, EndNarrow, Narrowing
        <3>2. /\ call.windowed /\ (call.op2 # None => call.op1 # None)
              /\ \A i \in Left : InUse(call, i) => InBounds(call, i)
            BY <1>0, <3>1, CallShape DEF WindowInv
        <3>3. call.op1 # None
            BY <3>1, <3>2 DEF WindowInv, Narrowing
        <3> QED
            BY <3>1, <3>2, <3>3 DEF ExactInv, Narrowing
    <2>2. \A i \in Left : i \in Int /\ i < row
        BY <1>0, <2>1 DEF Left
    <2>3. \A i \in Left : FitsFirst(i)
        BY <2>1, <2>2 DEF ExactInv, Narrowing
    <2>4. pc = "second" => \A i \in Left : FitsSecond(i)
        BY <2>2 DEF ExactInv
    <2>5. CASE pc' = "none"
        <3>1. Accepted' = Accepted /\ \A i \in Left : (InUse(call, i)' = InUse(call, i))
                                               /\ (InBounds(call, i)' = InBounds(call, i))
            BY <2>1, Zenon DEF Accepted, SourceLen, InUse, InBounds
        <3>2. path' = path
            BY <1>6, <2>5 DEF EndFirst, EndSecond, EndEnvelope, EndNarrow, FirstPass
        <3> QED
            BY <2>1, <2>5, <3>1, <3>2 DEF ExactInv, Narrowing, Passing, Ended
    <2>6. CASE pc' \in {"second", "envelope", "narrow"}
        <3>1. path' = path
            BY <1>6, <2>6 DEF EndFirst, EndSecond, EndEnvelope, EndNarrow, FirstPass
        <3>2. Accepted' = Accepted /\ \A i \in Left : (InUse(call, i)' = InUse(call, i))
                                               /\ (InBounds(call, i)' = InBounds(call, i))
            BY <2>1, Zenon DEF Accepted, SourceLen, InUse, InBounds
        <3>3. \A i \in Left : FitsFirst(i)'
            BY <2>1, <2>3, FitsStays
        <3>4. \A i \in Left : ~(i < row')
            BY <2>1, EquiAssumption DEF Left
        <3> QED
            BY <2>1, <2>6, <3>1, <3>2, <3>3, <3>4 DEF ExactInv, Narrowing, Passing, Ended
    <2>7. CASE pc' = FirstPass
        <3>1. /\ path' \in {"windows", "scan", "mask"}
              /\ path' = "windows" => \A i \in Left : FitsSecond(i)
            <4>1. CASE EndFirst
                <5>1. call.op2 = None
                    BY <2>7, <4>1 DEF EndFirst, FirstPass
                <5> QED
                    BY <2>1, <4>1, <5>1, NothingToFit DEF EndFirst
            <4>2. CASE EndSecond
                BY <2>1, <2>4, <4>2 DEF EndSecond
            <4>3. CASE EndEnvelope
                BY <2>7, <4>3 DEF EndEnvelope, FirstPass
            <4>4. CASE EndNarrow
                BY <2>7, <4>4 DEF EndNarrow, FirstPass
            <4> QED
                BY <1>6, <4>1, <4>2, <4>3, <4>4
        <3> QED
            BY <2>1, <2>3, <2>7, <3>1, ExactBegin
    <2>8. pc' = "none" \/ pc' \in {"second", "envelope", "narrow"} \/ pc' = FirstPass
        BY <1>6 DEF EndFirst, EndSecond, EndEnvelope, EndNarrow
    <2> QED
        BY <2>5, <2>6, <2>7, <2>8
<1>7. CASE EnvelopeRow
    <2>1. pc = "envelope" /\ pc' = pc /\ call' = call /\ UNCHANGED windowVars /\ path' = path
        BY <1>7 DEF EnvelopeRow
    <2>2. Accepted' = Accepted /\ \A i \in Left : (InUse(call, i)' = InUse(call, i))
                                               /\ (InBounds(call, i)' = InBounds(call, i))
        BY <2>1, Zenon DEF Accepted, SourceLen, InUse, InBounds
    <2>3. \A i \in Left : FitsFirst(i)' = FitsFirst(i)
        BY <2>1, FitsStays
    <2> QED
        BY <2>1, <2>2, <2>3 DEF ExactInv, Narrowing, Passing, Ended
<1>8. CASE CountRow \/ SelectRow
    BY <1>8, ExactPass DEF CountRow, SelectRow
<1>9. CASE EmitRow \/ FeedRow
    BY <1>9, ExactPass DEF EmitRow, FeedRow
<1>10. CASE EndCount
    <2>1. CASE count = 0
        BY <1>10, <2>1, ExactQuiet DEF EndCount, Ended
    <2>2. CASE count # 0
        BY <1>10, <2>2, ExactPass DEF EndCount
    <2> QED
        BY <2>1, <2>2
<1>11. CASE EndEmit \/ SelectExtrema \/ EndSelect \/ HandOver \/ EndFeed
    <2>1. /\ pc \in Passing /\ pc' \in {"none", "done"} /\ call' = call /\ UNCHANGED windowVars
          /\ path' = path
        BY <1>11 DEF EndEmit, SelectExtrema, EndSelect, HandOver, EndFeed, Passing
    <2> QED
        BY <2>1, ExactQuiet DEF Ended, Passing
<1>12. CASE UNCHANGED vars
    BY <1>12, ExactQuiet
<1> QED
    BY <1>1, <1>2, <1>3, <1>4, <1>5, <1>6, <1>7, <1>8, <1>9, <1>10, <1>11, <1>12
    DEF Next, EntryNext, NarrowNext, MaterializeNext, AggregateNext

-----------------------------------------------------------------------------
\* Candidates are matches.

LEMMA CallBasics ==
    ASSUME WindowInv
    PROVE  /\ call \in Calls /\ LeftLen \in Nat /\ RightLen \in Nat
           /\ call.windowed \in BOOLEAN /\ call.reverse \in BOOLEAN
           /\ \A i \in Left : i \in Int /\ starts[i] \in Int /\ ends[i] \in Int
           /\ Right \in SUBSET Int /\ RightRows(call) \in SUBSET Right
    BY CallShape, EquiAssumption DEF WindowInv, Left, Right

\* A row that is not refused has its window among the right rows.
LEMMA WindowInRight ==
    ASSUME WindowInv, ExactInv, pc \in Passing, NEW i \in Left, ~Refused(i)
    PROVE  Window(i) \in SUBSET RightRows(call)
<1>1. CASE ~call.windowed
    BY <1>1 DEF Window
<1>2. CASE call.windowed
    <2>1. RightRows(call) = Right /\ call.entry \in Entries
        BY <1>2, CallBasics, CallShape
    <2>2. Active(i) => /\ InUse(call, i) /\ InBounds(call, i)
                       /\ call.starts[i] <= starts[i] /\ ends[i] <= call.ends[i]
        <3>1. ASSUME Active(i) PROVE InBounds(call, i)
            <4>1. InUse(call, i)
                BY <3>1 DEF WindowInv
            <4>2. CASE call.entry \in {"range", "aggregate"}
                BY <1>2, <4>1, <4>2 DEF ExactInv, Passing
            <4>3. CASE call.entry = "ne"
                BY <4>3 DEF Refused
            <4>4. CASE call.entry = "only"
                BY <4>4 DEF ExactInv, Accepted, Passing
            <4>5. call.entry # "uniq"
                BY <1>2, CallBasics, CallShape
            <4> QED
                BY <2>1, <4>2, <4>3, <4>4, <4>5 DEF Entries
        <3> QED
            BY <3>1 DEF WindowInv
    <2>3. CASE Active(i)
        <3>1. Window(i) = starts[i] .. ends[i] - 1
            BY <1>2, <2>3 DEF Window
        <3>2. /\ 0 <= starts[i] /\ ends[i] <= call.ends[i] /\ call.ends[i] <= RightLen
              /\ starts[i] \in Int /\ ends[i] \in Int /\ call.ends[i] \in Int /\ RightLen \in Int
            BY <2>2, <2>3, CallBasics, CallShape DEF Active, InBounds
        <3> QED
            BY <2>1, <3>1, <3>2 DEF Right
    <2>4. CASE ~Active(i)
        BY <1>2, <2>4 DEF Window
    <2> QED
        BY <2>3, <2>4
<1> QED
    BY <1>1, <1>2, CallBasics

MatchingRows(i) == {j \in RightRows(call) : Matches(i, j)}

\* In a valid call a pass meets, for every row, what matches it.
LEMMA CandidatesMatch ==
    ASSUME NarrowInv, ExactInv, pc \in Passing, Valid, NEW i \in Left, ~Refused(i)
    PROVE  Candidates(i) = MatchingRows(i)
<1> USE DEF NarrowInv
<1>1. Window(i) \in SUBSET RightRows(call)
    BY WindowInRight
<1>2. ASSUME NEW j \in MatchingRows(i) PROVE j \in Candidates(i)
    <2>1. j \in RightRows(call) /\ Matches(i, j)
        BY <1>2 DEF MatchingRows
    <2>2. j \in Window(i)
        BY <2>1 DEF NarrowingKeepsMatches
    <2> QED
        BY <2>1, <2>2 DEF Candidates, Passes, Matches, Holds
<1>3. ASSUME NEW j \in Candidates(i) PROVE j \in MatchingRows(i)
    <2>1. j \in Window(i) /\ Passes(i, j) /\ j \in RightRows(call)
        BY <1>1, <1>3 DEF Candidates
    <2>2. j \in SameKey(i)
        <3>1. CASE ~call.windowed
            BY <2>1, <3>1 DEF SameKey, Window
        <3>2. CASE call.windowed
            <4>1. Active(i) /\ j \in starts[i] .. ends[i] - 1
                BY <2>1, <3>2 DEF Window
            <4>2. /\ InUse(call, i) /\ call.starts[i] <= starts[i] /\ ends[i] <= call.ends[i]
                  /\ call.starts[i] \in Int /\ call.ends[i] \in Int
                  /\ starts[i] \in Int /\ ends[i] \in Int
                BY <4>1, CallBasics, CallShape DEF WindowInv
            <4> QED
                BY <3>2, <4>1, <4>2 DEF SameKey, KeyWindow
        <3> QED
            BY <3>1, <3>2
    <2>3. Holds(call.op1, call.left1[i], call.right1[j])
        <3>1. CASE ~call.windowed
            BY <2>1, <3>1 DEF ExactInv, Passes
        <3>2. CASE call.windowed
            BY <2>1, <3>2 DEF ExactInv, FitsFirst, Fits
        <3> QED
            BY <3>1, <3>2
    <2>4. Holds(call.op2, call.left2[i], call.right2[j])
        BY <2>1 DEF ExactInv, Passes, FitsSecond, Fits
    <2>5. <<i, j>> \in call.residual
        BY <2>1 DEF Passes
    <2> QED
        BY <2>1, <2>2, <2>3, <2>4, <2>5 DEF MatchingRows, Matches, Holds
<1> QED
    BY <1>2, <1>3

\* A pass that has come to its end makes the call a valid one.
LEMMA PassedIsValid ==
    ASSUME WindowInv, ExactInv, pc \in Passing, \A i \in Left : ~Refused(i),
           pc = "select" => \A i \in Left : ~NoExtreme(i)
    PROVE  Valid
<1>1. Accepted /\ call.entry \in Entries /\ call \in Calls
    BY CallBasics, CallShape DEF ExactInv, Passing
<1>2. ASSUME call.windowed, NEW i \in Left, InUse(call, i) PROVE InBounds(call, i)
    <2>1. call.entry # "uniq"
        BY <1>1, <1>2, CallShape
    <2> QED
        BY <1>1, <1>2, <2>1 DEF ExactInv, Accepted, Refused, Passing, Entries
<1>3. ASSUME call.entry = "ne", NEW i \in Left PROVE InUse(call, i)
    BY <1>3 DEF Refused
<1>4. ASSUME call.entry = "only", call.keep # "all", NEW i \in Left PROVE KeyWindow(call, i) # {}
    <2>1. pc = "select"
        BY <1>4 DEF ExactInv, Passing
    <2>2. Window(i) # {}
        BY <1>4, <2>1 DEF NoExtreme
    <2>3. starts = call.starts /\ ends = call.ends
        BY <1>1, <1>4, CallShape DEF ExactInv
    <2> QED
        BY <1>1, <1>4, <2>2, <2>3, CallShape DEF Window, KeyWindow
<1> QED
    BY <1>1, <1>2, <1>3, <1>4 DEF Valid

-----------------------------------------------------------------------------
\* What a pair looks like where it is put out, and what it shows.

Put(i, j) == IF Aggregating THEN Contribution(i, j) ELSE <<i, j>>

Shown(p) ==
    IF ~Aggregating THEN <<p[1], Named(p[2])>>
    ELSE IF call.reverse THEN <<p[2], SlotLabel(p[1])>> ELSE p

LEMMA IntervalRank ==
    ASSUME NEW n \in Nat, NEW j \in 0 .. n - 1
    PROVE  Rank(0 .. n - 1, j) = j
<1> DEFINE last == j - 1
<1>1. {q \in 0 .. n - 1 : q < j} = 0 .. last /\ last \in Int
    OBVIOUS
<1>2. Cardinality(0 .. last) = j
    <2>1. Cardinality(0 .. last) = IF 0 > last THEN 0 ELSE last - 0 + 1
        <3> HIDE DEF last
        <3> QED
            BY <1>1, 0 \in Int, FS_Interval
    <2> QED
        BY <2>1
<1> QED
    BY <1>1, <1>2 DEF Rank

LEMMA RightIsFinite ==
    ASSUME WindowInv, NEW S \in SUBSET RightRows(call)
    PROVE  IsFiniteSet(S) /\ S \in SUBSET Int
<1> DEFINE last == RightLen - 1
<1>1. Right = 0 .. last /\ last \in Int
    BY CallBasics DEF Right
<1> HIDE DEF last
<1>2. IsFiniteSet(Right) /\ Right \in SUBSET Int /\ S \in SUBSET Right
    BY <1>1, CallBasics, 0 \in Int, FS_Interval
<1> QED
    BY <1>2, FS_Subset

\* The first row of every label.
LEMMA FirstOfLabel ==
    ASSUME WindowInv, NEW j \in RightRows(call)
    PROVE  \E m \in FirstRows : /\ call.right_index[m] = call.right_index[j]
                                /\ \A k \in FirstRows : call.right_index[k] = call.right_index[j] => k = m
<1> DEFINE S == {k \in RightRows(call) : call.right_index[k] = call.right_index[j]}
<1>1. RightRows(call) \in SUBSET Nat
    BY CallBasics DEF Right
<1>2. S \in SUBSET Nat /\ S # {}
    BY <1>1
<1>3. PICK m \in S : \A k \in S : m <= k
    BY <1>2, LeastNatural
<1>4. m \in FirstRows
    BY <1>3 DEF FirstRows
<1>5. ASSUME NEW k \in FirstRows, call.right_index[k] = call.right_index[j] PROVE k = m
    <2>1. k \in S /\ k <= m /\ m <= k
        BY <1>3, <1>5 DEF FirstRows
    <2> QED
        BY <1>2, <2>1
<1> QED
    BY <1>3, <1>4, <1>5

\* The slot of a row leads back to its label.
LEMMA SlotShowsLabel ==
    ASSUME WindowInv, ~call.windowed, NEW j \in RightRows(call)
    PROVE  SlotOf(j) \in Int /\ SlotLabel(SlotOf(j)) = call.right_index[j]
<1>1. PICK m \in FirstRows : /\ call.right_index[m] = call.right_index[j]
                             /\ \A k \in FirstRows : call.right_index[k] = call.right_index[j] => k = m
    BY FirstOfLabel
<1>2. SlotOf(j) = Rank(FirstRows, m)
    BY <1>1 DEF SlotOf, Rank
<1>3. FirstRows \in SUBSET Int /\ IsFiniteSet(FirstRows)
    BY RightIsFinite DEF FirstRows
<1>4. /\ Cardinality(FirstRows) \in Nat
      /\ Rank(FirstRows, m) + 1 \in 1 .. Cardinality(FirstRows)
      /\ Ascending(FirstRows)[Rank(FirstRows, m) + 1] = m
    BY <1>1, <1>3, AscendingListsRows
<1>5. Rank(FirstRows, m) \in Int
    BY <1>1, <1>3, <1>4, RanksRise
<1> QED
    BY <1>1, <1>2, <1>4, <1>5 DEF SlotLabel, OutputRows

LEMMA PlaceShowsLabel ==
    ASSUME WindowInv, call.windowed, NEW j \in RightRows(call)
    PROVE  SlotLabel(j) = call.right_index[j]
<1>1. RightRows(call) = 0 .. RightLen - 1 /\ RightLen \in Nat
    BY CallBasics, CallShape DEF Right
<1>2. RightRows(call) \in SUBSET Int /\ IsFiniteSet(RightRows(call))
    BY RightIsFinite
<1>3. Rank(RightRows(call), j) = j
    BY <1>1, IntervalRank
<1>4. Ascending(RightRows(call))[j + 1] = j
    BY <1>2, <1>3, AscendingListsRows
<1> QED
    BY <1>4 DEF SlotLabel, OutputRows

\* A pair shows its left row and what its right row is called.
LEMMA PutShows ==
    ASSUME WindowInv, NEW i \in Left, NEW j \in RightRows(call)
    PROVE  Put(i, j) \in Int \X Int /\ Shown(Put(i, j)) = <<i, Named(j)>>
<1>1. i \in Int /\ j \in Int
    BY CallBasics
<1>2. CASE ~Aggregating
    BY <1>1, <1>2 DEF Put, Shown
<1>3. CASE Aggregating /\ ~call.reverse
    BY <1>1, <1>3 DEF Put, Shown, Contribution, Named
<1>4. CASE Aggregating /\ call.reverse /\ call.windowed
    BY <1>1, <1>4, PlaceShowsLabel DEF Put, Shown, Contribution, Named
<1>5. CASE Aggregating /\ call.reverse /\ ~call.windowed
    BY <1>1, <1>5, SlotShowsLabel DEF Put, Shown, Contribution, Named
<1> QED
    BY <1>2, <1>3, <1>4, <1>5

\* Rows that are called the same go into one slot.
LEMMA SameSlot ==
    ASSUME WindowInv, Aggregating, call.reverse, NEW i, NEW k,
           NEW j \in RightRows(call), NEW m \in RightRows(call), Named(j) = Named(m)
    PROVE  Put(i, j)[1] = Put(k, m)[1]
<1>1. call.right_index[j] = call.right_index[m]
    BY DEF Named
<1>2. CASE call.windowed
    <2>1. j = m
        BY <1>1, <1>2, CallBasics, CallShape
    <2> QED
        BY <1>2, <2>1 DEF Put, Contribution
<1>3. CASE ~call.windowed
    <2>1. SlotOf(j) = SlotOf(m)
        BY <1>1 DEF SlotOf
    <2> QED
        BY <1>3, <2>1 DEF Put, Contribution
<1> QED
    BY <1>2, <1>3

\* The candidates of one row go by different names.
LEMMA NamesDiffer ==
    ASSUME WindowInv, NEW i \in Left, Window(i) \in SUBSET RightRows(call),
           NEW j \in Candidates(i), NEW k \in Candidates(i), Named(j) = Named(k)
    PROVE  j = k
<1>1. j \in Window(i) /\ k \in Window(i) /\ j \in RightRows(call) /\ k \in RightRows(call)
    BY DEF Candidates
<1>2. CASE ~call.windowed
    BY <1>1, <1>2 DEF Window
<1>3. CASE call.windowed
    BY <1>1, <1>3, CallBasics, CallShape DEF Named
<1> QED
    BY <1>2, <1>3

-----------------------------------------------------------------------------
\* Rows answered so far.

\* What has been put out for a row.
Partners(out, i) == {Shown(out[n])[2] : n \in {m \in DOMAIN out : Shown(out[m])[1] = i}}

NamesOf(rows) == {Named(j) : j \in rows}

Chosen(A, i) == A \in Join!Permitted(call.keep, NamesOf(Candidates(i)))

Distinct(out) == \A m, n \in DOMAIN out : Shown(out[m]) = Shown(out[n]) => m = n

OneSlot(out) ==
    Aggregating /\ call.reverse => \A m, n \in DOMAIN out :
        Shown(out[m])[2] = Shown(out[n])[2] => out[m][1] = out[n][1]

\* The rows before r, and no others, have their answers in out, without repetition.
Fed(out, r) ==
    /\ out \in Seq(Int \X Int)
    /\ \A n \in DOMAIN out : \E i \in Left : \E j \in Candidates(i) : i < r /\ out[n] = Put(i, j)
    /\ \A i \in Left : i < r => Window(i) \in SUBSET RightRows(call) /\ Chosen(Partners(out, i), i)
    /\ Distinct(out)

LEMMA FedNothing == Fed(<<>>, 0)
    BY EquiAssumption DEF Fed, Left, Distinct

\* All values of a label are in one slot.
LEMMA FedIntoOneSlot ==
    ASSUME WindowInv, NEW out, NEW r, Fed(out, r)
    PROVE  OneSlot(out)
<1> SUFFICES ASSUME Aggregating, call.reverse, NEW m \in DOMAIN out, NEW n \in DOMAIN out,
                    Shown(out[m])[2] = Shown(out[n])[2]
             PROVE  out[m][1] = out[n][1]
    BY DEF OneSlot
<1>1. PICK i \in Left : \E j \in Candidates(i) : i < r /\ out[m] = Put(i, j)
    BY DEF Fed
<1>2. PICK j \in Candidates(i) : i < r /\ out[m] = Put(i, j)
    BY <1>1
<1>3. PICK k \in Left : \E h \in Candidates(k) : k < r /\ out[n] = Put(k, h)
    BY DEF Fed
<1>4. PICK h \in Candidates(k) : k < r /\ out[n] = Put(k, h)
    BY <1>3
<1>5. j \in RightRows(call) /\ h \in RightRows(call)
    BY <1>2, <1>4 DEF Fed, Candidates
<1>6. Shown(Put(i, j)) = <<i, Named(j)>> /\ Shown(Put(k, h)) = <<k, Named(h)>>
    BY <1>5, PutShows
<1>7. Named(j) = Named(h)
    BY <1>2, <1>4, <1>6
<1> QED
    BY <1>2, <1>4, <1>5, <1>7, SameSlot

\* A row behind those before it.
LEMMA RowIsFed ==
    ASSUME WindowInv, NEW i \in Left, NEW out, Fed(out, i), Window(i) \in SUBSET RightRows(call),
           NEW f \in Seq(Int), \A n \in DOMAIN f : f[n] \in Candidates(i),
           \A m, n \in DOMAIN f : f[m] = f[n] => m = n,
           NEW A, Chosen(A, i),
           \A n \in DOMAIN f : Named(f[n]) \in A, \A x \in A : \E n \in DOMAIN f : x = Named(f[n]),
           NEW g \in Seq(Int \X Int), Len(g) = Len(f), \A n \in DOMAIN f : g[n] = Put(i, f[n])
    PROVE  Fed(out \o g, i + 1)
<1> DEFINE t == out \o g
           PairSet == Int \X Int
<1>0. i \in Int /\ \A k \in Left : k \in Int
    BY CallBasics
<1>1. \A n \in DOMAIN f : /\ f[n] \in RightRows(call) /\ f[n] \in Candidates(i)
                          /\ Put(i, f[n]) \in PairSet /\ Shown(Put(i, f[n])) = <<i, Named(f[n])>>
    <2>1. \A n \in DOMAIN f : f[n] \in RightRows(call)
        BY DEF Candidates
    <2> QED
        BY <2>1, PutShows
<1>2. DOMAIN f = 1 .. Len(f) /\ Len(f) \in Nat
    OBVIOUS
<1>3. \A n \in 1 .. Len(f) : g[n] = Put(i, f[n])
    BY <1>2
<1>4. g \in Seq(PairSet) /\ Len(g) = Len(f)
    OBVIOUS
<1>5. out \in Seq(PairSet) /\ Len(out) \in Nat /\ DOMAIN out = 1 .. Len(out)
    BY DEF Fed
<1>6. t = out \o g
    OBVIOUS
<1> HIDE DEF PairSet, t
<1>7. /\ t \in Seq(PairSet) /\ Len(t) = Len(out) + Len(f)
      /\ \A n \in 1 .. Len(out) : t[n] = out[n]
      /\ \A n \in 1 .. Len(t) : ~(n <= Len(out)) => t[n] = g[n - Len(out)]
    <2>0. out \o g \in Seq(PairSet) /\ Len(out \o g) = Len(out) + Len(g)
        <3>1. out \in Seq(PairSet) /\ g \in Seq(PairSet)
            BY <1>4, <1>5, Zenon
        <3> QED
            BY <3>1, Appended, Zenon
    <2>1. t \in Seq(PairSet) /\ Len(t) = Len(out) + Len(g)
        BY <1>6, <2>0, Zenon
    <2>2. \A n \in 1 .. Len(out) : t[n] = out[n]
        BY <1>4, <1>5, <1>6, Appended
    <2>3. \A n \in 1 .. Len(t) : ~(n <= Len(out)) => t[n] = g[n - Len(out)]
        BY <1>4, <1>5, <1>6, Appended
    <2> QED
        BY <1>4, <2>1, <2>2, <2>3
<1>8. DOMAIN t = 1 .. Len(t) /\ Len(t) \in Nat
    BY <1>7
<1>9. \A n \in 1 .. Len(t) : ~(n <= Len(out)) => n - Len(out) \in 1 .. Len(f)
    BY <1>2, <1>5, <1>7
<1>10. \A n \in 1 .. Len(f) : Len(out) + n \in 1 .. Len(t) /\ ~(Len(out) + n <= Len(out))
                              /\ (Len(out) + n) - Len(out) = n
    BY <1>2, <1>5, <1>7
<1>11. \A n \in 1 .. Len(out) : n \in 1 .. Len(t) /\ n <= Len(out)
    BY <1>2, <1>5, <1>7
<1>12. \A n \in 1 .. Len(t) : n <= Len(out) => n \in 1 .. Len(out)
    BY <1>5, <1>8
<1>13. \A n \in DOMAIN out : \E k \in Left : \E j \in Candidates(k) :
            /\ k < i /\ out[n] = Put(k, j) /\ Shown(out[n]) = <<k, Named(j)>>
    <2> SUFFICES ASSUME NEW n \in DOMAIN out
                 PROVE  \E k \in Left : \E j \in Candidates(k) :
                            k < i /\ out[n] = Put(k, j) /\ Shown(out[n]) = <<k, Named(j)>>
        OBVIOUS
    <2>1. PICK k \in Left : \E j \in Candidates(k) : k < i /\ out[n] = Put(k, j)
        BY DEF Fed
    <2>2. PICK j \in Candidates(k) : k < i /\ out[n] = Put(k, j)
        BY <2>1
    <2>3. j \in RightRows(call)
        BY <2>2 DEF Fed, Candidates
    <2> QED
        BY <2>2, <2>3, PutShows
<1>14. ASSUME NEW n \in 1 .. Len(t), ~(n <= Len(out))
       PROVE  /\ n - Len(out) \in DOMAIN f /\ t[n] = Put(i, f[n - Len(out)])
              /\ Shown(t[n]) = <<i, Named(f[n - Len(out)])>>
              /\ Shown(t[n])[1] = i /\ Shown(t[n])[2] = Named(f[n - Len(out)])
    <2>1. n - Len(out) \in 1 .. Len(f) /\ t[n] = g[n - Len(out)]
        BY <1>7, <1>9, <1>14
    <2>2. t[n] = Put(i, f[n - Len(out)])
        BY <1>3, <2>1
    <2>3. Shown(t[n]) = <<i, Named(f[n - Len(out)])>>
        BY <1>1, <1>2, <2>1, <2>2
    <2> QED
        BY <1>2, <2>1, <2>2, <2>3
<1>15. ASSUME NEW n \in 1 .. Len(t), n <= Len(out)
       PROVE  n \in DOMAIN out /\ t[n] = out[n] /\ Shown(t[n]) = Shown(out[n])
                /\ Shown(t[n])[1] \in Left /\ Shown(t[n])[1] < i
    <2>1. n \in DOMAIN out /\ t[n] = out[n]
        BY <1>5, <1>7, <1>12, <1>15
    <2>2. PICK k \in Left : \E j \in Candidates(k) : k < i /\ Shown(out[n]) = <<k, Named(j)>>
        BY <1>13, <2>1
    <2> QED
        BY <2>1, <2>2
<1>16. \A n \in DOMAIN t : \E k \in Left : \E j \in Candidates(k) : k < i + 1 /\ t[n] = Put(k, j)
    <2> SUFFICES ASSUME NEW n \in 1 .. Len(t)
                 PROVE  \E k \in Left : \E j \in Candidates(k) : k < i + 1 /\ t[n] = Put(k, j)
        BY <1>8
    <2>1. CASE n <= Len(out)
        <3>1. n \in DOMAIN out /\ t[n] = out[n]
            BY <1>15, <2>1
        <3>2. PICK k \in Left : \E j \in Candidates(k) : k < i /\ out[n] = Put(k, j)
            BY <1>13, <3>1
        <3>3. k < i + 1
            <4>1. k < i /\ k \in Int /\ i \in Int
                BY <1>0, <3>2
            <4> QED
                BY <4>1
        <3> QED
            BY <3>1, <3>2, <3>3
    <2>2. CASE ~(n <= Len(out))
        <3>1. i < i + 1
            BY <1>0
        <3> QED
            BY <1>1, <1>14, <2>2, <3>1
    <2> QED
        BY <2>1, <2>2
<1>17. Distinct(t)
    <2> SUFFICES ASSUME NEW m \in 1 .. Len(t), NEW n \in 1 .. Len(t), Shown(t[m]) = Shown(t[n])
                 PROVE  m = n
        BY <1>8 DEF Distinct
    <2>1. CASE m <= Len(out) /\ n <= Len(out)
        BY <1>15, <2>1 DEF Fed, Distinct
    <2>2. CASE m <= Len(out) /\ ~(n <= Len(out))
        <3>1. Shown(t[m])[1] < i /\ Shown(t[n])[1] = i
            BY <1>14, <1>15, <2>2
        <3>2. i < i
            BY <3>1
        <3> QED
            BY <1>0, <3>2
    <2>3. CASE ~(m <= Len(out)) /\ n <= Len(out)
        <3>1. Shown(t[n])[1] < i /\ Shown(t[m])[1] = i
            BY <1>14, <1>15, <2>3
        <3>2. i < i
            BY <3>1
        <3> QED
            BY <1>0, <3>2
    <2>4. CASE ~(m <= Len(out)) /\ ~(n <= Len(out))
        <3> DEFINE a == m - Len(out)
                   b == n - Len(out)
        <3>1. a \in DOMAIN f /\ b \in DOMAIN f /\ Named(f[a]) = Named(f[b])
            BY <1>14, <2>4
        <3>2. f[a] = f[b]
            BY <3>1, NamesDiffer
        <3>3. a = b
            BY <3>1, <3>2
        <3> QED
            BY <1>5, <1>8, <3>3
    <2> QED
        BY <2>1, <2>2, <2>3, <2>4
<1>18. ASSUME NEW k \in Left, k < i PROVE Partners(t, k) = Partners(out, k)
    <2>1. ASSUME NEW x \in Partners(t, k) PROVE x \in Partners(out, k)
        <3>1. PICK n \in 1 .. Len(t) : Shown(t[n])[1] = k /\ x = Shown(t[n])[2]
            BY <1>8, <2>1 DEF Partners
        <3>2. n <= Len(out)
            <4>1. SUFFICES ASSUME ~(n <= Len(out)) PROVE FALSE
                OBVIOUS
            <4>2. Shown(t[n])[1] = i
                BY <1>14, <4>1
            <4> QED
                BY <1>0, <1>18, <3>1, <4>2
        <3> QED
            BY <1>15, <3>1, <3>2 DEF Partners
    <2>2. ASSUME NEW x \in Partners(out, k) PROVE x \in Partners(t, k)
        <3>1. PICK n \in 1 .. Len(out) : Shown(out[n])[1] = k /\ x = Shown(out[n])[2]
            BY <1>5, <2>2 DEF Partners
        <3>2. n \in DOMAIN t /\ t[n] = out[n]
            BY <1>7, <1>8, <1>11
        <3> QED
            BY <3>1, <3>2 DEF Partners
    <2> QED
        BY <2>1, <2>2
<1>19. Partners(t, i) = A
    <2>1. ASSUME NEW x \in Partners(t, i) PROVE x \in A
        <3>1. PICK n \in 1 .. Len(t) : Shown(t[n])[1] = i /\ x = Shown(t[n])[2]
            BY <1>8, <2>1 DEF Partners
        <3>2. ~(n <= Len(out))
            BY <1>0, <1>15, <3>1
        <3>3. /\ n - Len(out) \in DOMAIN f
              /\ Shown(t[n]) = <<i, Named(f[n - Len(out)])>>
            BY <1>14, <3>2
        <3>4. x = Named(f[n - Len(out)])
            BY <3>1, <3>3
        <3> QED
            BY <3>3, <3>4
    <2>2. ASSUME NEW n \in DOMAIN f PROVE Named(f[n]) \in Partners(t, i)
        <3>1. /\ Len(out) + n \in 1 .. Len(t) /\ ~(Len(out) + n <= Len(out))
              /\ (Len(out) + n) - Len(out) = n
            BY <1>2, <1>10
        <3> DEFINE p == Len(out) + n
        <3>2. p \in DOMAIN t /\ p \in 1 .. Len(t) /\ ~(p <= Len(out)) /\ p - Len(out) = n
            BY <1>8, <3>1
        <3> HIDE DEF p
        <3>4. Shown(t[p])[1] = i /\ Shown(t[p])[2] = Named(f[n])
            BY <1>14, <3>2
        <3> QED
            BY <3>2, <3>4 DEF Partners
    <2> QED
        BY <2>1, <2>2
<1>20. ASSUME NEW k \in Left, k < i + 1
       PROVE  Window(k) \in SUBSET RightRows(call) /\ Chosen(Partners(t, k), k)
    <2>1. k < i \/ k = i
        BY <1>0, <1>20
    <2>2. CASE k < i
        BY <1>18, <2>2 DEF Fed
    <2>3. CASE k = i
        BY <1>19, <2>3
    <2> QED
        BY <2>1, <2>2, <2>3
<1> QED
    BY <1>7, <1>16, <1>17, <1>20 DEF Fed, PairSet, t

\* What is put out counts at the call's own names, which do not change.
LEMMA NamesStay ==
    ASSUME call' = call
    PROVE  /\ \A j : Named(j)' = Named(j)
           /\ \A slot : SlotLabel(slot)' = SlotLabel(slot)
           /\ \A i, j : Put(i, j)' = Put(i, j)
           /\ \A p : Shown(p)' = Shown(p)
           /\ Aggregating' = Aggregating
<1>1. Aggregating' = Aggregating /\ \A j : Named(j)' = Named(j)
    BY Zenon DEF Aggregating, Named
<1>2. FirstRows' = FirstRows /\ OutputRows' = OutputRows
    BY Zenon DEF FirstRows, OutputRows
<1>3. \A slot : SlotLabel(slot)' = SlotLabel(slot)
    BY <1>2, Zenon DEF SlotLabel
<1>4. \A j : SlotOf(j)' = SlotOf(j)
    BY <1>2, Zenon DEF SlotOf
<1>5. \A i, j : Contribution(i, j)' = Contribution(i, j)
    BY <1>4, Zenon DEF Contribution
<1>6. \A i, j : Put(i, j)' = Put(i, j)
    BY <1>1, <1>5, Zenon DEF Put
<1>7. \A p : Shown(p)' = Shown(p)
    BY <1>1, <1>3, Zenon DEF Shown
<1> QED
    BY <1>1, <1>3, <1>6, <1>7

LEMMA CandidatesStay ==
    ASSUME call' = call, UNCHANGED windowVars, path' = path, NEW i \in Left
    PROVE  Window(i)' = Window(i) /\ Candidates(i)' = Candidates(i)
<1>1. Window(i)' = Window(i)
    BY WindowsStay
<1>2. \A j : Passes(i, j)' = Passes(i, j)
    BY Zenon DEF Passes, Holds
<1> QED
    BY <1>1, <1>2 DEF Candidates

LEMMA PartnersNext ==
    ASSUME call' = call
    PROVE  /\ \A i : Partners(output, i)' = Partners(output', i)
           /\ Distinct(output)' = Distinct(output')
           /\ OneSlot(output)' = OneSlot(output')
<1>1. ASSUME NEW i PROVE Partners(output, i)' = Partners(output', i)
    BY NamesStay DEF Partners
<1>2. Distinct(output)' = Distinct(output')
    BY NamesStay DEF Distinct
<1>3. OneSlot(output)' = OneSlot(output')
    BY NamesStay DEF OneSlot
<1> QED
    BY <1>1, <1>2, <1>3

LEMMA FedNext ==
    ASSUME call' = call, UNCHANGED windowVars, path' = path
    PROVE  Fed(output, row)' = Fed(output', row')
<1>1. \A i \in Left : Window(i)' = Window(i) /\ Candidates(i)' = Candidates(i)
    BY CandidatesStay
<1>2. \A i \in Left : NamesOf(Candidates(i))' = NamesOf(Candidates(i))
    BY <1>1, NamesStay DEF NamesOf
<1>3. \A i \in Left : Chosen(Partners(output, i), i)' = Chosen(Partners(output', i), i)
    BY <1>2, PartnersNext DEF Chosen
<1> QED
    BY <1>1, <1>3, PartnersNext, NamesStay DEF Fed

-----------------------------------------------------------------------------
\* One row.

\* A column takes its extremes on any rows.
LEMMA RowExtremes ==
    ASSUME NEW b \in Int, NEW S \in SUBSET (0 .. b), S # {}, NEW f, \A k \in S : f[k] \in Int
    PROVE  /\ \E m \in S : \A k \in S : f[m] <= f[k]
           /\ \E m \in S : \A k \in S : f[m] >= f[k]
<1>1. PICK s \in S : TRUE
    OBVIOUS
<1> DEFINE g == [k \in 0 .. b |-> IF k \in S THEN f[k] ELSE f[s]]
<1>2. /\ \A k \in 0 .. b : g[k] \in Int
      /\ \A k \in S : k \in 0 .. b /\ g[k] = f[k]
      /\ \A k \in 0 .. b : k \notin S => g[k] = f[s]
    BY <1>1
<1>3. 0 <= b
    BY <1>1
<1> HIDE DEF g
<1>4. /\ \E m \in 0 .. b : \A k \in 0 .. b : g[m] <= g[k]
      /\ \E m \in 0 .. b : \A k \in 0 .. b : g[m] >= g[k]
    BY <1>2, <1>3, 0 \in Int, IntervalExtremes
<1>5. \E m \in S : \A k \in S : f[m] <= f[k]
    <2>1. PICK m \in 0 .. b : \A k \in 0 .. b : g[m] <= g[k]
        BY <1>4
    <2>2. CASE m \in S
        <3>1. \A k \in S : f[m] <= f[k]
            BY <1>2, <2>1, <2>2
        <3> QED
            BY <2>2, <3>1
    <2>3. CASE m \notin S
        <3>1. \A k \in S : f[s] <= f[k]
            BY <1>2, <2>1, <2>3
        <3> QED
            BY <1>1, <3>1
    <2> QED
        BY <2>2, <2>3
<1>6. \E m \in S : \A k \in S : f[m] >= f[k]
    <2>1. PICK m \in 0 .. b : \A k \in 0 .. b : g[m] >= g[k]
        BY <1>4
    <2>2. CASE m \in S
        <3>1. \A k \in S : f[m] >= f[k]
            BY <1>2, <2>1, <2>2
        <3> QED
            BY <2>2, <3>1
    <2>3. CASE m \notin S
        <3>1. \A k \in S : f[s] >= f[k]
            BY <1>2, <2>1, <2>3
        <3> QED
            BY <1>1, <3>1
    <2> QED
        BY <2>2, <2>3
<1> QED
    BY <1>5, <1>6

\* All candidates of a row, listed.
LEMMA AllAreFed ==
    ASSUME WindowInv, call.keep = "all", NEW i \in Left, NEW out, Fed(out, i),
           Window(i) \in SUBSET RightRows(call)
    PROVE  Fed(out \o [n \in DOMAIN Ascending(Candidates(i)) |->
                            Put(i, Ascending(Candidates(i))[n])], i + 1)
<1> DEFINE f == Ascending(Candidates(i))
           t == out \o [n \in DOMAIN f |-> Put(i, f[n])]
<1>1. Candidates(i) \in SUBSET Int /\ IsFiniteSet(Candidates(i))
    <2>1. Candidates(i) \in SUBSET RightRows(call)
        BY DEF Candidates
    <2> QED
        BY <2>1, RightIsFinite
<1>2. /\ Cardinality(Candidates(i)) \in Nat
      /\ f \in Seq(Int) /\ DOMAIN f = 1 .. Cardinality(Candidates(i))
      /\ \A n \in DOMAIN f : f[n] \in Candidates(i)
      /\ \A j \in Candidates(i) : \E n \in DOMAIN f : f[n] = j
    <2>1. /\ Cardinality(Candidates(i)) \in Nat /\ f \in Seq(Int)
          /\ Len(f) = Cardinality(Candidates(i))
          /\ \A n \in 1 .. Cardinality(Candidates(i)) : f[n] \in Candidates(i)
          /\ \A j \in Candidates(i) : \E n \in 1 .. Cardinality(Candidates(i)) : f[n] = j
        BY <1>1, AscendingListsRows
    <2>2. DOMAIN f = 1 .. Cardinality(Candidates(i))
        BY <2>1
    <2> QED
        BY <2>1, <2>2
<1>3. \A m, n \in DOMAIN f : f[m] = f[n] => m = n
    <2> SUFFICES ASSUME NEW m \in DOMAIN f, NEW n \in DOMAIN f, f[m] = f[n] PROVE m = n
        OBVIOUS
    <2>1. m \in Int /\ n \in Int /\ f[m] \in Int /\ f[n] \in Int
        BY <1>1, <1>2
    <2>2. m < n => f[m] < f[n]
        BY <1>1, <1>2, AscendingAscends
    <2>3. n < m => f[n] < f[m]
        BY <1>1, <1>2, AscendingAscends
    <2> QED
        BY <2>1, <2>2, <2>3
<1> HIDE DEF f
<1>4. Chosen(NamesOf(Candidates(i)), i)
    BY DEF Chosen, Join!Permitted
<1>5. /\ \A n \in DOMAIN f : Named(f[n]) \in NamesOf(Candidates(i))
      /\ \A x \in NamesOf(Candidates(i)) : \E n \in DOMAIN f : x = Named(f[n])
    BY <1>2 DEF NamesOf
<1> DEFINE g == [n \in DOMAIN f |-> Put(i, f[n])]
<1>6. \A n \in DOMAIN f : Put(i, f[n]) \in Int \X Int
    BY <1>2, PutShows DEF Candidates
<1>7. /\ g \in Seq(Int \X Int) /\ Len(g) = Len(f)
      /\ \A n \in DOMAIN f : g[n] = Put(i, f[n])
    <2>1. g \in [1 .. Len(f) -> Int \X Int] /\ DOMAIN f = 1 .. Len(f) /\ Len(f) \in Nat
        BY <1>2, <1>6
    <2> QED
        BY <2>1
<1> HIDE DEF g
<1>8. Fed(out \o g, i + 1)
    BY <1>2, <1>3, <1>4, <1>5, <1>7, RowIsFed
<1> QED
    BY <1>8 DEF f, g

\* One of them.
LEMMA OneIsFed ==
    ASSUME WindowInv, NEW i \in Left, NEW out, Fed(out, i), Window(i) \in SUBSET RightRows(call),
           NEW j \in Candidates(i), Chosen({Named(j)}, i)
    PROVE  Fed(Append(out, Put(i, j)), i + 1)
<1> DEFINE f == <<j>>
           g == <<Put(i, j)>>
           A == {Named(j)}
<1>1. j \in RightRows(call) /\ j \in Int
    BY CallBasics DEF Candidates
<1>2. f \in Seq(Int) /\ DOMAIN f = {1} /\ f[1] = j
    BY <1>1
<1>3. Put(i, j) \in Int \X Int /\ out \in Seq(Int \X Int)
    BY <1>1, PutShows DEF Fed
<1>4. /\ g \in Seq(Int \X Int) /\ Len(g) = Len(f) /\ \A n \in DOMAIN f : g[n] = Put(i, f[n])
      /\ Append(out, Put(i, j)) = out \o g
    BY <1>3
<1>5. /\ \A n \in DOMAIN f : f[n] \in Candidates(i)
      /\ \A m, n \in DOMAIN f : f[m] = f[n] => m = n
      /\ \A n \in DOMAIN f : Named(f[n]) \in A
      /\ \A x \in A : \E n \in DOMAIN f : x = Named(f[n])
      /\ Chosen(A, i)
    BY <1>2
<1> HIDE DEF f, g, A
<1>6. Fed(out \o g, i + 1)
    BY <1>2, <1>4, <1>5, RowIsFed
<1> QED
    BY <1>4, <1>6

\* None, where there is none.
LEMMA NoneIsFed ==
    ASSUME WindowInv, NEW i \in Left, NEW out, Fed(out, i), Window(i) \in SUBSET RightRows(call),
           Candidates(i) = {}
    PROVE  Fed(out, i + 1)
<1>1. i \in Int /\ \A k \in Left : k \in Int
    BY CallBasics
<1>2. Partners(out, i) = {}
    <2> SUFFICES ASSUME NEW n \in DOMAIN out, Shown(out[n])[1] = i PROVE FALSE
        BY DEF Partners
    <2>1. PICK k \in Left : \E j \in Candidates(k) : k < i /\ out[n] = Put(k, j)
        BY DEF Fed
    <2>2. PICK j \in Candidates(k) : k < i /\ out[n] = Put(k, j)
        BY <2>1
    <2>3. j \in RightRows(call)
        BY <2>2 DEF Fed, Candidates
    <2>4. Shown(out[n])[1] = k
        BY <2>2, <2>3, PutShows
    <2> QED
        BY <1>1, <2>2, <2>4
<1>3. Chosen(Partners(out, i), i)
    BY <1>2 DEF Chosen, NamesOf, Join!Permitted
<1>4. \A k \in Left : k < i + 1 <=> k < i \/ k = i
    BY <1>1
<1>5. \A k \in Left : k < i => k < i + 1
    BY <1>1
<1> QED
    BY <1>3, <1>4, <1>5 DEF Fed

\* What select takes, by the end of the window, by its ends or by its labels.
LEMMA SelectedIsChosen ==
    ASSUME WindowInv, ExactInv, pc = "select", NEW i \in Left, Window(i) \in SUBSET RightRows(call)
    PROVE  /\ Selected(i) \in SUBSET Candidates(i)
           /\ Selected(i) = {} => Candidates(i) = {}
           /\ \A j \in Selected(i) : Chosen({Named(j)}, i)
<1> DEFINE M == Candidates(i)
           last == RightLen - 1
<1>1. /\ call \in Calls /\ call.keep \in {"any", "first", "last"} /\ ~Aggregating
      /\ call.right_index \in [RightRows(call) -> Int]
    BY CallBasics, CallShape DEF ExactInv, Keeps, Aggregating
<1>2. M \in SUBSET RightRows(call) /\ M \in SUBSET (0 .. last) /\ last \in Int
    BY CallBasics DEF Candidates, Right
<1>3. \A j \in M : Named(j) = call.right_index[j] /\ Named(j) \in Int /\ j \in Int /\ j \in Right
    BY <1>1, <1>2, CallBasics DEF Named
<1>4. M # {} =>
        /\ \E m \in M : \A k \in M : call.right_index[m] <= call.right_index[k]
        /\ \E m \in M : \A k \in M : call.right_index[m] >= call.right_index[k]
    <2> HIDE DEF M, last
    <2> DEFINE f == call.right_index
    <2>1. \A k \in M : f[k] \in Int
        BY <1>3
    <2> HIDE DEF f
    <2> SUFFICES M # {} =>
        /\ \E m \in M : \A k \in M : f[m] <= f[k]
        /\ \E m \in M : \A k \in M : f[m] >= f[k]
        BY DEF f
    <2> QED
        BY <1>2, <2>1, RowExtremes
<1>5. M # {} =>
        /\ \E m \in M : \A k \in M : m <= k
        /\ \E m \in M : \A k \in M : m >= k
    <2> HIDE DEF M, last
    <2> DEFINE f == [k \in M |-> k]
    <2>1. \A k \in M : f[k] \in Int /\ f[k] = k
        BY <1>3
    <2> HIDE DEF f
    <2>2. M # {} =>
        /\ \E m \in M : \A k \in M : f[m] <= f[k]
        /\ \E m \in M : \A k \in M : f[m] >= f[k]
        BY <1>2, <2>1, RowExtremes
    <2> QED
        BY <2>1, <2>2
<1>6. M # {} => /\ Min(M) \in M /\ \A k \in M : Min(M) <= k
                /\ Max(M) \in M /\ \A k \in M : Max(M) >= k
    <2> HIDE DEF M
    <2> QED
        BY <1>5, MinIsMember, MaxIsMember
<1>7. ASSUME NEW j \in M,
             call.keep = "first" => \A k \in M : call.right_index[j] <= call.right_index[k],
             call.keep = "last" => \A k \in M : call.right_index[j] >= call.right_index[k]
      PROVE  Chosen({Named(j)}, i)
    <2> HIDE DEF last
    <2>1. /\ {Named(j)} \in SUBSET NamesOf(M) /\ NamesOf(M) # {} /\ {Named(j)} # {}
          /\ call.keep = "first" => \A y \in NamesOf(M) : Named(j) <= y
          /\ call.keep = "last" => \A y \in NamesOf(M) : Named(j) >= y
        BY <1>3, <1>7 DEF NamesOf
    <2> QED
        BY <1>1, <2>1 DEF Chosen, Join!Permitted
<1>8. ASSUME call.ordered PROVE \A j, k \in M : j <= k => call.right_index[j] <= call.right_index[k]
    BY <1>1, <1>3, <1>8, CallShape
<1> HIDE DEF last
<1>9. CASE Tried(i) # {}
    <2>1. Selected(i) = Tried(i) /\ Tried(i) \in SUBSET M /\ call.keep = "any"
        BY <1>9 DEF Selected, Tried
    <2>2. call.keep # "first" /\ call.keep # "last"
        BY <2>1
    <2>3. \A j \in Selected(i) : Chosen({Named(j)}, i)
        BY <1>7, <2>1, <2>2
    <2> QED
        BY <1>9, <2>1, <2>3
<1>10. CASE Tried(i) = {} /\ (call.keep = "any" \/ (call.ordered /\ call.keep = "first"))
    <2>1. Selected(i) = {j \in M : j = Min(M)}
        BY <1>10 DEF Selected
    <2> HIDE DEF M
    <2>2. Selected(i) = {} => M = {}
        BY <1>6, <2>1
    <2>3. ASSUME NEW j \in Selected(i) PROVE Chosen({Named(j)}, i)
        <3>1. j \in M /\ \A k \in M : j <= k
            BY <1>6, <2>1
        <3>2. call.keep = "first" => \A k \in M : call.right_index[j] <= call.right_index[k]
            BY <1>8, <1>10, <3>1
        <3>3. call.keep # "last"
            BY <1>10
        <3> QED
            BY <1>7, <3>1, <3>2, <3>3
    <2> QED
        BY <2>1, <2>2, <2>3 DEF M
<1>11. CASE Tried(i) = {} /\ ~(call.keep = "any" \/ (call.ordered /\ call.keep = "first")) /\ call.ordered
    <2>1. Selected(i) = {j \in M : j = Max(M)} /\ call.keep = "last"
        BY <1>1, <1>11 DEF Selected
    <2> HIDE DEF M
    <2>2. Selected(i) = {} => M = {}
        BY <1>6, <2>1
    <2>3. ASSUME NEW j \in Selected(i) PROVE Chosen({Named(j)}, i)
        <3>1. j \in M /\ \A k \in M : j >= k
            BY <1>6, <2>1
        <3>2. \A k \in M : call.right_index[j] >= call.right_index[k]
            BY <1>3, <1>8, <1>11, <3>1
        <3>3. call.keep # "first"
            BY <2>1
        <3> QED
            BY <1>7, <3>1, <3>2, <3>3
    <2> QED
        BY <2>1, <2>2, <2>3 DEF M
<1>12. CASE Tried(i) = {} /\ ~(call.keep = "any" \/ (call.ordered /\ call.keep = "first")) /\ ~call.ordered
    <2>1. /\ Selected(i) = Best(M) /\ call.keep \in {"first", "last"}
          /\ Best(M) = { j \in M : \A k \in M :
                IF call.keep = "first" THEN call.right_index[j] <= call.right_index[k]
                ELSE call.right_index[j] >= call.right_index[k] }
        BY <1>1, <1>12 DEF Selected, Best
    <2> HIDE DEF M
    <2>2. Selected(i) = {} => M = {}
        BY <1>4, <2>1
    <2>3. ASSUME NEW j \in Selected(i) PROVE Chosen({Named(j)}, i)
        BY <1>7, <2>1
    <2> QED
        BY <2>1, <2>2, <2>3 DEF M
<1> QED
    BY <1>9, <1>10, <1>11, <1>12

-----------------------------------------------------------------------------
\* The windows handed over at once.

\* FlattenSeq appends part after part.
LEMMA FlatSteps ==
    ASSUME NEW N \in Nat, NEW T, NEW parts \in [1 .. N -> Seq(T)]
    PROVE  \E F : /\ F[0] = <<>>
                  /\ \A k \in 1 .. N : F[k] = F[k - 1] \o parts[k]
                  /\ FlattenSeq(parts) = F[N]
<1>1. parts \in Seq(Seq(T)) /\ Len(parts) = N /\ \A k \in 1 .. N : parts[k] \in Seq(T)
    OBVIOUS
<1>2. CASE N = 0
    <2> DEFINE F == [k \in {0} |-> <<>>]
    <2>1. FlattenSeq(parts) = parts /\ parts = <<>>
        BY <1>1, <1>2 DEF FlattenSeq
    <2>2. F[0] = <<>> /\ 1 .. N = {}
        BY <1>2
    <2> HIDE DEF F
    <2> QED
        BY <1>2, <2>1, <2>2
<1>3. CASE N # 0
    <2> DEFINE Rec(g, k) == g = [i \in 1 .. k |-> IF i = 1 THEN parts[i] ELSE g[i - 1] \o parts[i]]
               known(k) == \E g : Rec(g, k)
               unknown == {k \in Nat : 1 <= k /\ k <= N /\ ~known(k)}
    <2>1. known(1)
        <3> DEFINE g == [i \in 1 .. 1 |-> parts[i]]
        <3>1. g = [i \in 1 .. 1 |-> IF i = 1 THEN parts[i] ELSE g[i - 1] \o parts[i]]
            OBVIOUS
        <3> HIDE DEF g
        <3> QED
            BY <3>1
    <2>2. ASSUME NEW k \in Nat, 2 <= k, known(k - 1) PROVE known(k)
        <3>1. PICK g : Rec(g, k - 1)
            BY <2>2
        <3> DEFINE h == [i \in 1 .. k |-> IF i = k THEN g[k - 1] \o parts[k] ELSE g[i]]
        <3>0. k - 1 \in Nat /\ k \in 1 .. k /\ k # 1 /\ k - 1 \in 1 .. k - 1
            BY <2>2
        <3>6. ASSUME NEW i \in 1 .. k - 1 PROVE i \in 1 .. k /\ i # k
            BY <2>2
        <3>7. \A i \in 1 .. k : h[i] = IF i = k THEN g[k - 1] \o parts[k] ELSE g[i]
            OBVIOUS
        <3> HIDE DEF h
        <3>2. /\ \A i \in 1 .. k - 1 : h[i] = g[i]
              /\ h[k] = g[k - 1] \o parts[k]
            BY <3>0, <3>6, <3>7
        <3> USE DEF h
        <3>3. \A i \in 1 .. k - 1 : g[i] = IF i = 1 THEN parts[i] ELSE g[i - 1] \o parts[i]
            BY <3>1
        <3>4. ASSUME NEW i \in 1 .. k
              PROVE  h[i] = IF i = 1 THEN parts[i] ELSE h[i - 1] \o parts[i]
            <4> HIDE DEF h
            <4>1. CASE i = k
                <5>1. h[k - 1] = g[k - 1]
                    BY <3>0, <3>2
                <5>2. i # 1 /\ h[i - 1] = g[k - 1] /\ h[i] = g[k - 1] \o parts[i]
                    BY <3>0, <3>2, <4>1, <5>1
                <5> QED
                    BY <5>2
            <4>2. CASE i # k
                <5>1. i \in 1 .. k - 1 /\ (i # 1 => i - 1 \in 1 .. k - 1)
                    BY <2>2, <4>2
                <5> QED
                    BY <3>2, <3>3, <5>1
            <4> QED
                BY <4>1, <4>2
        <3>5. h = [i \in 1 .. k |-> IF i = 1 THEN parts[i] ELSE h[i - 1] \o parts[i]]
            <4>1. h = [i \in 1 .. k |-> h[i]]
                OBVIOUS
            <4> HIDE DEF h
            <4> QED
                BY <3>4, <4>1
        <3> HIDE DEF h
        <3> QED
            BY <3>5
    <2> HIDE DEF known
    <2>3. unknown = {}
        <3> SUFFICES ASSUME unknown # {} PROVE FALSE
            OBVIOUS
        <3>1. PICK k \in unknown : \A m \in unknown : k <= m
            BY LeastNatural
        <3>2. k \in Nat /\ 1 <= k /\ k <= N /\ ~known(k) /\ k # 1
            BY <2>1, <3>1
        <3>3. k - 1 \in Nat /\ 1 <= k - 1 /\ k - 1 <= N /\ 2 <= k /\ ~(k <= k - 1)
            BY <3>2
        <3>4. known(k - 1)
            BY <3>1, <3>3
        <3> QED
            BY <2>2, <3>2, <3>3, <3>4
    <2>4. known(N)
        <3>1. N \in Nat /\ 1 <= N /\ N <= N
            BY <1>3
        <3>2. N \in unknown <=> ~known(N)
            BY <3>1
        <3> HIDE DEF unknown
        <3> QED
            BY <2>3, <3>2
    <2> DEFINE flat == CHOOSE g :
            g = [i \in 1 .. Len(parts) |-> IF i = 1 THEN parts[i] ELSE g[i - 1] \o parts[i]]
    <2>5. flat = [i \in 1 .. Len(parts) |-> IF i = 1 THEN parts[i] ELSE flat[i - 1] \o parts[i]]
        BY <1>1, <2>4, Zenon DEF known
    <2>6. FlattenSeq(parts) = flat[Len(parts)]
        BY <1>1, <1>3 DEF FlattenSeq
    <2> HIDE DEF flat
    <2>7. \A k \in 1 .. N : flat[k] = IF k = 1 THEN parts[k] ELSE flat[k - 1] \o parts[k]
        BY <1>1, <2>5
    <2> DEFINE F == [k \in 0 .. N |-> IF k = 0 THEN <<>> ELSE flat[k]]
    <2>8. F[0] = <<>> /\ \A k \in 1 .. N : F[k] = flat[k]
        OBVIOUS
    <2>9. 1 \in 1 .. N /\ N \in 1 .. N
        BY <1>3
    <2> HIDE DEF F
    <2>10. ASSUME NEW k \in 1 .. N PROVE F[k] = F[k - 1] \o parts[k]
        <3>1. CASE k = 1
            <4>1. F[k - 1] = <<>> /\ parts[k] \in Seq(T) /\ F[k] = parts[k]
                BY <1>1, <2>7, <2>8, <3>1
            <4> QED
                BY <4>1
        <3>2. CASE k # 1
            <4>1. k - 1 \in 1 .. N
                BY <3>2
            <4> QED
                BY <2>7, <2>8, <3>2, <4>1
        <3> QED
            BY <3>1, <3>2
    <2>11. FlattenSeq(parts) = F[N]
        BY <1>1, <2>6, <2>8, <2>9
    <2> QED
        BY <2>8, <2>10, <2>11
<1> QED
    BY <1>2, <1>3

\* The contributions of all rows, one after the other, answer all of them.
LEMMA WholeIsFed ==
    ASSUME WindowInv, call.keep = "all", Aggregating,
           \A i \in Left : Window(i) \in SUBSET RightRows(call)
    PROVE  Fed(FlattenSeq([i \in 1 .. LeftLen |-> Contributions(i - 1)]), LeftLen)
<1> DEFINE parts == [i \in 1 .. LeftLen |-> Contributions(i - 1)]
           f(i) == Ascending(Candidates(i))
<1>0. LeftLen \in Nat /\ \A k \in 1 .. LeftLen : k - 1 \in Left /\ (k - 1) + 1 = k
    BY CallBasics DEF Left
<1>1. \A i : Contributions(i) = [n \in DOMAIN f(i) |-> Put(i, f(i)[n])]
    BY DEF Contributions, Put
<1>2. ASSUME NEW i \in Left PROVE Contributions(i) \in Seq(Int \X Int)
    <2>1. Candidates(i) \in SUBSET RightRows(call)
        BY DEF Candidates
    <2>2. Candidates(i) \in SUBSET Int /\ IsFiniteSet(Candidates(i))
        BY <2>1, RightIsFinite
    <2>3. /\ Cardinality(Candidates(i)) \in Nat /\ f(i) \in Seq(Int)
          /\ Len(f(i)) = Cardinality(Candidates(i))
          /\ \A n \in 1 .. Cardinality(Candidates(i)) : f(i)[n] \in Candidates(i)
        BY <2>2, AscendingListsRows
    <2> HIDE DEF f
    <2>4. DOMAIN f(i) = 1 .. Len(f(i)) /\ \A n \in 1 .. Len(f(i)) : Put(i, f(i)[n]) \in Int \X Int
        BY <2>1, <2>3, PutShows
    <2>5. [n \in DOMAIN f(i) |-> Put(i, f(i)[n])] \in [1 .. Len(f(i)) -> Int \X Int]
        BY <2>4
    <2>6. Len(f(i)) \in Nat /\ Contributions(i) \in [1 .. Len(f(i)) -> Int \X Int]
        BY <1>1, <2>3, <2>5
    <2> QED
        BY <2>6
<1>3. parts \in [1 .. LeftLen -> Seq(Int \X Int)] /\ \A k \in 1 .. LeftLen : parts[k] = Contributions(k - 1)
    BY <1>0, <1>2
<1> HIDE DEF f
<1>4. PICK F : /\ F[0] = <<>>
               /\ \A k \in 1 .. LeftLen : F[k] = F[k - 1] \o parts[k]
               /\ FlattenSeq(parts) = F[LeftLen]
    <2> HIDE DEF parts
    <2> QED
        BY <1>0, <1>3, FlatSteps
<1> HIDE DEF parts
<1>5. ASSUME NEW k \in 1 .. LeftLen, Fed(F[k - 1], k - 1) PROVE Fed(F[k], k)
    <2>1. F[k] = F[k - 1] \o Contributions(k - 1)
        BY <1>3, <1>4
    <2>2. k - 1 \in Left /\ (k - 1) + 1 = k
        BY <1>0
    <2>3. Fed(F[k - 1] \o [n \in DOMAIN f(k - 1) |-> Put(k - 1, f(k - 1)[n])], (k - 1) + 1)
        BY <1>5, <2>2, AllAreFed DEF f
    <2> QED
        BY <1>1, <2>1, <2>2, <2>3
<1> DEFINE unfed == {k \in Nat : k <= LeftLen /\ ~Fed(F[k], k)}
<1>6. unfed = {}
    <2> SUFFICES ASSUME unfed # {} PROVE FALSE
        OBVIOUS
    <2>1. PICK k \in unfed : \A m \in unfed : k <= m
        BY LeastNatural
    <2>2. k \in Nat /\ k <= LeftLen /\ ~Fed(F[k], k) /\ k # 0
        BY <1>4, <2>1, FedNothing
    <2>3. k - 1 \in Nat /\ k - 1 <= LeftLen /\ k \in 1 .. LeftLen /\ ~(k <= k - 1)
        BY <1>0, <2>2
    <2>4. Fed(F[k - 1], k - 1)
        BY <2>1, <2>3
    <2> QED
        BY <1>5, <2>2, <2>3, <2>4
<1>7. Fed(F[LeftLen], LeftLen)
    BY <1>0, <1>6
<1> QED
    BY <1>4, <1>7 DEF parts

\* What the extremes of all windows make, where every row of a window is a candidate.
LEMMA ExtremaAreFed ==
    ASSUME WindowInv, ExactInv, SelectExtrema
    PROVE  Fed(output', LeftLen)
<1> DEFINE filled == {i \in Left : Window(i) # {}}
           size == Cardinality(filled)
           rows == Ascending(filled)
<1>1. /\ pc = "select" /\ call.entry = "range" /\ ~Aggregating /\ call.keep \in {"first", "last"}
      /\ path = "windows" /\ ~call.has_residuals /\ ~call.ordered /\ call \in Calls
    BY CallBasics, CallShape DEF SelectExtrema, UseExtrema, Aggregating
<1>2. ASSUME NEW i \in Left
      PROVE  /\ Window(i) \in SUBSET RightRows(call) /\ Candidates(i) = Window(i)
             /\ Selected(i) = Best(Window(i))
    <2>1. Window(i) \in SUBSET RightRows(call)
        BY <1>1, WindowInRight DEF Refused, Passing
    <2>2. \A j \in Window(i) : Passes(i, j)
        BY <1>1, <2>1, CallBasics, CallShape DEF Passes
    <2>3. Candidates(i) = Window(i)
        BY <2>2 DEF Candidates
    <2>4. Tried(i) = {}
        BY <1>1 DEF Tried
    <2> QED
        BY <1>1, <2>1, <2>3, <2>4 DEF Selected
<1>3. filled \in SUBSET Int /\ IsFiniteSet(filled) /\ filled \in SUBSET Left
    <2>1. IsFiniteSet(Left) /\ Left \in SUBSET Int
        <3> DEFINE last == LeftLen - 1
        <3>1. last \in Int /\ Left = 0 .. last
            BY EquiAssumption DEF Left
        <3> HIDE DEF last
        <3> QED
            BY <3>1, FS_Interval
    <2>2. filled \in SUBSET Left
        OBVIOUS
    <2> HIDE DEF filled
    <2> QED
        BY <2>1, <2>2, FS_Subset
<1>4. PICK chosen \in [DOMAIN rows -> Right] :
        /\ \A n \in DOMAIN rows : chosen[n] \in Best(Window(rows[n]))
        /\ output' = [n \in DOMAIN rows |-> <<rows[n], chosen[n]>>]
    BY DEF SelectExtrema
<1>5. \A i \in Left : i \notin filled => Window(i) = {}
    OBVIOUS
<1> HIDE DEF filled
<1>6. /\ size \in Nat /\ rows \in Seq(Int) /\ Len(rows) = size
      /\ \A n \in 1 .. size : rows[n] \in filled
      /\ \A i \in filled : \E n \in 1 .. size : rows[n] = i
    BY <1>3, AscendingListsRows
<1>7. \A m, n \in 1 .. size : m < n => rows[m] < rows[n]
    BY <1>3, AscendingAscends
<1> HIDE DEF rows, size
<1>8. DOMAIN rows = 1 .. size
    BY <1>6
<1>9. ASSUME NEW m \in 1 .. size, NEW n \in 1 .. size, rows[m] = rows[n] PROVE m = n
    <2>1. rows[m] \in Int /\ rows[n] \in Int /\ ~(rows[m] < rows[n]) /\ ~(rows[n] < rows[m])
        BY <1>3, <1>6, <1>9
    <2> QED
        BY <1>7, <2>1
<1>10. ASSUME NEW n \in 1 .. size
       PROVE  /\ rows[n] \in Left /\ rows[n] \in Int /\ chosen[n] \in Int
              /\ chosen[n] \in Candidates(rows[n]) /\ chosen[n] \in RightRows(call)
              /\ Chosen({Named(chosen[n])}, rows[n])
              /\ output'[n] = Put(rows[n], chosen[n])
              /\ Shown(output'[n]) = <<rows[n], Named(chosen[n])>>
    <2>1. rows[n] \in Left /\ rows[n] \in Int /\ chosen[n] \in Best(Window(rows[n]))
        BY <1>3, <1>4, <1>6, <1>8
    <2>2. chosen[n] \in Selected(rows[n]) /\ Window(rows[n]) \in SUBSET RightRows(call)
        BY <1>2, <2>1
    <2>3. chosen[n] \in Candidates(rows[n]) /\ Chosen({Named(chosen[n])}, rows[n])
        BY <1>1, <2>1, <2>2, SelectedIsChosen
    <2>4. chosen[n] \in RightRows(call)
        BY <2>2, <2>3 DEF Candidates
    <2>5. output'[n] = Put(rows[n], chosen[n])
        BY <1>1, <1>4, <1>8 DEF Put
    <2>6. chosen[n] \in Int
        BY <2>4, CallBasics
    <2> QED
        BY <2>1, <2>3, <2>4, <2>5, <2>6, PutShows
<1>11. \A n \in 1 .. size : /\ Shown(output'[n])[1] = rows[n]
                             /\ Shown(output'[n])[2] = Named(chosen[n])
    <2> TAKE n \in 1 .. size
    <2>1. Shown(output'[n]) = <<rows[n], Named(chosen[n])>>
        BY <1>10
    <2> QED
        BY <2>1
<1>12. DOMAIN output' = 1 .. size /\ output' \in Seq(Int \X Int)
    <2>1. output' = [n \in 1 .. size |-> <<rows[n], chosen[n]>>]
        BY <1>4, <1>8
    <2>2. output' \in [1 .. size -> Int \X Int]
        BY <1>10, <2>1
    <2> QED
        BY <1>6, <2>1, <2>2
<1>13. \A i \in Left : i < LeftLen
    BY EquiAssumption DEF Left
<1>14. ASSUME NEW i \in Left PROVE Chosen(Partners(output', i), i)
    <2>1. CASE i \in filled
        <3>1. PICK n \in 1 .. size : rows[n] = i
            BY <1>6, <2>1
        <3>2. \A m \in 1 .. size : Shown(output'[m])[1] = i <=> m = n
            BY <1>9, <1>11, <3>1
        <3>3. Partners(output', i) = {Named(chosen[n])}
            BY <1>12, <1>11, <3>2 DEF Partners
        <3> QED
            BY <1>10, <3>1, <3>3
    <2>2. CASE i \notin filled
        <3>1. Candidates(i) = {}
            BY <1>2, <1>5, <2>2
        <3>2. \A m \in 1 .. size : Shown(output'[m])[1] # i
            BY <1>6, <1>11, <2>2
        <3>3. Partners(output', i) = {}
            BY <1>12, <3>2 DEF Partners
        <3> QED
            BY <3>1, <3>3 DEF Chosen, NamesOf, Join!Permitted
    <2> QED
        BY <2>1, <2>2
<1>15. Distinct(output')
    <2>1. \A m, n \in 1 .. size : Shown(output'[m]) = Shown(output'[n]) => rows[m] = rows[n]
        <3> TAKE m, n \in 1 .. size
        <3>1. Shown(output'[m])[1] = rows[m] /\ Shown(output'[n])[1] = rows[n]
            BY <1>11
        <3> QED
            BY <3>1
    <2> QED
        BY <1>9, <1>12, <2>1 DEF Distinct
<1>16. \A n \in DOMAIN output' : \E i \in Left : \E j \in Candidates(i) :
            i < LeftLen /\ output'[n] = Put(i, j)
    BY <1>10, <1>12, <1>13
<1> QED
    BY <1>2, <1>12, <1>14, <1>15, <1>16 DEF Fed

\* A call without candidates has nothing to put out.
LEMMA NothingIsFed ==
    ASSUME \A i \in Left : Window(i) \in SUBSET RightRows(call) /\ Candidates(i) = {}
    PROVE  Fed(<<>>, LeftLen)
<1>1. \A i : Partners(<<>>, i) = {}
    BY DEF Partners
<1>2. \A i \in Left : Chosen({}, i)
    BY DEF Chosen, NamesOf, Join!Permitted
<1> QED
    BY <1>1, <1>2 DEF Fed, Distinct

-----------------------------------------------------------------------------
\* What has been put out at every step.

GivenInv ==
    /\ pc \in {"enter", "validate"} => row = 0
    /\ pc \in Narrowing \union {"enter", "validate"} => count = 0
    /\ pc \in Narrowing \union {"enter", "validate", "count", "none"} => output = <<>>
    /\ pc = "count" => count \in Nat /\ (count = 0 => \A i \in Left : i < row => Candidates(i) = {})
    /\ pc \in {"emit", "select", "feed"} => Fed(output, row)
    /\ pc = "done" => output \in Seq(Int \X Int) /\ Distinct(output) /\ OneSlot(output)

LEMMA GivenInit == Init => GivenInv
<1> QED
    BY DEF Init, GivenInv, Narrowing

\* A row of a pass that puts out pairs.
LEMMA RowIsAdded ==
    ASSUME WindowInv, ExactInv, GivenInv, EmitRow \/ SelectRow \/ FeedRow
    PROVE  Fed(output', row')
<1>1. /\ row < LeftLen /\ row' = row + 1 /\ pc \in {"emit", "select", "feed"}
      /\ pc = "select" => ~Refused(row)
    BY DEF EmitRow, SelectRow, FeedRow
<1>2. row \in Left /\ Fed(output, row)
    BY <1>1, CallBasics DEF WindowInv, Left, GivenInv
<1>3. Window(row) \in SUBSET RightRows(call)
    <2>1. ~Refused(row)
        BY <1>1, <1>2 DEF ExactInv
    <2> QED
        BY <1>1, <1>2, <2>1, WindowInRight DEF Passing
<1>4. CASE EmitRow
    <2>1. pc = "emit" /\ call.keep = "all" /\ ~Aggregating
        BY <1>4 DEF EmitRow, ExactInv, Aggregating
    <2>2. output' = output \o [n \in DOMAIN Ascending(Candidates(row)) |->
                                <<row, Ascending(Candidates(row))[n]>>]
        BY <1>4 DEF EmitRow
    <2>3. \A j : Put(row, j) = <<row, j>>
        BY <2>1 DEF Put
    <2>4. Fed(output \o [n \in DOMAIN Ascending(Candidates(row)) |->
                            Put(row, Ascending(Candidates(row))[n])], row + 1)
        BY <1>2, <1>3, <2>1, AllAreFed
    <2> QED
        BY <1>1, <2>2, <2>3, <2>4
<1>5. CASE SelectRow
    <2>1. /\ pc = "select" /\ ~Aggregating
          /\ \/ Selected(row) = {} /\ output' = output
             \/ \E j \in Selected(row) : output' = Append(output, <<row, j>>)
        BY <1>5 DEF SelectRow, ExactInv, Aggregating
    <2>2. /\ Selected(row) \in SUBSET Candidates(row)
          /\ Selected(row) = {} => Candidates(row) = {}
          /\ \A j \in Selected(row) : Chosen({Named(j)}, row)
        BY <1>2, <1>3, <2>1, SelectedIsChosen
    <2>3. CASE Selected(row) = {} /\ output' = output
        BY <1>1, <1>2, <1>3, <2>2, <2>3, NoneIsFed
    <2>4. CASE \E j \in Selected(row) : output' = Append(output, <<row, j>>)
        <3>1. PICK j \in Selected(row) : output' = Append(output, <<row, j>>)
            BY <2>4
        <3>2. j \in Candidates(row) /\ Chosen({Named(j)}, row) /\ Put(row, j) = <<row, j>>
            BY <2>1, <2>2 DEF Put
        <3>3. Fed(Append(output, Put(row, j)), row + 1)
            BY <1>2, <1>3, <3>2, OneIsFed
        <3> QED
            BY <1>1, <3>1, <3>2, <3>3
    <2> QED
        BY <2>1, <2>3, <2>4
<1>6. CASE FeedRow
    <2>1. pc = "feed" /\ Aggregating /\ call.keep = "all"
        BY <1>6, CallBasics, CallShape DEF FeedRow, ExactInv, Aggregating
    <2>2. output' = output \o [n \in DOMAIN Ascending(Candidates(row)) |->
                                Contribution(row, Ascending(Candidates(row))[n])]
        BY <1>6 DEF FeedRow, Contributions
    <2>3. \A j : Put(row, j) = Contribution(row, j)
        BY <2>1 DEF Put
    <2>4. Fed(output \o [n \in DOMAIN Ascending(Candidates(row)) |->
                            Put(row, Ascending(Candidates(row))[n])], row + 1)
        BY <1>2, <1>3, <2>1, AllAreFed
    <2> QED
        BY <1>1, <2>2, <2>3, <2>4
<1> QED
    BY <1>4, <1>5, <1>6

\* A pass that comes to its end has answered every row.
LEMMA EndIsFed ==
    ASSUME WindowInv, ExactInv, GivenInv,
           (EndCount /\ pc' = "none") \/ EndEmit \/ SelectExtrema \/ EndSelect \/ HandOver \/ EndFeed
    PROVE  /\ pc \in Passing /\ \A i \in Left : ~Refused(i)
           /\ pc = "select" => \A i \in Left : ~NoExtreme(i)
           /\ Fed(output', LeftLen)
<1>1. \A i \in Left : i < LeftLen /\ i \in Int
    BY EquiAssumption DEF Left
<1>2. pc \in Passing /\ (pc \in {"count", "emit"} => row = LeftLen)
    BY DEF EndCount, EndEmit, SelectExtrema, EndSelect, HandOver, EndFeed, Passing
<1>3. pc = "select" => row = LeftLen \/ call.entry = "range"
    BY DEF EndCount, EndEmit, SelectExtrema, EndSelect, HandOver, EndFeed, UseExtrema
<1>4. \A i \in Left : ~Refused(i) /\ (pc = "select" => ~NoExtreme(i))
    <2>1. CASE call.entry = "range"
        BY <2>1 DEF Refused, NoExtreme
    <2>2. CASE call.entry # "range"
        BY <1>1, <1>2, <1>3, <2>2 DEF ExactInv, Passing
    <2> QED
        BY <2>1, <2>2
<1>5. \A i \in Left : Window(i) \in SUBSET RightRows(call)
    BY <1>2, <1>4, WindowInRight
<1>6. CASE EndCount /\ pc' = "none"
    <2>1. /\ pc = "count" /\ row = LeftLen /\ count = 0 /\ output' = output /\ output = <<>>
        BY <1>6 DEF EndCount, GivenInv
    <2>2. \A i \in Left : Candidates(i) = {}
        BY <1>1, <2>1 DEF GivenInv
    <2> QED
        BY <1>2, <1>4, <1>5, <2>1, <2>2, NothingIsFed
<1>7. CASE EndEmit \/ EndSelect \/ EndFeed
    <2>1. pc \in {"emit", "select", "feed"} /\ row = LeftLen /\ output' = output
        BY <1>7 DEF EndEmit, EndSelect, EndFeed
    <2> QED
        BY <1>2, <1>4, <2>1 DEF GivenInv
<1>8. CASE SelectExtrema
    BY <1>2, <1>4, <1>8, ExtremaAreFed
<1>9. CASE HandOver
    <2>1. /\ Aggregating /\ call.keep = "all"
          /\ output' = FlattenSeq([i \in 1 .. LeftLen |-> Contributions(i - 1)])
        BY <1>9, CallBasics, CallShape DEF HandOver, ExactInv, Aggregating
    <2> QED
        BY <1>2, <1>4, <1>5, <2>1, WholeIsFed
<1> QED
    BY <1>6, <1>7, <1>8, <1>9

\* A row is counted with all its candidates.
LEMMA RowIsCounted ==
    ASSUME WindowInv, ExactInv, GivenInv, CountRow
    PROVE  /\ count' \in Nat
           /\ count' = 0 => \A i \in Left : i < row' => Candidates(i) = {}
<1>1. /\ pc = "count" /\ row < LeftLen /\ row' = row + 1 /\ ~Refused(row)
      /\ count' = count + Cardinality(Candidates(row))
    BY DEF CountRow
<1>2. row \in Left /\ row \in Int /\ \A i \in Left : i \in Int
    BY <1>1, CallBasics DEF WindowInv, Left
<1>3. Candidates(row) \in SUBSET RightRows(call)
    <2>1. Window(row) \in SUBSET RightRows(call)
        BY <1>1, <1>2, WindowInRight DEF Passing
    <2> QED
        BY <2>1 DEF Candidates
<1>4. /\ Cardinality(Candidates(row)) \in Nat
      /\ Cardinality(Candidates(row)) = 0 => Candidates(row) = {}
    <2>1. IsFiniteSet(Candidates(row))
        BY <1>3, RightIsFinite
    <2> QED
        BY <2>1, FS_CardinalityType, FS_EmptySet
<1>5. count \in Nat /\ (count = 0 => \A i \in Left : i < row => Candidates(i) = {})
    BY <1>1 DEF GivenInv
<1>6. count' \in Nat /\ (count' = 0 => count = 0 /\ Cardinality(Candidates(row)) = 0)
    BY <1>1, <1>4, <1>5
<1>7. \A i \in Left : i < row' <=> i < row \/ i = row
    BY <1>1, <1>2
<1> QED
    BY <1>4, <1>5, <1>6, <1>7

LEMMA FedAtFirst == output = <<>> /\ row = 0 => Fed(output, row)
<1> QED
    BY FedNothing

\* Nothing but the arguments is the same in every step.
LEMMA CallStays ==
    ASSUME [Next]_vars
    PROVE  call' = call
<1> QED
    BY DEF Next, EntryNext, Enter, RefuseRow, NarrowNext, Refuse, Validate,
        ApplyFirst, EndFirst, ApplySecond, EndSecond, EnvelopeRow, EndEnvelope, EndNarrow,
        Narrow, MaterializeNext, CountRow, EndCount, EmitRow, EndEmit, SelectExtrema,
        SelectRow, EndSelect, AggregateNext, HandOver, FeedRow, EndFeed

LEMMA GivenNext ==
    ASSUME WindowInv, ExactInv, GivenInv, [Next]_vars
    PROVE  GivenInv'
<1>0. call' = call /\ LeftLen \in Nat /\ \A i \in Left : i \in Int /\ 0 <= i
    BY CallStays, EquiAssumption DEF Left
<1>1. FirstPass \in {"emit", "count", "select", "feed"}
    BY DEF FirstPass
<1>2. CASE EntryNext \/ NarrowNext
    <2>1. output' = output /\ count' = count
        BY <1>2 DEF EntryNext, Enter, RefuseRow, NarrowNext, Refuse, Validate,
            ApplyFirst, EndFirst, ApplySecond, EndSecond, EnvelopeRow, EndEnvelope, EndNarrow, Narrow
    <2>2. CASE pc' = "error"
        BY <2>2 DEF GivenInv, Narrowing
    <2>3. CASE pc' # "error"
        <3>1. /\ pc \in Narrowing \union {"enter", "validate"}
              /\ \/ pc' \in Narrowing \union {"validate", "none"}
                 \/ pc' = FirstPass
              /\ pc' = "validate" => row' = row /\ pc = "enter"
              /\ pc' = FirstPass => row' = 0
            BY <1>1, <1>2, <2>3 DEF EntryNext, Enter, RefuseRow, NarrowNext, Refuse, Validate,
                ApplyFirst, EndFirst, ApplySecond, EndSecond, EnvelopeRow, EndEnvelope, EndNarrow,
                Narrow, Narrowing, GivenInv
        <3>2. output' = <<>> /\ count' = 0
            BY <2>1, <3>1 DEF GivenInv
        <3>3. CASE pc' \in Narrowing \union {"validate", "none"}
            BY <3>1, <3>2, <3>3 DEF GivenInv, Narrowing
        <3>4. CASE pc' = FirstPass
            <4>1. row' = 0 /\ pc' \in {"emit", "count", "select", "feed"} /\ count' \in Nat
                BY <1>1, <3>1, <3>2, <3>4
            <4>2. Fed(output, row)'
                <5>1. (output = <<>> /\ row = 0 => Fed(output, row))'
                    BY FedAtFirst, PTL
                <5> QED
                    BY <3>2, <4>1, <5>1
            <4>3. \A i \in Left : ~(i < row')
                BY <1>0, <4>1
            <4> QED
                BY <3>2, <4>1, <4>2, <4>3 DEF GivenInv, Narrowing
        <3> QED
            BY <3>1, <3>3, <3>4
    <2> QED
        BY <2>2, <2>3
<1>3. CASE CountRow
    <2>1. pc' = "count" /\ UNCHANGED windowVars /\ path' = path /\ output' = output /\ output = <<>>
        BY <1>3 DEF CountRow, GivenInv
    <2>2. \A i \in Left : Candidates(i)' = Candidates(i)
        BY <1>0, <2>1, CandidatesStay
    <2> QED
        BY <1>3, <2>1, <2>2, RowIsCounted DEF GivenInv, Narrowing
<1>4. CASE EmitRow \/ SelectRow \/ FeedRow
    <2>1. /\ pc' = pc /\ pc \in {"emit", "select", "feed"}
          /\ UNCHANGED windowVars /\ path' = path
        BY <1>4 DEF EmitRow, SelectRow, FeedRow
    <2>2. Fed(output, row)'
        BY <1>0, <1>4, <2>1, RowIsAdded, FedNext
    <2> QED
        BY <2>1, <2>2 DEF GivenInv, Narrowing
<1>5. CASE EndCount /\ pc' # "none"
    <2>1. pc' = "emit" /\ output' = <<>> /\ row' = 0
        BY <1>5 DEF EndCount, GivenInv
    <2>2. Fed(output, row)'
        <3>1. (output = <<>> /\ row = 0 => Fed(output, row))'
            BY FedAtFirst, PTL
        <3> QED
            BY <2>1, <3>1
    <2> QED
        BY <2>1, <2>2 DEF GivenInv, Narrowing
<1>6. CASE (EndCount /\ pc' = "none") \/ EndEmit \/ SelectExtrema \/ EndSelect \/ HandOver \/ EndFeed
    <2>1. pc' = "done" \/ (pc' = "none" /\ output' = <<>>)
        BY <1>6 DEF EndCount, EndEmit, SelectExtrema, EndSelect, HandOver, EndFeed, GivenInv
    <2>2. Fed(output', LeftLen)
        BY <1>6, EndIsFed
    <2>3. output' \in Seq(Int \X Int) /\ Distinct(output') /\ OneSlot(output')
        BY <2>2, FedIntoOneSlot DEF Fed
    <2>4. output' \in Seq(Int \X Int) /\ Distinct(output)' /\ OneSlot(output)'
        BY <1>0, <2>3, PartnersNext
    <2> QED
        BY <2>1, <2>4 DEF GivenInv, Narrowing
<1>7. CASE UNCHANGED vars
    <2>1. Fed(output, row)' = Fed(output, row)
        BY <1>0, <1>7, FedNext
    <2>2. \A i \in Left : Candidates(i)' = Candidates(i)
        BY <1>0, <1>7, CandidatesStay
    <2>3. Distinct(output)' = Distinct(output) /\ OneSlot(output)' = OneSlot(output)
        BY <1>0, <1>7, PartnersNext
    <2> QED
        BY <1>7, <2>1, <2>2, <2>3 DEF GivenInv
<1> QED
    BY <1>2, <1>3, <1>4, <1>5, <1>6, <1>7 DEF Next, MaterializeNext, AggregateNext

-----------------------------------------------------------------------------
\* The join as one answer per row.

AllInv == NarrowInv /\ ExactInv /\ GivenInv

\* What the answer of a row may be.
Permits(A, i) == A \in Join!Permitted(call.keep, NamesOf(MatchingRows(i)))

\* A call that is not valid matches nothing, and is refused with nothing.
LEMMA NothingIsPermitted ==
    ASSUME NEW i, \A j \in RightRows(call) : ~Matches(i, j)
    PROVE  Permits({}, i)
<1>1. NamesOf(MatchingRows(i)) = {}
    BY DEF NamesOf, MatchingRows
<1> QED
    BY <1>1 DEF Permits, Join!Permitted

\* Only a call that is not valid is refused.
LEMMA RefusedIsInvalid ==
    ASSUME AllInv, Next, pc' = "error"
    PROVE  ~Valid /\ pc \notin Ended
<1> USE DEF AllInv, NarrowInv
<1>0. call \in Calls
    BY CallBasics
<1>1. CASE Enter
    BY <1>1 DEF Enter, Valid, FirstPass, Ended
<1>2. CASE Refuse
    <2>1. PICK i \in Left : Active(i) /\ ~InBounds(call, i)
        BY <1>2 DEF Refuse
    <2>2. call.windowed /\ InUse(call, i) /\ pc = "validate"
        BY <1>2, <2>1 DEF Refuse, WindowInv, Narrowing
    <2> QED
        BY <2>1, <2>2 DEF Valid, Ended
<1>3. CASE RefuseRow
    <2>1. /\ row < LeftLen /\ pc \in {"count", "select"}
          /\ Refused(row) \/ (pc = "select" /\ NoExtreme(row))
        BY <1>3 DEF RefuseRow
    <2>2. row \in Left
        BY <2>1, CallBasics DEF WindowInv, Left
    <2>3. CASE Refused(row)
        <3>1. call.windowed /\ call.entry = "ne" /\ ~(InUse(call, row) /\ InBounds(call, row))
            BY <1>0, <2>3, CallShape DEF Refused
        <3> QED
            BY <2>1, <2>2, <3>1 DEF Valid, Ended
    <2>4. CASE pc = "select" /\ NoExtreme(row)
        <3>1. call.entry = "only" /\ Window(row) = {} /\ call.keep # "all" /\ call.windowed
            BY <1>0, <2>4, CallShape DEF NoExtreme, ExactInv
        <3>2. starts = call.starts /\ ends = call.ends
            BY <1>0, <3>1, CallShape DEF ExactInv
        <3>3. InUse(call, row)
            BY <2>1, <2>2, <3>1 DEF ExactInv, Accepted
        <3>4. KeyWindow(call, row) = {}
            BY <3>1, <3>2, <3>3 DEF Window, Active, InUse, KeyWindow
        <3> QED
            BY <2>1, <2>2, <3>1, <3>4 DEF Valid, Ended
    <2> QED
        BY <2>1, <2>3, <2>4
<1>4. ~(Validate \/ ApplyFirst \/ EndFirst \/ ApplySecond \/ EndSecond \/ EnvelopeRow
        \/ EndEnvelope \/ Narrow \/ EndNarrow \/ MaterializeNext \/ AggregateNext)
    BY DEF Validate, ApplyFirst, EndFirst, ApplySecond, EndSecond, EnvelopeRow, EndEnvelope,
        EndNarrow, Narrow, FirstPass, MaterializeNext, CountRow, EndCount, EmitRow, EndEmit,
        SelectExtrema, SelectRow, EndSelect, AggregateNext, HandOver, FeedRow, EndFeed
<1> QED
    BY <1>1, <1>2, <1>3, <1>4 DEF Next, EntryNext, NarrowNext

\* Only a step that ends the call answers, and it answers every row.
LEMMA EndIsPermitted ==
    ASSUME AllInv, Next, pc' \in Ended, NEW i \in Left
    PROVE  /\ pc \notin Ended
           /\ Permits(IF pc' = "error" THEN {} ELSE Partners(output', i), i)
<1> USE DEF AllInv, NarrowInv
<1>1. CASE pc' = "error"
    BY <1>1, RefusedIsInvalid, NothingIsPermitted DEF Matches
<1>2. CASE pc' # "error" /\ pc \in Narrowing
    <2>1. /\ pc' = "none" /\ NoneActive /\ output' = output
        BY <1>2 DEF Next, EntryNext, Enter, RefuseRow, NarrowNext, Refuse, Validate,
            ApplyFirst, EndFirst, ApplySecond, EndSecond, EnvelopeRow, EndEnvelope, EndNarrow,
            Narrow, EndsEarly, FirstPass, MaterializeNext, CountRow, EndCount, EmitRow, EndEmit,
            SelectExtrema, SelectRow, EndSelect, AggregateNext, HandOver, FeedRow, EndFeed,
            Narrowing, Ended
    <2>2. output' = <<>> /\ call.windowed
        BY <1>2, <2>1 DEF GivenInv, WindowInv
    <2>3. Window(i) = {}
        BY <2>1, <2>2 DEF NoneActive, Window
    <2>4. \A j \in RightRows(call) : ~Matches(i, j)
        BY <2>3 DEF NarrowingKeepsMatches
    <2>5. Partners(output', i) = {}
        BY <2>2 DEF Partners
    <2> QED
        BY <1>2, <2>4, <2>5, NothingIsPermitted DEF Narrowing, Ended
<1>3. CASE pc' # "error" /\ pc \notin Narrowing
    <2>1. (EndCount /\ pc' = "none") \/ EndEmit \/ SelectExtrema \/ EndSelect \/ HandOver \/ EndFeed
        BY <1>3 DEF Next, EntryNext, Enter, RefuseRow, NarrowNext, Refuse, Validate,
            ApplyFirst, EndFirst, ApplySecond, EndSecond, EnvelopeRow, EndEnvelope, EndNarrow,
            Narrow, FirstPass, MaterializeNext, CountRow, EndCount, EmitRow,
            SelectRow, AggregateNext, FeedRow, Narrowing, Ended
    <2>2. /\ pc \in Passing /\ \A k \in Left : ~Refused(k)
          /\ pc = "select" => \A k \in Left : ~NoExtreme(k)
          /\ Fed(output', LeftLen)
        BY <2>1, EndIsFed
    <2>3. Valid
        BY <2>2, PassedIsValid
    <2>4. Candidates(i) = MatchingRows(i)
        BY <2>2, <2>3, CandidatesMatch
    <2>5. i < LeftLen
        BY EquiAssumption DEF Left
    <2>6. Chosen(Partners(output', i), i)
        BY <2>2, <2>5 DEF Fed
    <2> QED
        BY <1>3, <2>2, <2>4, <2>6 DEF Chosen, Permits, Passing, Ended
<1> QED
    BY <1>1, <1>2, <1>3

LEMMA PairsAreShown == \A n : PairAt(n) = Shown(output[n])
<1> QED
    BY DEF PairAt, Shown

LEMMA EmittedArePartners ==
    \A i : Emitted(i) = IF pc = "error" THEN {} ELSE Partners(output, i)
<1> QED
    BY PairsAreShown DEF Emitted, Places, Partners

LEMMA EmittedNext ==
    ASSUME call' = call
    PROVE  \A i : Emitted(i)' = IF pc' = "error" THEN {} ELSE Partners(output', i)
<1>1. (\A i : Emitted(i) = IF pc = "error" THEN {} ELSE Partners(output, i))'
    BY EmittedArePartners, PTL
<1> QED
    BY <1>1, PartnersNext

LEMMA RequestStays ==
    ASSUME call' = call
    PROVE  Request' = Request
<1>1. ASSUME NEW i \in Left
      PROVE  {k \in RightRows(call) : Matches(i, k)}' = {k \in RightRows(call) : Matches(i, k)}
    BY MatchesStay DEF RightRows
<1>2. ASSUME NEW i \in Left
      PROVE  {Named(j) : j \in {k \in RightRows(call) : Matches(i, k)}}'
                = {Named(j) : j \in {k \in RightRows(call) : Matches(i, k)}}
    BY <1>1, NamesStay
<1> QED
    BY <1>2 DEF Request

LEMMA RefinesInit == Init => Join!Init
<1> SUFFICES ASSUME Init PROVE Join!Init
    OBVIOUS
<1>1. call \in Calls /\ pc = "enter"
    BY DEF Init
<1>2. /\ call.keep \in Keeps /\ RightRows(call) \in SUBSET Int
      /\ call.right_index \in [RightRows(call) -> Int]
    BY <1>1, CallShape, EquiAssumption DEF Right
<1>3. \A j \in RightRows(call) : Named(j) \in Int
    BY <1>2 DEF Named
<1>4. Request.matches \in [Left -> SUBSET Int]
    BY <1>3 DEF Request
<1>5. Request \in Requests
    BY <1>2, <1>4 DEF Request, Requests
<1>6. Answer = [i \in Left |-> None]
    BY <1>1 DEF Answer
<1> QED
    BY <1>5, <1>6 DEF Join!Init

LEMMA RefinesNext ==
    ASSUME AllInv, [Next]_vars
    PROVE  [Join!Next]_(Join!vars)
<1>0. call' = call /\ Request' = Request
    BY CallStays, RequestStays
<1>1. CASE UNCHANGED vars
    <2>1. Answer' = Answer
        <3>1. \A n : PairAt(n)' = PairAt(n)
            <4>1. \A n : PairAt(n)' = Shown(output[n])'
                <5>1. (\A n : PairAt(n) = Shown(output[n]))'
                    BY PairsAreShown, PTL
                <5> QED
                    BY <5>1
            <4>2. \A n : Shown(output[n])' = Shown(output[n])
                BY <1>0, <1>1, NamesStay
            <4> QED
                BY <4>1, <4>2, PairsAreShown
        <3>2. \A i : Places(i)' = Places(i)
            BY <1>1, <3>1 DEF Places
        <3>3. \A i : EachOnce(i)' = EachOnce(i) /\ Emitted(i)' = Emitted(i)
            BY <1>0, <1>1, <3>1, <3>2, NamesStay DEF EachOnce, Emitted
        <3> QED
            BY <1>1, <3>3 DEF Answer
    <2> QED
        BY <1>0, <2>1 DEF Join!vars
<1>2. CASE Next
    <2>1. ASSUME NEW i \in Left PROVE Answer'[i] = Answer[i] \/ Join!AnswerRow(i)
        <3>1. CASE pc' \notin Ended
            <4>1. pc \notin Ended
                BY <1>2, <3>1 DEF Next, EntryNext, Enter, RefuseRow, NarrowNext, Refuse, Validate,
                    ApplyFirst, EndFirst, ApplySecond, EndSecond, EnvelopeRow, EndEnvelope, EndNarrow,
                    Narrow, MaterializeNext, CountRow, EndCount, EmitRow, EndEmit,
                    SelectExtrema, SelectRow, EndSelect, AggregateNext, HandOver, FeedRow, EndFeed,
                    Ended
            <4> QED
                BY <3>1, <4>1 DEF Answer, Ended
        <3>2. CASE pc' \in Ended
            <4>1. /\ pc \notin Ended
                  /\ Permits(IF pc' = "error" THEN {} ELSE Partners(output', i), i)
                BY <1>2, <3>2, EndIsPermitted
            <4>2. Answer[i] = None
                BY <4>1 DEF Answer, Ended
            <4>3. Answer'[i] = None \/ Answer'[i] = Emitted(i)'
                BY DEF Answer
            <4>4. Permits(Emitted(i)', i)
                BY <1>0, <4>1, EmittedNext
            <4>5. Emitted(i)' \in Join!Permitted(Request.keep, Request.matches[i])
                BY <4>4 DEF Permits, Request, NamesOf, MatchingRows
            <4> QED
                BY <4>2, <4>3, <4>5 DEF Join!AnswerRow
        <3> QED
            BY <3>1, <3>2
    <2> QED
        BY <1>0, <2>1 DEF Join!Next
<1> QED
    BY <1>1, <1>2

LEMMA AllInvariant == Spec => []AllInv
<1>1. Init => AllInv
    BY WindowInit, KeepsInit, ExactInit, GivenInit DEF AllInv, NarrowInv, EnvelopeInv, Init
<1>2. AllInv /\ [Next]_vars => AllInv'
    <2>1. ASSUME AllInv, [Next]_vars PROVE AllInv'
        <3>1. NarrowInv' /\ ExactInv'
            BY <2>1, WindowNext, EnvelopeNext, KeepsNext, ExactNext DEF AllInv, NarrowInv, GivenInv
        <3>2. GivenInv'
            BY <2>1, GivenNext DEF AllInv, NarrowInv
        <3> QED
            BY <3>1, <3>2 DEF AllInv
    <2> QED
        BY <2>1
<1> QED
    BY <1>1, <1>2, PTL DEF Spec

\* Every equality join implements RangeJoin, for columns of any length and whatever
\* the predicates, the policy and the reader: a left row is answered once, with what
\* its policy allows of the right rows of its key that satisfy every predicate, and
\* a call that is refused had no valid answer.  An aggregation is given exactly the
\* matching pairs, in either direction.
THEOREM AnswersAsRangeJoinTheorem == Spec => Join!Safety
<1>1. Init => Join!Init
    BY RefinesInit
<1>2. AllInv /\ [Next]_vars => [Join!Next]_(Join!vars)
    BY RefinesNext
<1> QED
    BY <1>1, <1>2, AllInvariant, PTL DEF Spec, Join!Safety

-----------------------------------------------------------------------------
\* No pair twice.

\* A pair is known by what it shows first and second.
LEMMA ShownIsPair ==
    ASSUME NEW p \in Int \X Int, NEW q \in Int \X Int,
           Shown(p)[1] = Shown(q)[1], Shown(p)[2] = Shown(q)[2]
    PROVE  Shown(p) = Shown(q)
<1>1. CASE Aggregating /\ ~call.reverse
    BY <1>1 DEF Shown
<1>2. CASE ~(Aggregating /\ ~call.reverse)
    <2>1. \A r : Shown(r) = IF ~Aggregating THEN <<r[1], Named(r[2])>> ELSE <<r[2], SlotLabel(r[1])>>
        BY <1>2 DEF Shown
    <2>2. CASE ~Aggregating
        <3>1. Shown(p) = <<p[1], Named(p[2])>> /\ Shown(q) = <<q[1], Named(q[2])>>
            BY <2>1, <2>2
        <3> QED
            BY <3>1
    <2>3. CASE Aggregating
        <3>1. Shown(p) = <<p[2], SlotLabel(p[1])>> /\ Shown(q) = <<q[2], SlotLabel(q[1])>>
            BY <2>1, <2>3
        <3> QED
            BY <3>1
    <2> QED
        BY <2>2, <2>3
<1> QED
    BY <1>1, <1>2

\* The call that returns pairs has no pair twice, and gives every label one slot.
EveryPairOnce == pc = "done" => \A i \in Left : EachOnce(i)

LEMMA GivenOnce == GivenInv => EveryPairOnce
<1> SUFFICES ASSUME GivenInv, pc = "done", NEW i \in Left PROVE EachOnce(i)
    BY DEF EveryPairOnce
<1>1. output \in Seq(Int \X Int) /\ Distinct(output) /\ OneSlot(output)
    BY DEF GivenInv
<1>2. DOMAIN output = 1 .. Len(output) /\ Len(output) \in Nat
    BY <1>1
<1>3. \A n : PairAt(n) = Shown(output[n])
    BY PairsAreShown
<1> DEFINE places == Places(i)
           named == {PairAt(n)[2] : n \in Places(i)}
           naming == [n \in places |-> PairAt(n)[2]]
<1>4. places \in SUBSET (1 .. Len(output))
    BY <1>2 DEF Places
<1>5. IsFiniteSet(places)
    <2>1. IsFiniteSet(1 .. Len(output))
        BY <1>2, FS_Interval
    <2> HIDE DEF places
    <2> QED
        BY <1>4, <2>1, FS_Subset
<1>6. ASSUME NEW m \in places, NEW n \in places, PairAt(m)[2] = PairAt(n)[2] PROVE m = n
    <2>1. m \in DOMAIN output /\ n \in DOMAIN output /\ PairAt(m)[1] = i /\ PairAt(n)[1] = i
        BY DEF Places
    <2>2. output[m] \in Int \X Int /\ output[n] \in Int \X Int
        BY <1>1, <2>1
    <2>3. Shown(output[m]) = Shown(output[n])
        BY <1>3, <1>6, <2>1, <2>2, ShownIsPair
    <2> QED
        BY <1>1, <2>1, <2>3 DEF Distinct
<1>7. naming \in Bijection(places, named)
    <2>1. naming \in [places -> named] /\ \A x \in named : \E n \in places : naming[n] = x
        OBVIOUS
    <2>2. \A n \in places : naming[n] = PairAt(n)[2]
        OBVIOUS
    <2> HIDE DEF places, named, naming
    <2> QED
        BY <1>6, <2>1, <2>2 DEF Bijection, Injection, Surjection, IsInjective
<1>8. Cardinality(places) = Cardinality(named)
    <2> HIDE DEF places, named, naming
    <2> QED
        BY <1>5, <1>7, FS_Bijection DEF ExistsBijection
<1>9. ASSUME Aggregating, call.reverse, NEW m \in Places(i), NEW n \in DOMAIN output,
             PairAt(m)[2] = PairAt(n)[2]
      PROVE  output[m][1] = output[n][1]
    BY <1>1, <1>3, <1>9 DEF OneSlot, Places
<1> QED
    BY <1>8, <1>9 DEF EachOnce

\* An equality join that returns pairs has put out no pair twice, and the
\* aggregation has given all values of one right label to one slot: so that the
\* answers above are the whole of what it returns.
THEOREM EveryPairOnceTheorem == Spec => []EveryPairOnce
<1>1. AllInv => EveryPairOnce
    BY GivenOnce DEF AllInv
<1> QED
    BY <1>1, AllInvariant, PTL
=============================================================================
