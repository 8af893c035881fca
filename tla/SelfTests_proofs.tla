--------------------------- MODULE SelfTests_proofs ---------------------------
(* For words of every width and arrays of every length and contents: the   *)
(* emulation is right among the other tests too, and both sorting tests    *)
(* pass.                                                                   *)
EXTENDS SelfTests, Emulation_proofs, SequenceTheorems, FunctionTheorems,
        FiniteSetTheorems

-----------------------------------------------------------------------------
(* The tests of RV32M are those of Emulation *)

LEMMA TestsRefine ==
  /\ TestInit => Init
  /\ [TestNext]_testVars => [Next]_vars
<1>1. TestInit => Init
  BY DEF TestInit
<1>2. ASSUME [TestNext]_testVars PROVE [Next]_vars
  BY <1>2 DEF TestNext, Emulate, BubbleInner, BubbleOuter, Partition, Scan, PlacePivot,
     SortLeft, SortRight, QsortReturn, CheckSorted, SieveOuter, SieveInner, CheckSieve,
     CrcReset, CrcStart, CrcShift, CrcResult, CheckCrc, Loop, testVars
<1> QED
  BY <1>1, <1>2

LEMMA TestsSafe == TestSpec => Safe
BY TestsRefine, PTL DEF TestSpec, Safe

-----------------------------------------------------------------------------
(* Arrays *)

LEMMA IndexFacts ==
  /\ ARR_LENGTH \in Nat /\ ARR_LENGTH >= 1
  /\ \A k : k \in Index <=> k \in Int /\ 0 <= k /\ k <= ARR_LENGTH - 1
BY LengthAssumption DEF Index

ArrayOK == arr \in [Index -> Values]

\* What swap does, element by element.
LEMMA SwapFacts ==
  ASSUME ArrayOK, NEW x \in Index, NEW y \in Index, arr' = swap(x, y, arr)
  PROVE  /\ ArrayOK' /\ arr'[x] = arr[y] /\ arr'[y] = arr[x]
         /\ \A k \in Index : k # x /\ k # y => arr'[k] = arr[k]
BY DEF ArrayOK, swap

LEMMA ArrayInts == ArrayOK => \A k \in Index : arr[k] \in Int
BY ValuesAssumption DEF ArrayOK

-----------------------------------------------------------------------------
(* bubble.c *)

BubbleInv ==
  prog = "bubble.c" =>
    /\ ArrayOK
    /\ i \in 0 .. ARR_LENGTH - 1 /\ j \in Nat
    /\ i < ARR_LENGTH - 1 => j <= ARR_LENGTH - i - 1
    /\ outcome # "fail"
    /\ BubbleTail

LEMMA BubbleInit == TestInit => BubbleInv
BY IndexFacts DEF TestInit, BubbleInv, BubbleTail, ArrayOK, Sort

LEMMA BubbleStep == BubbleInv /\ [TestNext]_testVars => BubbleInv'
<1> SUFFICES ASSUME BubbleInv, [TestNext]_testVars, prog' = "bubble.c"
             PROVE  BubbleInv'
  BY DEF BubbleInv
<1>0. prog = "bubble.c"
  BY DEF TestNext, Emulate, BubbleInner, BubbleOuter, Partition, Scan, PlacePivot,
     SortLeft, SortRight, QsortReturn, CheckSorted, SieveOuter, SieveInner, CheckSieve,
     CrcReset, CrcStart, CrcShift, CrcResult, CheckCrc, Loop, testVars
<1>1. /\ ArrayOK /\ i \in Int /\ 0 <= i /\ i <= ARR_LENGTH - 1 /\ j \in Nat
      /\ (i < ARR_LENGTH - 1 => j <= ARR_LENGTH - i - 1)
      /\ outcome # "fail" /\ ARR_LENGTH \in Nat /\ ARR_LENGTH >= 1
      /\ \A k \in Index : arr[k] \in Int
      /\ \A k \in Index : k >= ARR_LENGTH - i =>
           \A m \in Index : m < k => arr[m] <= arr[k]
      /\ (i < ARR_LENGTH - 1 => \A m \in Index : m < j => arr[m] <= arr[j])
  BY <1>0, IndexFacts, ArrayInts DEF BubbleInv, BubbleTail
<1>2. CASE BubbleInner
  <2>1. i' = i /\ j' = j + 1 /\ outcome' = outcome /\ prog' = prog
        /\ i < ARR_LENGTH - 1 /\ j < ARR_LENGTH - i - 1
        /\ arr' = IF arr[j] > arr[j + 1] THEN swap(j, j + 1, arr) ELSE arr
    BY <1>2 DEF BubbleInner, BubbleLast, extension
  <2>2. j \in Index /\ j + 1 \in Index
    BY <1>1, <2>1, IndexFacts
  <2>3. /\ ArrayOK'
        /\ \A k \in Index : k # j /\ k # j + 1 => arr'[k] = arr[k]
        /\ \/ arr'[j] = arr[j + 1] /\ arr'[j + 1] = arr[j] /\ arr[j] > arr[j + 1]
           \/ arr'[j] = arr[j] /\ arr'[j + 1] = arr[j + 1] /\ arr[j] <= arr[j + 1]
    <3>1. CASE arr[j] > arr[j + 1]
      BY <1>1, <2>1, <2>2, <3>1, SwapFacts
    <3>2. CASE ~(arr[j] > arr[j + 1])
      BY <1>1, <2>1, <2>2, <3>2 DEF ArrayOK
    <3> QED
      BY <3>1, <3>2
  <2>4. ASSUME NEW k \in Index, k >= ARR_LENGTH - i, NEW m \in Index, m < k
        PROVE  arr'[m] <= arr'[k]
    <3>1. k # j /\ k # j + 1 /\ j < k /\ j + 1 < k
      BY <1>1, <2>1, <2>4, IndexFacts
    <3> QED
      BY <1>1, <2>2, <2>3, <2>4, <3>1
  <2>5. ASSUME NEW m \in Index, m < j + 1
        PROVE  arr'[m] <= arr'[j + 1]
    <3>1. m = j \/ m < j
      BY <1>1, <2>5, IndexFacts
    <3> QED
      BY <1>1, <2>1, <2>2, <2>3, <3>1, IndexFacts
  <2> QED
    BY <1>1, <2>1, <2>3, <2>4, <2>5 DEF BubbleInv, BubbleTail
<1>3. CASE BubbleOuter
  <2>1. i' = i + 1 /\ j' = 0 /\ outcome' = outcome /\ prog' = prog /\ arr' = arr
        /\ i < ARR_LENGTH - 1 /\ j = ARR_LENGTH - i - 1
    BY <1>1, <1>3 DEF BubbleOuter, BubbleLast, sorting
  <2>2. ASSUME NEW k \in Index, k >= ARR_LENGTH - i', NEW m \in Index, m < k
        PROVE  arr'[m] <= arr'[k]
    <3>1. k = j \/ k >= ARR_LENGTH - i
      BY <1>1, <2>1, <2>2, IndexFacts
    <3> QED
      BY <1>1, <2>1, <2>2, <3>1
  <2>3. \A m \in Index : ~(m < 0)
    BY IndexFacts
  <2> QED
    BY <1>1, <2>1, <2>2, <2>3 DEF BubbleInv, BubbleTail, ArrayOK
<1>4. CASE CheckSorted
  <2>1. i' = i /\ j' = j /\ arr' = arr /\ prog' = prog
        /\ outcome' = (IF InOrderArray THEN "success" ELSE "fail")
        /\ i = ARR_LENGTH - 1
    BY <1>0, <1>1, <1>4 DEF CheckSorted, SortEnds, sorting
  <2>2. InOrderArray
    <3> SUFFICES ASSUME NEW k \in 0 .. ARR_LENGTH - 2 PROVE arr[k] <= arr[k + 1]
      BY DEF InOrderArray
    <3>1. k \in Index /\ k + 1 \in Index /\ k + 1 >= ARR_LENGTH - i /\ k < k + 1
      BY <1>1, <2>1, IndexFacts
    <3> QED
      BY <1>1, <3>1
  <2> QED
    BY <1>1, <2>1, <2>2 DEF BubbleInv, BubbleTail, ArrayOK
<1>5. CASE UNCHANGED <<prog, outcome, i, j, arr>>
  BY <1>1, <1>5 DEF BubbleInv, BubbleTail, ArrayOK
<1> QED
  BY <1>0, <1>2, <1>3, <1>4, <1>5 DEF TestNext, Emulate, Partition, Scan, PlacePivot,
     SortLeft, SortRight, QsortReturn, SieveOuter, SieveInner, CheckSieve, Running,
     CrcReset, CrcStart, CrcShift, CrcResult, CheckCrc, CrcRunning, Loop, testVars, sorting

-----------------------------------------------------------------------------
(* quicksort.c *)

Pc == {"entry", "scan", "left", "right", "exit"}
Call == [lb : Int, ub : Int, q : Int, pc : Pc]
Sorted(a, lo, hi) == \A k, m \in Index : lo <= k /\ k <= m /\ m <= hi => a[k] <= a[m]

\* A call has a range of its own inside of the array, no longer than its depth
\* leaves room for, and the pivot between its ends.
Shaped(f, n) ==
  /\ 0 <= f.lb /\ f.ub <= ARR_LENGTH - 1
  /\ f.ub - f.lb <= ARR_LENGTH - n
  /\ f.pc # "entry" => f.lb < f.ub
  /\ f.pc \in {"left", "right", "exit"} => f.lb <= f.q /\ f.q <= f.ub

\* The range of g is the part that its caller f sorts at the moment.
CalledBy(g, f) ==
  \/ f.pc = "right" /\ g.lb = f.lb /\ g.ub = f.q - 1
  \/ f.pc = "exit" /\ g.lb = f.q + 1 /\ g.ub = f.ub

\* The range of g lies in that part.
Inside(g, f) ==
  \/ f.pc = "right" /\ f.lb <= g.lb /\ g.ub < f.q
  \/ f.pc = "exit" /\ f.q < g.lb /\ g.ub <= f.ub

Parted(a, f) ==
  f.pc \in {"left", "right", "exit"} =>
    /\ \A k \in Index : f.lb <= k /\ k <= f.q => a[k] <= a[f.q]
    /\ \A k \in Index : f.q < k /\ k <= f.ub => a[f.q] < a[k]

\* The left part is in order once the right one is being sorted.
LeftDone(a, f) == f.pc = "exit" => Sorted(a, f.lb, f.q - 1)

\* What the call on top has reached.
TopDone(a, small, curr, p, f) ==
  /\ f.pc = "right" => Sorted(a, f.lb, f.q - 1)
  /\ f.pc = "exit" => Sorted(a, f.q + 1, f.ub)
  /\ f.pc = "scan" =>
       /\ f.lb - 1 <= small /\ small < curr /\ curr <= f.ub
       /\ a[f.ub] = p
       /\ \A k \in Index : f.lb <= k /\ k <= small => a[k] <= p
       /\ \A k \in Index : small < k /\ k < curr => p < a[k]

\* The caller of each call, and all the calls below it.
Nested ==
  /\ \A n \in 1 .. Len(frames) : n > 1 => CalledBy(frames[n], frames[n - 1])
  /\ \A m, n \in 1 .. Len(frames) : m < n => Inside(frames[n], frames[m])

Calls ==
  /\ frames \in Seq(Call)
  /\ frames = <<>> => Sorted(arr, 0, ARR_LENGTH - 1)
  /\ frames # <<>> =>
       /\ frames[1].lb = 0 /\ frames[1].ub = ARR_LENGTH - 1
       /\ TopDone(arr, smallPtr, currPtr, pivot, frames[Len(frames)])
  /\ \A n \in 1 .. Len(frames) :
       Shaped(frames[n], n) /\ Parted(arr, frames[n]) /\ LeftDone(arr, frames[n])
  /\ Nested

Pointers == currPtr \in Int /\ smallPtr \in Int /\ pivot \in Int

QuickInv ==
  prog = "quicksort.c" => ArrayOK /\ Pointers /\ outcome # "fail" /\ Calls

\* A call that was just made has nothing to show yet.
LEMMA FrameFacts ==
  ASSUME NEW lo \in Int, NEW hi \in Int
  PROVE  /\ Frame(lo, hi) \in Call
         /\ Frame(lo, hi).lb = lo /\ Frame(lo, hi).ub = hi
         /\ Frame(lo, hi).pc = "entry"
         /\ \A a : Parted(a, Frame(lo, hi)) /\ LeftDone(a, Frame(lo, hi))
         /\ \A a, s, c, p : TopDone(a, s, c, p, Frame(lo, hi))
BY DEF Frame, Call, Pc, Parted, LeftDone, TopDone

LEMMA QuickInit == TestInit => QuickInv
<1> SUFFICES ASSUME TestInit, prog = "quicksort.c" PROVE QuickInv
  BY DEF QuickInv
<1> DEFINE f == Frame(0, ARR_LENGTH - 1)
<1>1. frames = <<f>>
  BY DEF TestInit
<1>2. /\ f \in Call /\ f.lb = 0 /\ f.ub = ARR_LENGTH - 1 /\ f.pc = "entry"
      /\ Parted(arr, f) /\ LeftDone(arr, f)
      /\ TopDone(arr, smallPtr, currPtr, pivot, f)
  BY FrameFacts, IndexFacts
<1>3. Shaped(f, 1)
  BY <1>2, IndexFacts DEF Shaped
<1> HIDE DEF f
<1>4. frames \in Seq(Call) /\ Len(frames) = 1 /\ frames[1] = f /\ frames # <<>>
  BY <1>1, <1>2
<1>5. Nested
  BY <1>4 DEF Nested
<1>6. Calls
  BY <1>2, <1>3, <1>4, <1>5 DEF Calls
<1>7. pivot \in Int
  BY ValuesAssumption DEF TestInit
<1> QED
  BY <1>6, <1>7 DEF TestInit, QuickInv, ArrayOK, Pointers

LEMMA CallFacts ==
  ASSUME NEW f \in Call
  PROVE  f.lb \in Int /\ f.ub \in Int /\ f.q \in Int /\ f.pc \in Pc
BY DEF Call

\* The call on top.
LEMMA TopFacts ==
  ASSUME Calls, frames # <<>>
  PROVE  /\ Len(frames) \in Nat /\ Len(frames) >= 1 /\ Len(frames) \in 1 .. Len(frames)
         /\ Top = frames[Len(frames)] /\ Top \in Call
         /\ Shaped(Top, Len(frames)) /\ Parted(arr, Top) /\ LeftDone(arr, Top)
         /\ TopDone(arr, smallPtr, currPtr, pivot, Top)
<1>1. frames \in Seq(Call)
  BY DEF Calls
<1>2. Len(frames) \in Nat /\ Len(frames) # 0
  BY <1>1
<1>3. Len(frames) >= 1 /\ Len(frames) \in 1 .. Len(frames)
  BY <1>2
<1>4. frames[Len(frames)] \in Call
  BY <1>1, <1>3
<1> QED
  BY <1>2, <1>3, <1>4 DEF Top, Calls

\* Exchanges within a range keep what is said of it as a whole.
LEMMA PartedKept ==
  ASSUME ArrayOK, NEW x \in Index, NEW y \in Index, arr' = swap(x, y, arr),
         NEW f \in Call, NEW g \in Call, Inside(g, f),
         g.lb <= x, x <= g.ub, g.lb <= y, y <= g.ub,
         f.lb >= 0, f.ub <= ARR_LENGTH - 1, f.lb <= f.q, f.q <= f.ub,
         Parted(arr, f), LeftDone(arr, f)
  PROVE  Parted(arr', f) /\ LeftDone(arr', f)
<1>1. /\ arr'[x] = arr[y] /\ arr'[y] = arr[x]
      /\ \A k \in Index : k # x /\ k # y => arr'[k] = arr[k]
  BY SwapFacts
<1>2. /\ f.lb \in Int /\ f.ub \in Int /\ f.q \in Int
      /\ g.lb \in Int /\ g.ub \in Int
  BY DEF Call
<1>3. f.q \in Index /\ f.q # x /\ f.q # y /\ arr'[f.q] = arr[f.q]
  BY <1>1, <1>2, IndexFacts DEF Inside
<1>4. ASSUME NEW k \in Index, f.lb <= k, k <= f.q, f.pc \in {"left", "right", "exit"}
      PROVE  arr'[k] <= arr'[f.q]
  BY <1>1, <1>2, <1>3, <1>4, IndexFacts DEF Inside, Parted
<1>5. ASSUME NEW k \in Index, f.q < k, k <= f.ub, f.pc \in {"left", "right", "exit"}
      PROVE  arr'[f.q] < arr'[k]
  BY <1>1, <1>2, <1>3, <1>5, IndexFacts DEF Inside, Parted
<1>6. LeftDone(arr', f)
  <2> SUFFICES ASSUME f.pc = "exit", NEW k \in Index, NEW m \in Index,
                      f.lb <= k, k <= m, m <= f.q - 1
               PROVE  arr'[k] <= arr'[m]
    BY DEF LeftDone, Sorted
  <2>1. k # x /\ k # y /\ m # x /\ m # y
    BY <1>2, IndexFacts DEF Inside
  <2> QED
    BY <1>1, <2>1 DEF LeftDone, Sorted
<1> QED
  BY <1>4, <1>5, <1>6 DEF Parted

\* An exchange in the range of the call on top, which moves on to another point
\* of its partition, disturbs no other call.
LEMMA ExchangeKeeps ==
  ASSUME ArrayOK, Calls, frames # <<>>, Top.pc \in {"entry", "scan"},
         NEW x \in Index, NEW y \in Index, arr' = swap(x, y, arr),
         Top.lb <= x, x <= Top.ub, Top.lb <= y, y <= Top.ub,
         NEW t \in Call, t.lb = Top.lb, t.ub = Top.ub, Shaped(t, Len(frames)),
         t.pc \in {"scan", "left"},
         Parted(arr', t), TopDone(arr', smallPtr', currPtr', pivot', t),
         frames' = [frames EXCEPT ![Len(frames)] = t]
  PROVE  Calls'
<1> DEFINE n == Len(frames)
<1>1. /\ n \in Nat /\ n >= 1 /\ n \in 1 .. n
      /\ frames \in Seq(Call) /\ Top = frames[n] /\ Top \in Call
  BY TopFacts DEF Calls
<1>2. /\ frames' \in Seq(Call) /\ Len(frames') = n /\ frames' # <<>>
      /\ frames'[n] = t
      /\ \A m \in 1 .. n : m # n => frames'[m] = frames[m]
  BY <1>1
<1> HIDE DEF n
<1>3. LeftDone(arr', t)
  BY DEF LeftDone
<1>4. ASSUME NEW m \in 1 .. n, m # n
      PROVE  Parted(arr', frames'[m]) /\ LeftDone(arr', frames'[m])
  <2>1. m < n
    BY <1>1, <1>4
  <2>a. frames[m] \in Call
    BY <1>1 DEF n
  <2>2. Inside(Top, frames[m]) /\ Shaped(frames[m], m)
        /\ Parted(arr, frames[m]) /\ LeftDone(arr, frames[m])
    BY <1>1, <2>1 DEF Calls, Nested, n
  <2>3. frames[m].lb >= 0 /\ frames[m].ub <= ARR_LENGTH - 1
        /\ frames[m].lb <= frames[m].q /\ frames[m].q <= frames[m].ub
    BY <2>a, <2>2, CallFacts, IndexFacts DEF Inside, Shaped
  <2>4. Parted(arr', frames[m]) /\ LeftDone(arr', frames[m])
    BY <1>1, <2>a, <2>2, <2>3, PartedKept
  <2> QED
    BY <1>2, <1>4, <2>4
<1>5. \A m \in 1 .. n : Shaped(frames'[m], m)
  BY <1>2 DEF Calls, n
<1>6. frames'[1].lb = 0 /\ frames'[1].ub = ARR_LENGTH - 1
  BY <1>1, <1>2 DEF Calls
<1>7. Nested'
  <2>1. ASSUME NEW m \in 1 .. n, m > 1 PROVE CalledBy(frames'[m], frames'[m - 1])
    <3>1. m - 1 \in 1 .. n /\ m - 1 # n /\ frames'[m - 1] = frames[m - 1]
      BY <1>1, <1>2, <2>1
    <3>2. CalledBy(frames[m], frames[m - 1])
      BY <2>1 DEF Calls, Nested, n
    <3> QED
      BY <1>1, <1>2, <3>1, <3>2 DEF CalledBy
  <2>2. ASSUME NEW k \in 1 .. n, NEW m \in 1 .. n, k < m
        PROVE  Inside(frames'[m], frames'[k])
    <3>1. k # n /\ frames'[k] = frames[k]
      BY <1>1, <1>2, <2>2
    <3>2. Inside(frames[m], frames[k])
      BY <2>2 DEF Calls, Nested, n
    <3> QED
      BY <1>1, <1>2, <3>1, <3>2 DEF Inside
  <2> QED
    BY <1>2, <2>1, <2>2 DEF Nested
<1> QED
  BY <1>2, <1>3, <1>4, <1>5, <1>6, <1>7 DEF Calls

\* mid lies between the ends of the range.
LEMMA PivotFacts ==
  ASSUME NEW lo \in Int, NEW hi \in Int, 0 <= lo, lo < hi, hi <= ARR_LENGTH - 1
  PROVE  /\ PivotIndex(lo, hi) \in Index
         /\ lo <= PivotIndex(lo, hi) /\ PivotIndex(lo, hi) <= hi
<1> DEFINE mid == (lo + hi) \div 2
<1>1. mid \in Int /\ lo <= mid /\ mid <= hi
  OBVIOUS
<1> HIDE DEF mid
<1>2. PivotIndex(lo, hi) \in {lo, mid, hi}
  BY DEF PivotIndex, mid
<1> QED
  BY <1>1, <1>2, IndexFacts

LEMMA PartitionKeeps ==
  ASSUME ArrayOK, Pointers, Calls, Partition
  PROVE  ArrayOK' /\ Pointers' /\ Calls'
<1> DEFINE t == [Top EXCEPT !.pc = "scan"]
           p == PivotIndex(Top.lb, Top.ub)
<1>1. /\ frames # <<>> /\ Top.pc = "entry" /\ Top.lb < Top.ub
      /\ arr' = swap(p, Top.ub, arr) /\ pivot' = arr[p]
      /\ currPtr' = Top.lb /\ smallPtr' = Top.lb - 1
  BY DEF Partition, Running
<1>2. frames' = [frames EXCEPT ![Len(frames)] = t]
  BY <1>1 DEF Partition, TopAt, Top
<1>3. /\ Top \in Call /\ Shaped(Top, Len(frames)) /\ Len(frames) \in Nat
      /\ Top.lb \in Int /\ Top.ub \in Int
  BY <1>1, TopFacts, CallFacts
<1>4. /\ t \in Call /\ t.lb = Top.lb /\ t.ub = Top.ub /\ t.pc = "scan"
  BY <1>3 DEF Call, Pc
<1>5. 0 <= Top.lb /\ Top.ub <= ARR_LENGTH - 1
  BY <1>3 DEF Shaped
<1>6. p \in Index /\ Top.lb <= p /\ p <= Top.ub /\ Top.ub \in Index
  BY <1>1, <1>3, <1>5, PivotFacts, IndexFacts
<1> HIDE DEF t, p
<1>7. ArrayOK' /\ arr'[Top.ub] = arr[p] /\ arr[p] \in Int
  BY <1>1, <1>6, SwapFacts, ArrayInts
<1>8. Shaped(t, Len(frames)) /\ Parted(arr', t)
  BY <1>1, <1>3, <1>4 DEF Shaped, Parted
<1>9. TopDone(arr', smallPtr', currPtr', pivot', t)
  BY <1>1, <1>3, <1>4, <1>7, IndexFacts DEF TopDone
<1>10. Calls'
  <2>1. Top.pc \in {"entry", "scan"} /\ t.pc \in {"scan", "left"} /\ Top.lb <= Top.ub
        /\ Top.ub <= Top.ub
    BY <1>1, <1>3, <1>4
  <2> QED
    BY <2>1, <1>1, <1>2, <1>3, <1>4, <1>6, <1>8, <1>9, ExchangeKeeps
<1> QED
  BY <1>1, <1>3, <1>7, <1>10 DEF Pointers

\* What the call on top knows while it partitions.
LEMMA ScanFacts ==
  ASSUME ArrayOK, Calls, frames # <<>>, Top.pc = "scan"
  PROVE  /\ Top.lb \in Int /\ Top.ub \in Int /\ Top \in Call
         /\ Top.lb < Top.ub /\ Shaped(Top, Len(frames)) /\ Len(frames) \in Nat
         /\ \A k : k \in Int /\ Top.lb <= k /\ k <= Top.ub => k \in Index
         /\ Top.lb - 1 <= smallPtr /\ smallPtr < currPtr /\ currPtr <= Top.ub
         /\ arr[Top.ub] = pivot
         /\ \A k \in Index : Top.lb <= k /\ k <= smallPtr => arr[k] <= pivot
         /\ \A k \in Index : smallPtr < k /\ k < currPtr => pivot < arr[k]
<1>1. /\ Top \in Call /\ Shaped(Top, Len(frames)) /\ Len(frames) \in Nat
      /\ Top.lb \in Int /\ Top.ub \in Int
      /\ TopDone(arr, smallPtr, currPtr, pivot, Top)
  BY TopFacts, CallFacts
<1>2. Top.lb < Top.ub /\ 0 <= Top.lb /\ Top.ub <= ARR_LENGTH - 1
  BY <1>1 DEF Shaped
<1> QED
  BY <1>1, <1>2, IndexFacts DEF TopDone

LEMMA ScanKeeps ==
  ASSUME ArrayOK, Pointers, Calls, Scan
  PROVE  ArrayOK' /\ Pointers' /\ Calls'
<1>1. /\ frames # <<>> /\ Top.pc = "scan" /\ currPtr < Top.ub
      /\ currPtr' = currPtr + 1 /\ pivot' = pivot /\ frames' = frames
      /\ \/ /\ arr[currPtr] <= pivot /\ smallPtr' = smallPtr + 1
            /\ arr' = swap(smallPtr + 1, currPtr, arr)
         \/ ~(arr[currPtr] <= pivot) /\ smallPtr' = smallPtr /\ arr' = arr
  BY DEF Scan, Running
<1>2. /\ Top.lb \in Int /\ Top.ub \in Int /\ Top \in Call
      /\ Top.lb < Top.ub /\ Shaped(Top, Len(frames)) /\ Len(frames) \in Nat
      /\ \A k : k \in Int /\ Top.lb <= k /\ k <= Top.ub => k \in Index
      /\ Top.lb - 1 <= smallPtr /\ smallPtr < currPtr /\ currPtr <= Top.ub
      /\ arr[Top.ub] = pivot
      /\ \A k \in Index : Top.lb <= k /\ k <= smallPtr => arr[k] <= pivot
      /\ \A k \in Index : smallPtr < k /\ k < currPtr => pivot < arr[k]
  BY <1>1, ScanFacts
<1>3. /\ currPtr \in Int /\ smallPtr \in Int /\ pivot \in Int
      /\ \A k \in Index : arr[k] \in Int
  BY ArrayInts DEF Pointers
<1>4. frames' = [frames EXCEPT ![Len(frames)] = Top]
  BY <1>1 DEF Top, Calls
<1>5. Parted(arr', Top)
  BY <1>1 DEF Parted
<1>6. PICK x \in Index : x = IF arr[currPtr] <= pivot THEN smallPtr + 1 ELSE currPtr
  BY <1>1, <1>2, <1>3
<1>7. /\ currPtr \in Index /\ Top.ub \in Index
      /\ Top.lb <= currPtr /\ currPtr <= Top.ub /\ Top.lb <= x /\ x <= Top.ub
  BY <1>1, <1>2, <1>3, <1>6
<1>8. arr' = swap(x, currPtr, arr)
  BY <1>1, <1>6, <1>7 DEF swap, ArrayOK
<1>9. /\ ArrayOK' /\ arr'[x] = arr[currPtr] /\ arr'[currPtr] = arr[x]
      /\ \A k \in Index : k # x /\ k # currPtr => arr'[k] = arr[k]
  BY <1>7, <1>8, SwapFacts
<1>10. TopDone(arr', smallPtr', currPtr', pivot', Top)
  <2>1. arr'[Top.ub] = pivot
    BY <1>1, <1>2, <1>3, <1>6, <1>7, <1>9
  <2>2. ASSUME NEW k \in Index, Top.lb <= k, k <= smallPtr'
        PROVE  arr'[k] <= pivot
    BY <1>1, <1>2, <1>3, <1>6, <1>7, <1>9, <2>2, IndexFacts
  <2>3. ASSUME NEW k \in Index, smallPtr' < k, k < currPtr + 1
        PROVE  pivot < arr'[k]
    <3>1. CASE arr[currPtr] <= pivot
      <4>1. smallPtr' = smallPtr + 1 /\ x = smallPtr + 1
        BY <1>1, <1>6, <3>1
      <4>2. CASE k = currPtr
        BY <1>2, <1>3, <1>9, <2>3, <4>1, <4>2, IndexFacts
      <4>3. CASE k # currPtr
        BY <1>2, <1>3, <1>9, <2>3, <4>1, <4>3, IndexFacts
      <4> QED
        BY <4>2, <4>3
    <3>2. CASE ~(arr[currPtr] <= pivot)
      BY <1>1, <1>2, <1>3, <1>7, <2>3, <3>2, IndexFacts
    <3> QED
      BY <3>1, <3>2
  <2>4. Top.lb - 1 <= smallPtr' /\ smallPtr' < currPtr' /\ currPtr' <= Top.ub
    BY <1>1, <1>2, <1>3
  <2> QED
    BY <1>1, <2>1, <2>2, <2>3, <2>4 DEF TopDone
<1>11. Calls'
  BY <1>1, <1>2, <1>4, <1>5, <1>7, <1>8, <1>10, ExchangeKeeps
<1>12. smallPtr' \in Int
  BY <1>1, <1>3
<1> QED
  BY <1>1, <1>3, <1>9, <1>11, <1>12 DEF Pointers

LEMMA PlacePivotKeeps ==
  ASSUME ArrayOK, Pointers, Calls, PlacePivot
  PROVE  ArrayOK' /\ Pointers' /\ Calls'
<1> DEFINE x == smallPtr + 1
           t == [Top EXCEPT !.q = smallPtr + 1, !.pc = "left"]
<1>1. /\ frames # <<>> /\ Top.pc = "scan" /\ currPtr >= Top.ub
      /\ currPtr' = currPtr /\ pivot' = pivot /\ smallPtr' = x
      /\ arr' = swap(x, Top.ub, arr)
  BY DEF PlacePivot, Running
<1>2. /\ Top.lb \in Int /\ Top.ub \in Int /\ Top \in Call
      /\ Top.lb < Top.ub /\ Shaped(Top, Len(frames)) /\ Len(frames) \in Nat
      /\ \A k : k \in Int /\ Top.lb <= k /\ k <= Top.ub => k \in Index
      /\ Top.lb - 1 <= smallPtr /\ smallPtr < currPtr /\ currPtr <= Top.ub
      /\ arr[Top.ub] = pivot
      /\ \A k \in Index : Top.lb <= k /\ k <= smallPtr => arr[k] <= pivot
      /\ \A k \in Index : smallPtr < k /\ k < currPtr => pivot < arr[k]
  BY <1>1, ScanFacts
<1>3. /\ currPtr \in Int /\ smallPtr \in Int /\ pivot \in Int
      /\ \A k \in Index : arr[k] \in Int
  BY ArrayInts DEF Pointers
<1>4. frames' = [frames EXCEPT ![Len(frames)] = t]
  BY <1>1, TopFacts DEF PlacePivot, Top, Calls
<1>5. t \in Call /\ t.lb = Top.lb /\ t.ub = Top.ub /\ t.pc = "left" /\ t.q = x
  <2> HIDE DEF x
  <2>1. x \in Int /\ Top \in Call
    BY <1>2, <1>3 DEF x
  <2>2. t = [Top EXCEPT !.q = x, !.pc = "left"]
    BY DEF x
  <2> HIDE DEF t
  <2> QED
    BY <2>1, <2>2 DEF Call, Pc
<1> HIDE DEF t
<1>6. /\ x \in Index /\ Top.ub \in Index /\ Top.lb <= x /\ x <= Top.ub
  BY <1>1, <1>2, <1>3
<1>7. /\ ArrayOK' /\ arr'[x] = arr[Top.ub] /\ arr'[Top.ub] = arr[x]
      /\ \A k \in Index : k # x /\ k # Top.ub => arr'[k] = arr[k]
  BY <1>1, <1>6, SwapFacts
<1>8. Parted(arr', t)
  <2>1. ASSUME NEW k \in Index, Top.lb <= k, k <= x PROVE arr'[k] <= arr'[x]
    BY <1>1, <1>2, <1>3, <1>6, <1>7, <2>1, IndexFacts, SMTT(30)
  <2>2. ASSUME NEW k \in Index, x < k, k <= Top.ub PROVE arr'[x] < arr'[k]
    BY <1>1, <1>2, <1>3, <1>6, <1>7, <2>2, IndexFacts, SMTT(30)
  <2> QED
    BY <1>5, <2>1, <2>2 DEF Parted
<1>9. Shaped(t, Len(frames)) /\ TopDone(arr', smallPtr', currPtr', pivot', t)
  BY <1>2, <1>5, <1>6 DEF Shaped, TopDone
<1>10. Calls'
  <2>1. Top.pc \in {"entry", "scan"} /\ t.pc \in {"scan", "left"} /\ Top.lb <= Top.ub
        /\ Top.ub <= Top.ub
    BY <1>1, <1>2, <1>5
  <2> QED
    BY <2>1, <1>1, <1>2, <1>4, <1>5, <1>6, <1>8, <1>9, ExchangeKeeps
<1> QED
  BY <1>1, <1>3, <1>7, <1>10 DEF Pointers

\* A call on the part of the range that CalledBy names.
LEMMA PushKeeps ==
  ASSUME Calls, frames # <<>>, arr' = arr,
         NEW t \in Call, t.lb = Top.lb, t.ub = Top.ub,
         Shaped(t, Len(frames)), Parted(arr, t), LeftDone(arr, t),
         t.pc \in {"right", "exit"},
         NEW g \in Call, CalledBy(g, t), Shaped(g, Len(frames) + 1),
         Parted(arr, g), LeftDone(arr, g),
         TopDone(arr, smallPtr', currPtr', pivot', g),
         frames' = Append([frames EXCEPT ![Len(frames)] = t], g)
  PROVE  Calls'
<1> DEFINE n == Len(frames)
<1>1. /\ n \in Nat /\ n >= 1 /\ n \in 1 .. n
      /\ frames \in Seq(Call) /\ Top = frames[n] /\ Top \in Call
  BY TopFacts DEF Calls
<1>2. /\ frames' \in Seq(Call) /\ Len(frames') = n + 1 /\ frames' # <<>>
      /\ frames'[n] = t /\ frames'[n + 1] = g
      /\ \A m \in 1 .. n : m # n => frames'[m] = frames[m]
  BY <1>1
<1> HIDE DEF n
<1>3. \A m \in 1 .. n + 1 : m \in 1 .. n \/ m = n + 1
  BY <1>1
<1>4. ASSUME NEW m \in 1 .. n + 1
      PROVE  Shaped(frames'[m], m) /\ Parted(arr, frames'[m]) /\ LeftDone(arr, frames'[m])
  BY <1>2, <1>3 DEF Calls, n
<1>5. frames'[1].lb = 0 /\ frames'[1].ub = ARR_LENGTH - 1
  BY <1>1, <1>2 DEF Calls
<1>6. /\ t.lb \in Int /\ t.ub \in Int /\ t.q \in Int /\ g.lb \in Int /\ g.ub \in Int
      /\ t.lb <= t.q /\ t.q <= t.ub
  BY CallFacts DEF Shaped
<1>7. ASSUME NEW m \in 1 .. n + 1, m > 1 PROVE CalledBy(frames'[m], frames'[m - 1])
  <2>1. CASE m = n + 1
    BY <1>1, <1>2, <2>1
  <2>2. CASE m # n + 1
    <3>1. m \in 1 .. n /\ m - 1 \in 1 .. n /\ m - 1 # n /\ frames'[m - 1] = frames[m - 1]
      BY <1>1, <1>2, <1>7, <2>2
    <3>2. CalledBy(frames[m], frames[m - 1])
      BY <1>7, <3>1 DEF Calls, Nested, n
    <3> QED
      BY <1>1, <1>2, <3>1, <3>2 DEF CalledBy
  <2> QED
    BY <2>1, <2>2
<1>8. ASSUME NEW k \in 1 .. n + 1, NEW m \in 1 .. n + 1, k < m
      PROVE  Inside(frames'[m], frames'[k])
  <2>1. k \in 1 .. n
    BY <1>1, <1>8
  <2>2. CASE k = n
    <3>1. m = n + 1
      BY <1>1, <1>8, <2>2
    <3> QED
      BY <1>2, <1>6, <2>2, <3>1 DEF CalledBy, Inside
  <2>3. CASE k # n
    <3>1. k < n /\ frames'[k] = frames[k] /\ frames[k] \in Call
      BY <1>1, <1>2, <2>1, <2>3 DEF n
    <3>2. \A l \in 1 .. n : k < l => Inside(frames[l], frames[k])
      BY <2>1 DEF Calls, Nested, n
    <3>3. Inside(t, frames[k])
      BY <1>1, <3>1, <3>2 DEF Inside
    <3>4. CASE m = n + 1
      <4>1. g.lb >= t.lb /\ g.ub <= t.ub
        BY <1>6 DEF CalledBy
      <4>2. Inside(g, frames[k])
        BY <1>6, <3>1, <3>3, <4>1, CallFacts, SMTT(30) DEF Inside
      <4> QED
        BY <1>2, <3>1, <3>4, <4>2
    <3>5. CASE m = n
      BY <1>2, <3>1, <3>3, <3>5
    <3>6. CASE m # n /\ m # n + 1
      BY <1>1, <1>2, <1>3, <1>8, <3>1, <3>2, <3>6
    <3> QED
      BY <3>4, <3>5, <3>6
  <2> QED
    BY <2>2, <2>3
<1>9. Nested'
  BY <1>2, <1>7, <1>8 DEF Nested
<1> QED
  BY <1>2, <1>4, <1>5, <1>9 DEF Calls

LEMMA SortLeftKeeps ==
  ASSUME ArrayOK, Pointers, Calls, SortLeft
  PROVE  ArrayOK' /\ Pointers' /\ Calls'
<1> DEFINE t == [Top EXCEPT !.pc = "right"]
           g == Frame(Top.lb, Top.q - 1)
<1>1. /\ frames # <<>> /\ Top.pc = "left" /\ arr' = arr
      /\ pivot' = pivot /\ currPtr' = currPtr /\ smallPtr' = smallPtr
  BY DEF SortLeft, Running
<1>2. frames' = Append([frames EXCEPT ![Len(frames)] = t], g)
  BY <1>1 DEF SortLeft, TopAt, Top
<1>3. /\ Top \in Call /\ Shaped(Top, Len(frames)) /\ Len(frames) \in Nat
      /\ Top.lb \in Int /\ Top.ub \in Int /\ Top.q \in Int /\ Parted(arr, Top)
  BY <1>1, TopFacts, CallFacts
<1>4. /\ t \in Call /\ t.lb = Top.lb /\ t.ub = Top.ub /\ t.pc = "right" /\ t.q = Top.q
  BY <1>3 DEF Call, Pc
<1>5. /\ g \in Call /\ g.lb = Top.lb /\ g.ub = Top.q - 1 /\ g.pc = "entry"
      /\ Parted(arr, g) /\ LeftDone(arr, g)
      /\ TopDone(arr, smallPtr', currPtr', pivot', g)
  BY <1>3, FrameFacts
<1> HIDE DEF t, g
<1>6. Shaped(t, Len(frames)) /\ Parted(arr, t) /\ LeftDone(arr, t)
  BY <1>1, <1>3, <1>4 DEF Shaped, Parted, LeftDone
<1>7. CalledBy(g, t)
  BY <1>4, <1>5 DEF CalledBy
<1>8. Shaped(g, Len(frames) + 1)
  BY <1>1, <1>3, <1>5, IndexFacts DEF Shaped
<1>9. t.pc \in {"right", "exit"}
  BY <1>4
<1>10. Calls'
  BY <1>1, <1>2, <1>4, <1>5, <1>6, <1>7, <1>8, <1>9, PushKeeps
<1> QED
  BY <1>1, <1>10 DEF Pointers, ArrayOK

LEMMA SortRightKeeps ==
  ASSUME ArrayOK, Pointers, Calls, SortRight
  PROVE  ArrayOK' /\ Pointers' /\ Calls'
<1> DEFINE t == [Top EXCEPT !.pc = "exit"]
           g == Frame(Top.q + 1, Top.ub)
<1>1. /\ frames # <<>> /\ Top.pc = "right" /\ arr' = arr
      /\ pivot' = pivot /\ currPtr' = currPtr /\ smallPtr' = smallPtr
  BY DEF SortRight, Running
<1>2. frames' = Append([frames EXCEPT ![Len(frames)] = t], g)
  BY <1>1 DEF SortRight, TopAt, Top
<1>3. /\ Top \in Call /\ Shaped(Top, Len(frames)) /\ Len(frames) \in Nat
      /\ Top.lb \in Int /\ Top.ub \in Int /\ Top.q \in Int /\ Parted(arr, Top)
      /\ TopDone(arr, smallPtr, currPtr, pivot, Top)
  BY <1>1, TopFacts, CallFacts
<1>4. /\ t \in Call /\ t.lb = Top.lb /\ t.ub = Top.ub /\ t.pc = "exit" /\ t.q = Top.q
  BY <1>3 DEF Call, Pc
<1>5. /\ g \in Call /\ g.lb = Top.q + 1 /\ g.ub = Top.ub /\ g.pc = "entry"
      /\ Parted(arr, g) /\ LeftDone(arr, g)
      /\ TopDone(arr, smallPtr', currPtr', pivot', g)
  BY <1>3, FrameFacts
<1> HIDE DEF t, g
<1>6. Shaped(t, Len(frames)) /\ Parted(arr, t) /\ LeftDone(arr, t)
  BY <1>1, <1>3, <1>4 DEF Shaped, Parted, LeftDone, TopDone
<1>7. CalledBy(g, t)
  BY <1>4, <1>5 DEF CalledBy
<1>8. Shaped(g, Len(frames) + 1)
  BY <1>1, <1>3, <1>5, IndexFacts DEF Shaped
<1>9. t.pc \in {"right", "exit"}
  BY <1>4
<1>10. Calls'
  BY <1>1, <1>2, <1>4, <1>5, <1>6, <1>7, <1>8, <1>9, PushKeeps
<1> QED
  BY <1>1, <1>10 DEF Pointers, ArrayOK

\* A call that returns has put its range in order.
LEMMA ReturnSorts ==
  ASSUME ArrayOK, NEW f \in Call, 0 <= f.lb, f.ub <= ARR_LENGTH - 1,
         NEW s, NEW c, NEW p, TopDone(arr, s, c, p, f),
         Parted(arr, f), LeftDone(arr, f),
         \/ f.pc = "exit" /\ f.lb <= f.q /\ f.q <= f.ub
         \/ f.pc = "entry" /\ f.lb >= f.ub
  PROVE  Sorted(arr, f.lb, f.ub)
<1> SUFFICES ASSUME NEW k \in Index, NEW m \in Index, f.lb <= k, k <= m, m <= f.ub
             PROVE  arr[k] <= arr[m]
  BY DEF Sorted
<1>1. /\ f.lb \in Int /\ f.ub \in Int /\ f.q \in Int /\ k \in Int /\ m \in Int
      /\ \A l \in Index : arr[l] \in Int
  BY CallFacts, IndexFacts, ArrayInts
<1>2. CASE f.pc = "entry" /\ f.lb >= f.ub
  <2>1. k = m
    BY <1>1, <1>2
  <2> QED
    BY <1>1, <2>1
<1>3. CASE f.pc = "exit" /\ f.lb <= f.q /\ f.q <= f.ub
  <2>1. /\ f.q \in Index
        /\ \A l \in Index : f.lb <= l /\ l <= f.q => arr[l] <= arr[f.q]
        /\ \A l \in Index : f.q < l /\ l <= f.ub => arr[f.q] < arr[l]
        /\ Sorted(arr, f.lb, f.q - 1) /\ Sorted(arr, f.q + 1, f.ub)
    BY <1>1, <1>3, IndexFacts DEF Parted, LeftDone, TopDone
  <2>2. CASE m < f.q
    BY <1>1, <2>1, <2>2 DEF Sorted
  <2>3. CASE k > f.q
    BY <1>1, <2>1, <2>3 DEF Sorted
  <2>4. CASE k <= f.q /\ f.q <= m
    <3>1. arr[k] <= arr[f.q] /\ (m = f.q \/ arr[f.q] < arr[m])
      BY <1>1, <2>1, <2>4
    <3> QED
      BY <1>1, <2>1, <3>1
  <2> QED
    BY <1>1, <2>2, <2>3, <2>4
<1> QED
  BY <1>2, <1>3

LEMMA FrontFacts ==
  ASSUME NEW S, NEW s \in Seq(S), NEW l \in Nat, l < Len(s)
  PROVE  /\ SubSeq(s, 1, l) \in Seq(S) /\ Len(SubSeq(s, 1, l)) = l
         /\ \A m \in 1 .. l : SubSeq(s, 1, l)[m] = s[m]
<1>1. 1 \in Int /\ l \in Int /\ \A m \in 1 .. l : s[m] \in S
  OBVIOUS
<1>2. /\ SubSeq(s, 1, l) \in Seq(S)
      /\ Len(SubSeq(s, 1, l)) = IF 1 <= l THEN l - 1 + 1 ELSE 0
      /\ \A m \in 1 .. l - 1 + 1 : SubSeq(s, 1, l)[m] = s[1 + m - 1]
  BY <1>1, SubSeqProperties
<1> QED
  BY <1>2

LEMMA ReturnFacts == QsortReturn =>
  /\ frames # <<>> /\ arr' = arr
  /\ pivot' = pivot /\ currPtr' = currPtr /\ smallPtr' = smallPtr
  /\ frames' = SubSeq(frames, 1, Len(frames) - 1)
  /\ \/ Top.pc = "exit"
     \/ Top.pc = "entry" /\ Top.lb >= Top.ub
BY DEF QsortReturn, Running, Caller

LEMMA QsortReturnKeeps ==
  ASSUME ArrayOK, Pointers, Calls, QsortReturn
  PROVE  ArrayOK' /\ Pointers' /\ Calls'
<1> DEFINE n == Len(frames)
<1>1. /\ frames # <<>> /\ arr' = arr
      /\ pivot' = pivot /\ currPtr' = currPtr /\ smallPtr' = smallPtr
      /\ frames' = SubSeq(frames, 1, n - 1)
      /\ \/ Top.pc = "exit"
         \/ Top.pc = "entry" /\ Top.lb >= Top.ub
  BY ReturnFacts
<1>2. /\ n \in Nat /\ n >= 1 /\ n \in 1 .. n
      /\ frames \in Seq(Call) /\ Top = frames[n] /\ Top \in Call
      /\ Shaped(Top, n) /\ Parted(arr, Top) /\ LeftDone(arr, Top)
      /\ TopDone(arr, smallPtr, currPtr, pivot, Top)
  BY <1>1, TopFacts DEF Calls
<1>3. Sorted(arr, Top.lb, Top.ub)
  <2>1. 0 <= Top.lb /\ Top.ub <= ARR_LENGTH - 1
        /\ (Top.pc = "exit" => Top.lb <= Top.q /\ Top.q <= Top.ub)
    BY <1>2 DEF Shaped
  <2> QED
    BY <1>1, <1>2, <2>1, ReturnSorts
<1>4. /\ frames' \in Seq(Call) /\ Len(frames') = n - 1
      /\ \A m \in 1 .. n - 1 : frames'[m] = frames[m]
  <2>1. n - 1 \in Nat /\ n - 1 < Len(frames)
    BY <1>2
  <2> QED
    BY <1>1, <1>2, <2>1, FrontFacts
<1> HIDE DEF n
<1>5. ASSUME NEW m \in 1 .. n - 1
      PROVE  Shaped(frames'[m], m) /\ Parted(arr, frames'[m]) /\ LeftDone(arr, frames'[m])
  <2>1. m \in 1 .. n
    BY <1>2
  <2> QED
    BY <1>4, <2>1 DEF Calls, n
<1>6. Nested'
  <2>1. ASSUME NEW m \in 1 .. n - 1, m > 1 PROVE CalledBy(frames'[m], frames'[m - 1])
    <3>1. m \in 1 .. n /\ m - 1 \in 1 .. n - 1
      BY <1>2, <2>1
    <3>2. CalledBy(frames[m], frames[m - 1])
      BY <2>1, <3>1 DEF Calls, Nested, n
    <3> QED
      BY <1>4, <3>1, <3>2
  <2>2. ASSUME NEW k \in 1 .. n - 1, NEW m \in 1 .. n - 1, k < m
        PROVE  Inside(frames'[m], frames'[k])
    <3>1. m \in 1 .. n /\ k \in 1 .. n
      BY <1>2
    <3>2. Inside(frames[m], frames[k])
      BY <2>2, <3>1 DEF Calls, Nested, n
    <3> QED
      BY <1>4, <3>2
  <2> QED
    BY <1>4, <2>1, <2>2 DEF Nested
<1>7. CASE n = 1
  <2>1. Top.lb = 0 /\ Top.ub = ARR_LENGTH - 1
    BY <1>1, <1>2, <1>7 DEF Calls
  <2>2. frames' = <<>>
    BY <1>4, <1>7
  <2> QED
    BY <1>1, <1>3, <1>4, <1>5, <1>6, <2>1, <2>2 DEF Calls, Pointers, ArrayOK
<1>8. CASE n # 1
  <2>1. n - 1 \in 1 .. n /\ n - 1 >= 1 /\ n > 1 /\ 1 \in 1 .. n - 1 /\ n - 1 \in 1 .. n - 1
    BY <1>2, <1>8
  <2>2. frames' # <<>>
    BY <1>4, <2>1
  <2>3. CalledBy(Top, frames[n - 1])
    BY <1>2, <2>1 DEF Calls, Nested, n
  <2>4. TopDone(arr, smallPtr, currPtr, pivot, frames[n - 1])
    BY <1>3, <2>3 DEF CalledBy, TopDone
  <2>5. frames'[1].lb = 0 /\ frames'[1].ub = ARR_LENGTH - 1
    BY <1>1, <1>4, <2>1 DEF Calls
  <2>6. frames'[Len(frames')] = frames[n - 1]
    BY <1>4, <2>1
  <2> QED
    BY <1>1, <1>4, <1>5, <1>6, <2>2, <2>4, <2>5, <2>6 DEF Calls, Pointers, ArrayOK
<1> QED
  BY <1>7, <1>8

LEMMA QuickStep == QuickInv /\ [TestNext]_testVars => QuickInv'
<1> SUFFICES ASSUME QuickInv, [TestNext]_testVars, prog' = "quicksort.c"
             PROVE  QuickInv'
  BY DEF QuickInv
<1>1. prog = "quicksort.c"
  BY DEF TestNext, Emulate, BubbleInner, BubbleOuter, Partition, Scan, PlacePivot,
     SortLeft, SortRight, QsortReturn, CheckSorted, SieveOuter, SieveInner, CheckSieve,
     CrcReset, CrcStart, CrcShift, CrcResult, CheckCrc, Loop, testVars
<1>2. ArrayOK /\ Pointers /\ Calls /\ outcome # "fail"
  BY <1>1 DEF QuickInv
<1>3. CASE Partition
  BY <1>2, <1>3, PartitionKeeps DEF QuickInv, Partition
<1>4. CASE Scan
  BY <1>2, <1>4, ScanKeeps DEF QuickInv, Scan
<1>5. CASE PlacePivot
  BY <1>2, <1>5, PlacePivotKeeps DEF QuickInv, PlacePivot
<1>6. CASE SortLeft
  BY <1>2, <1>6, SortLeftKeeps DEF QuickInv, SortLeft
<1>7. CASE SortRight
  BY <1>2, <1>7, SortRightKeeps DEF QuickInv, SortRight
<1>8. CASE QsortReturn
  BY <1>2, <1>8, QsortReturnKeeps DEF QuickInv, QsortReturn
<1>9. CASE CheckSorted
  <2>1. /\ UNCHANGED <<arr, frames, pivot, currPtr, smallPtr>>
        /\ outcome' = (IF InOrderArray THEN "success" ELSE "fail")
        /\ frames = <<>>
    BY <1>1, <1>9 DEF CheckSorted, SortEnds, sorting
  <2>2. InOrderArray
    <3> SUFFICES ASSUME NEW k \in 0 .. ARR_LENGTH - 2 PROVE arr[k] <= arr[k + 1]
      BY DEF InOrderArray
    <3>1. /\ k \in Index /\ k + 1 \in Index /\ 0 <= k /\ k <= k + 1
          /\ k + 1 <= ARR_LENGTH - 1
      BY IndexFacts
    <3>2. Sorted(arr, 0, ARR_LENGTH - 1)
      BY <1>2, <2>1 DEF Calls
    <3> QED
      BY <3>1, <3>2 DEF Sorted
  <2>3. Calls'
    BY <1>2, <2>1 DEF Calls, Nested
  <2> QED
    BY <1>2, <2>1, <2>2, <2>3 DEF QuickInv, ArrayOK, Pointers
<1>10. CASE UNCHANGED <<prog, outcome, arr, frames, pivot, currPtr, smallPtr>>
  <2>1. Calls'
    BY <1>2, <1>10 DEF Calls, Nested
  <2> QED
    BY <1>2, <1>10, <2>1 DEF QuickInv, ArrayOK, Pointers
<1> QED
  BY <1>1, <1>3, <1>4, <1>5, <1>6, <1>7, <1>8, <1>9, <1>10
  DEF TestNext, Emulate, BubbleInner, BubbleOuter, SieveOuter, SieveInner, CheckSieve,
     CrcRunning, CrcReset, CrcStart, CrcShift, CrcResult, CheckCrc, Loop, testVars, sorting

\* Only quicksort.c makes calls.
NoCalls == prog # "quicksort.c" => frames = <<>>

LEMMA NoCallsKept ==
  /\ TestInit => NoCalls
  /\ NoCalls /\ [TestNext]_testVars => NoCalls'
<1>1. TestInit => NoCalls
  BY DEF TestInit, NoCalls
<1>2. ASSUME NoCalls, [TestNext]_testVars PROVE NoCalls'
  BY <1>2 DEF NoCalls, TestNext, Emulate, BubbleInner, BubbleOuter, Partition, Scan,
     PlacePivot, SortLeft, SortRight, QsortReturn, Running, CheckSorted, SieveOuter,
     SieveInner, CheckSieve, CrcReset, CrcStart, CrcShift, CrcResult, CheckCrc, Loop,
     testVars, sorting
<1> QED
  BY <1>1, <1>2

LEMMA CallsDepth ==
  ASSUME Calls, frames # <<>>
  PROVE  Len(frames) <= ARR_LENGTH
<1> DEFINE n == Len(frames)
<1>1. n \in Nat /\ n >= 1 /\ frames \in Seq(Call)
  BY TopFacts DEF Calls
<1> HIDE DEF n
<1>2. CASE n = 1
  BY <1>2, IndexFacts DEF n
<1>3. CASE n # 1
  <2>1. n \in 1 .. n /\ n - 1 \in 1 .. n /\ n > 1 /\ n - 1 \in Int
    BY <1>1, <1>3
  <2>2. CalledBy(frames[n], frames[n - 1]) /\ Shaped(frames[n - 1], n - 1)
        /\ frames[n - 1] \in Call
    BY <1>1, <2>1 DEF Calls, Nested, n
  <2>3. /\ frames[n - 1].lb < frames[n - 1].ub
        /\ frames[n - 1].ub - frames[n - 1].lb <= ARR_LENGTH - (n - 1)
    BY <2>2 DEF CalledBy, Shaped
  <2>4. n <= ARR_LENGTH
    BY <1>1, <2>1, <2>2, <2>3, CallFacts, IndexFacts
  <2> QED
    BY <2>4 DEF n
<1> QED
  BY <1>2, <1>3

LEMMA QuickPartitioned == QuickInv /\ NoCalls => Partitioned
<1> SUFFICES ASSUME QuickInv, NoCalls PROVE Partitioned
  OBVIOUS
<1>1. CASE frames = <<>>
  BY <1>1, IndexFacts DEF Partitioned
<1>2. CASE frames # <<>>
  <2>1. Calls
    BY <1>2 DEF QuickInv, NoCalls
  <2>2. Len(frames) \in Nat /\ frames \in Seq(Call) /\ Len(frames) <= ARR_LENGTH + 1
    BY <1>2, <2>1, TopFacts, CallsDepth, IndexFacts DEF Calls
  <2>3. ASSUME NEW n \in 1 .. Len(frames), NEW f, f = frames[n]
        PROVE  /\ f.lb <= f.ub => f.lb \in Index /\ f.ub \in Index
               /\ f.pc \in {"left", "right", "exit"} =>
                    /\ f.q \in f.lb .. f.ub
                    /\ \A k \in f.lb .. f.q : arr[k] <= arr[f.q]
                    /\ \A k \in f.q + 1 .. f.ub : arr[f.q] < arr[k]
    <3>1. f \in Call /\ Shaped(f, n) /\ Parted(arr, f)
      BY <2>1, <2>2, <2>3 DEF Calls
    <3>2. f.lb \in Int /\ f.ub \in Int /\ f.q \in Int
          /\ 0 <= f.lb /\ f.ub <= ARR_LENGTH - 1
      BY <3>1, CallFacts DEF Shaped
    <3>3. f.lb <= f.ub => f.lb \in Index /\ f.ub \in Index
      BY <3>2, IndexFacts
    <3>4. ASSUME f.pc \in {"left", "right", "exit"}
          PROVE  /\ f.q \in f.lb .. f.ub
                 /\ \A k \in f.lb .. f.q : k \in Index /\ arr[k] <= arr[f.q]
                 /\ \A k \in f.q + 1 .. f.ub : k \in Index /\ arr[f.q] < arr[k]
      <4>1. f.lb <= f.q /\ f.q <= f.ub
        BY <3>1, <3>4 DEF Shaped
      <4>2. \A k : k \in Int /\ f.lb <= k /\ k <= f.ub => k \in Index
        BY <3>2, IndexFacts
      <4>3. \A k \in f.lb .. f.q : k \in Index /\ arr[k] <= arr[f.q]
        BY <3>1, <3>2, <3>4, <4>1, <4>2 DEF Parted
      <4>4. \A k \in f.q + 1 .. f.ub : k \in Index /\ arr[f.q] < arr[k]
        BY <3>1, <3>2, <3>4, <4>1, <4>2 DEF Parted
      <4> QED
        BY <3>2, <4>1, <4>3, <4>4
    <3> QED
      BY <3>3, <3>4
  <2> QED
    BY <2>2, <2>3 DEF Partitioned
<1> QED
  BY <1>1, <1>2

-----------------------------------------------------------------------------
(* Exchanges *)

Places(a, v) == {k \in Index : a[k] = v}

\* An exchange maps the places of a value to its places afterwards.
LEMMA SwapPermutes ==
  ASSUME NEW a \in [Index -> Values], NEW x \in Index, NEW y \in Index,
         NEW b, b = swap(x, y, a), NEW v
  PROVE  Cardinality(Places(b, v)) = Cardinality(Places(a, v))
<1> DEFINE S == {k \in Index : a[k] = v}
           T == {k \in Index : b[k] = v}
           F == [k \in S |-> IF k = x THEN y ELSE IF k = y THEN x ELSE k]
<1>1. /\ b[x] = a[y] /\ b[y] = a[x]
      /\ \A k \in Index : k # x /\ k # y => b[k] = a[k]
  BY DEF swap
<1>2. F \in [S -> T]
  BY <1>1
<1>3. \A k, l \in S : F[k] = F[l] => k = l
  OBVIOUS
<1>4. ASSUME NEW t \in T PROVE \E k \in S : F[k] = t
  <2> DEFINE k == IF t = x THEN y ELSE IF t = y THEN x ELSE t
  <2>1. k \in S
    BY <1>1
  <2>2. F[k] = t
    BY <2>1
  <2> QED
    BY <2>1, <2>2
<1>5. IsFiniteSet(S)
  <2>1. IsFiniteSet(Index)
    BY IndexFacts, FS_Interval DEF Index
  <2> QED
    BY <2>1, FS_Subset
<1> HIDE DEF S, T, F
<1>6. F \in Bijection(S, T)
  BY <1>2, <1>3, <1>4, Fun_IsBij
<1>7. ExistsBijection(S, T)
  BY <1>6 DEF ExistsBijection
<1>8. Cardinality(T) = Cardinality(S)
  BY <1>5, <1>7, FS_Bijection
<1> QED
  BY <1>8 DEF S, T, Places

\* The arrays change by exchanges only.
LEMMA StepSwaps ==
  ASSUME BubbleInv, QuickInv, [TestNext]_testVars
  PROVE  /\ start' = start
         /\ arr' = arr \/ \E x, y \in Index : arr' = swap(x, y, arr)
<1>1. CASE BubbleInner
  <2>1. /\ prog = "bubble.c" /\ i < ARR_LENGTH - 1 /\ j < ARR_LENGTH - i - 1
        /\ arr' = arr \/ arr' = swap(j, j + 1, arr)
    BY <1>1 DEF BubbleInner, BubbleLast
  <2>2. i \in 0 .. ARR_LENGTH - 1 /\ j \in Nat
    BY <2>1 DEF BubbleInv
  <2>3. j \in Index /\ j + 1 \in Index
    BY <2>1, <2>2, IndexFacts
  <2> QED
    BY <1>1, <2>1, <2>3 DEF BubbleInner
<1>2. CASE Partition
  <2>1. /\ ArrayOK /\ Calls /\ frames # <<>> /\ Top.lb < Top.ub
        /\ arr' = swap(PivotIndex(Top.lb, Top.ub), Top.ub, arr) /\ start' = start
    BY <1>2 DEF Partition, Running, QuickInv
  <2>2. Top.lb \in Int /\ Top.ub \in Int /\ 0 <= Top.lb /\ Top.ub <= ARR_LENGTH - 1
    BY <2>1, TopFacts, CallFacts DEF Shaped
  <2>3. PivotIndex(Top.lb, Top.ub) \in Index /\ Top.ub \in Index
    BY <2>1, <2>2, PivotFacts, IndexFacts
  <2> QED
    BY <2>1, <2>3
<1>3. CASE Scan
  <2>1. /\ ArrayOK /\ Pointers /\ Calls /\ frames # <<>> /\ Top.pc = "scan"
        /\ arr' = arr \/ arr' = swap(smallPtr + 1, currPtr, arr)
        /\ start' = start /\ currPtr < Top.ub
    BY <1>3 DEF Scan, Running, QuickInv
  <2>2. /\ Top.lb \in Int /\ Top.ub \in Int
        /\ \A k : k \in Int /\ Top.lb <= k /\ k <= Top.ub => k \in Index
        /\ Top.lb - 1 <= smallPtr /\ smallPtr < currPtr
    BY <2>1, ScanFacts
  <2>3. smallPtr + 1 \in Index /\ currPtr \in Index
    BY <2>1, <2>2 DEF Pointers
  <2> QED
    BY <2>1, <2>3
<1>4. CASE PlacePivot
  <2>1. /\ ArrayOK /\ Pointers /\ Calls /\ frames # <<>> /\ Top.pc = "scan"
        /\ arr' = swap(smallPtr + 1, Top.ub, arr) /\ start' = start
    BY <1>4 DEF PlacePivot, Running, QuickInv
  <2>2. /\ Top.lb \in Int /\ Top.ub \in Int /\ Top.lb < Top.ub
        /\ \A k : k \in Int /\ Top.lb <= k /\ k <= Top.ub => k \in Index
        /\ Top.lb - 1 <= smallPtr /\ smallPtr < currPtr /\ currPtr <= Top.ub
    BY <2>1, ScanFacts
  <2>3. smallPtr + 1 \in Index /\ Top.ub \in Index
    BY <2>1, <2>2 DEF Pointers
  <2> QED
    BY <2>1, <2>3
<1>5. CASE UNCHANGED <<arr, start>>
  BY <1>5
<1> QED
  BY <1>1, <1>2, <1>3, <1>4, <1>5
  DEF TestNext, Emulate, BubbleOuter, SortLeft, SortRight, QsortReturn, CheckSorted,
     SieveOuter, SieveInner, CheckSieve, CrcReset, CrcStart, CrcShift, CrcResult,
     CheckCrc, Loop, testVars, sorting

PermInv == ArrayOK /\ Permuted

LEMMA PermStep == BubbleInv /\ QuickInv /\ PermInv /\ [TestNext]_testVars => PermInv'
<1> SUFFICES ASSUME BubbleInv, QuickInv, PermInv, [TestNext]_testVars PROVE PermInv'
  OBVIOUS
<1>1. ArrayOK /\ Permuted /\ start' = start
  BY StepSwaps DEF PermInv
<1>2. CASE arr' = arr
  BY <1>1, <1>2 DEF PermInv, ArrayOK, Permuted
<1>3. CASE \E x, y \in Index : arr' = swap(x, y, arr)
  <2>1. PICK x \in Index, y \in Index : arr' = swap(x, y, arr)
    BY <1>3
  <2>2. ArrayOK'
    BY <1>1, <2>1, SwapFacts
  <2>3. ASSUME NEW v \in Values
        PROVE  Cardinality({k \in Index : arr'[k] = v})
                 = Cardinality({k \in Index : start'[k] = v})
    <3>1. Cardinality(Places(arr', v)) = Cardinality(Places(arr, v))
      BY <1>1, <2>1, SwapPermutes DEF ArrayOK
    <3>2. Cardinality(Places(arr, v)) = Cardinality(Places(start, v))
      BY <1>1 DEF Permuted, Places
    <3>3. Cardinality(Places(arr', v)) = Cardinality(Places(start', v))
      BY <1>1, <3>1, <3>2
    <3> QED
      BY <3>3 DEF Places
  <2> QED
    BY <1>1, <2>2, <2>3 DEF PermInv, Permuted
<1> QED
  BY <1>2, <1>3, StepSwaps

LEMMA PermInit == TestInit => PermInv
BY DEF TestInit, PermInv, ArrayOK, Permuted

-----------------------------------------------------------------------------
(* sieve.c *)

LEMMA FactorFacts ==
  ASSUME NEW m \in Nat, m >= 2
  PROVE  /\ \A q \in Nat : (m * q) % m = 0
         /\ \A k \in Nat : k % m = 0 => \E q \in Nat : k = m * q
<1>1. ASSUME NEW q \in Nat PROVE (m * q) % m = 0
  <2>1. (q * m + 0) % m = 0
    BY DivUnique
  <2>2. q * m + 0 = m * q
    OBVIOUS
  <2> QED
    BY <2>1, <2>2
<1>2. ASSUME NEW k \in Nat, k % m = 0 PROVE \E q \in Nat : k = m * q
  <2>1. /\ k \div m \in Int
        /\ k = (k \div m) * m + (k % m)
    BY DivMod
  <2>2. PICK q \in Int : k = q * m
    BY <2>1, <1>2
  <2>3. q >= 0
    BY <2>2
  <2> QED
    BY <2>2, <2>3
<1> QED
  BY <1>1, <1>2

\* A factor of a factor is a factor.
LEMMA FactorOfFactor ==
  ASSUME NEW m \in Nat, m >= 2, NEW n \in Nat, n >= 2, NEW k \in Nat,
         n % m = 0, k % n = 0
  PROVE  k % m = 0
<1>1. PICK p \in Nat : n = m * p
  BY FactorFacts
<1>2. PICK q \in Nat : k = n * q
  BY FactorFacts
<1>3. p * q \in Nat /\ k = m * (p * q)
  BY <1>1, <1>2
<1> QED
  BY <1>3, FactorFacts

\* The multiples of n from n * j on are n * j and those from n * (j + 1) on.
LEMMA NextMultiple ==
  ASSUME NEW n \in Nat, n >= 2, NEW j0 \in Nat, NEW k \in Nat,
         k % n = 0, k >= n * j0, k # n * j0
  PROVE  k >= n * (j0 + 1)
<1>1. PICK q \in Nat : k = n * q
  BY FactorFacts
<1>2. q > j0
  BY <1>1
<1>3. q >= j0 + 1 /\ q - (j0 + 1) \in Nat
  BY <1>2
<1>4. n * (q - (j0 + 1)) >= 0 /\ n * (q - (j0 + 1)) = n * q - n * (j0 + 1)
  BY <1>3
<1> QED
  BY <1>1, <1>4

SieveInv ==
  prog = "sieve.c" =>
    /\ i \in Nat /\ i >= 2 /\ j \in Nat /\ j >= i
    /\ primes \in [0 .. SIEVE_LENGTH - 1 -> {0, 1}]
    /\ Sieved

LEMMA SieveInit == TestInit => SieveInv
<1> SUFFICES ASSUME TestInit, prog = "sieve.c" PROVE SieveInv
  BY DEF SieveInv
<1>1. i = 2 /\ j = 2 /\ primes = [k \in 0 .. SIEVE_LENGTH - 1 |-> 1]
  BY DEF TestInit, SieveArray
<1>2. SIEVE_LENGTH \in Nat
  BY SieveAssumption
<1>3. ASSUME NEW k \in 2 .. SIEVE_LENGTH - 1, NEW m \in 2 .. k - 1, Factor(m, k)
      PROVE  m >= 2 /\ (m = 2 => k >= 2 * 2)
  BY <1>3, <1>2 DEF Factor
<1>4. \A k \in 2 .. SIEVE_LENGTH - 1 : primes[k] = 1
  BY <1>1, <1>2
<1>5. Sieved
  BY <1>1, <1>3, <1>4 DEF Sieved
<1> QED
  BY <1>1, <1>2, <1>5 DEF SieveInv

\* The right-hand side of Sieved: k has no factor below n, and if n is one,
\* k is at least n * m0.
Unstruck(n, m0, k) ==
  \A m \in 2 .. k - 1 : Factor(m, k) => m >= n /\ (m = n => k >= n * m0)

\* Going on to the next number changes nothing, if the multiples of n have
\* been struck out or n has a factor of its own.
LEMMA NextNumber ==
  ASSUME NEW n \in Nat, n >= 2, NEW m0 \in Nat, NEW k \in Nat, k >= 2,
         k < n * m0 \/ \E m \in 2 .. n - 1 : Factor(m, n)
  PROVE  Unstruck(n, m0, k) <=> Unstruck(n + 1, n + 1, k)
<1>1. ASSUME Unstruck(n + 1, n + 1, k) PROVE Unstruck(n, m0, k)
  BY <1>1 DEF Unstruck
<1>2. ASSUME Unstruck(n, m0, k), NEW m \in 2 .. k - 1, Factor(m, k)
      PROVE  m >= n + 1 /\ (m = n + 1 => k >= (n + 1) * (n + 1))
  <2>1. m >= n /\ (m = n => k >= n * m0)
    BY <1>2 DEF Unstruck
  <2>2. m = n + 1 => k >= (n + 1) * (n + 1)
    BY <1>2 DEF Factor
  <2>3. ASSUME m = n PROVE FALSE
    <3>1. PICK r \in 2 .. n - 1 : Factor(r, n)
      BY <2>1, <2>3
    <3>2. r \in Nat /\ r >= 2 /\ r < n /\ r * r <= n /\ n % r = 0
      BY <3>1 DEF Factor
    <3>3. k % n = 0 /\ n < k
      BY <1>2, <2>3 DEF Factor
    <3>4. k % r = 0
      BY <3>2, <3>3, FactorOfFactor
    <3>5. r * r <= k /\ r \in 2 .. k - 1
      BY <3>2, <3>3
    <3>6. Factor(r, k)
      BY <3>4, <3>5 DEF Factor
    <3> QED
      BY <3>2, <3>5, <3>6, <1>2 DEF Unstruck
  <2> QED
    BY <2>1, <2>2, <2>3
<1> QED
  BY <1>1, <1>2 DEF Unstruck

\* Striking out n * m0 removes that number and no other.
LEMMA StrikesOne ==
  ASSUME NEW n \in Nat, n >= 2, NEW m0 \in Nat, m0 >= n, NEW k \in Nat, k >= 2
  PROVE  /\ k # n * m0 => (Unstruck(n, m0, k) <=> Unstruck(n, m0 + 1, k))
         /\ ~Unstruck(n, m0 + 1, n * m0)
<1>1. ASSUME k # n * m0, NEW m \in 2 .. k - 1, Factor(m, k), m = n
      PROVE  k >= n * m0 <=> k >= n * (m0 + 1)
  <2>1. k % n = 0
    BY <1>1 DEF Factor
  <2>2. n * (m0 + 1) = n * m0 + n
    OBVIOUS
  <2>3. k >= n * m0 => k >= n * (m0 + 1)
    BY <1>1, <2>1, NextMultiple
  <2>4. n * m0 \in Nat /\ n * (m0 + 1) \in Nat
    OBVIOUS
  <2> QED
    BY <2>2, <2>3, <2>4
<1>2. ASSUME k # n * m0 PROVE Unstruck(n, m0, k) <=> Unstruck(n, m0 + 1, k)
  BY <1>1, <1>2 DEF Unstruck
<1>3. ~Unstruck(n, m0 + 1, n * m0)
  <2>1. n * n <= n * m0 /\ n < n * m0 /\ n * (m0 + 1) > n * m0
    <3>1. m0 - n \in Nat /\ n * (m0 - n) >= 0 /\ n * (m0 - n) = n * m0 - n * n
      OBVIOUS
    <3>2. n * n >= 2 * n
      OBVIOUS
    <3>3. n * (m0 + 1) = n * m0 + n
      OBVIOUS
    <3> QED
      BY <3>1, <3>2, <3>3
  <2>2. n \in 2 .. n * m0 - 1
    BY <2>1
  <2>3. (n * m0) % n = 0
    BY FactorFacts
  <2>4. Factor(n, n * m0)
    BY <2>1, <2>3 DEF Factor
  <2> QED
    BY <2>1, <2>2, <2>4 DEF Unstruck
<1> QED
  BY <1>2, <1>3

LEMMA SieveStep == SieveInv /\ [TestNext]_testVars => SieveInv'
<1> SUFFICES ASSUME SieveInv, [TestNext]_testVars, prog' = "sieve.c" PROVE SieveInv'
  BY DEF SieveInv
<1>L. SIEVE_LENGTH \in Nat
  BY SieveAssumption
<1>p. prog = "sieve.c"
  BY DEF TestNext, Emulate, BubbleInner, BubbleOuter, Partition, Scan, PlacePivot,
     SortLeft, SortRight, QsortReturn, CheckSorted, SieveOuter, SieveInner, CheckSieve,
     CrcReset, CrcStart, CrcShift, CrcResult, CheckCrc, Loop, testVars
<1>i. /\ i \in Nat /\ i >= 2 /\ j \in Nat /\ j >= i
      /\ primes \in [0 .. SIEVE_LENGTH - 1 -> {0, 1}]
      /\ \A k \in 2 .. SIEVE_LENGTH - 1 : primes[k] = 1 <=> Unstruck(i, j, k)
  BY <1>p DEF SieveInv, Sieved, Unstruck
<1>1. CASE SieveOuter
  <2>1. i' = i + 1 /\ j' = i + 1 /\ primes' = primes
    BY <1>1 DEF SieveOuter
  <2>2. i < SIEVE_LENGTH /\ (primes[i] = 0 \/ i * j >= SIEVE_LENGTH)
    BY <1>1 DEF SieveOuter
  <2>3. CASE primes[i] = 0
    <3>1. i \in 2 .. SIEVE_LENGTH - 1
      BY <2>2, <1>i, <1>L
    <3>2. ~Unstruck(i, j, i)
      BY <3>1, <2>3, <1>i
    <3>3. \E m \in 2 .. i - 1 : Factor(m, i)
      BY <3>2 DEF Unstruck
    <3>4. \A k \in 2 .. SIEVE_LENGTH - 1 : Unstruck(i, j, k) <=> Unstruck(i + 1, i + 1, k)
      BY <3>3, <1>i, <1>L, NextNumber
    <3> QED
      BY <3>4, <1>i, <2>1 DEF SieveInv, Sieved, Unstruck
  <2>4. CASE i * j >= SIEVE_LENGTH
    <3>1. \A k \in 2 .. SIEVE_LENGTH - 1 : k \in Nat /\ k >= 2 /\ k < i * j
      BY <2>4, <1>i, <1>L
    <3>2. \A k \in 2 .. SIEVE_LENGTH - 1 : Unstruck(i, j, k) <=> Unstruck(i + 1, i + 1, k)
      BY <3>1, <1>i, NextNumber
    <3> QED
      BY <3>2, <1>i, <2>1 DEF SieveInv, Sieved, Unstruck
  <2> QED
    BY <2>2, <2>3, <2>4
<1>2. CASE SieveInner
  <2>1. /\ i' = i /\ j' = j + 1 /\ primes' = [primes EXCEPT ![i * j] = 0]
        /\ i * j < SIEVE_LENGTH
    BY <1>2 DEF SieveInner
  <2>2. /\ primes' \in [0 .. SIEVE_LENGTH - 1 -> {0, 1}]
        /\ \A k \in 2 .. SIEVE_LENGTH - 1 : primes'[k] = IF k = i * j THEN 0 ELSE primes[k]
    BY <2>1, <1>i, <1>L
  <2>3. ASSUME NEW k \in 2 .. SIEVE_LENGTH - 1
        PROVE  primes'[k] = 1 <=> Unstruck(i, j + 1, k)
    <3>0. k \in Nat /\ k >= 2
      BY <1>L
    <3>1. CASE k = i * j
      BY <3>0, <3>1, <2>2, <1>i, StrikesOne
    <3>2. CASE k # i * j
      <4>1. Unstruck(i, j, k) <=> Unstruck(i, j + 1, k)
        BY <3>0, <3>2, <1>i, StrikesOne
      <4> QED
        BY <4>1, <3>2, <2>2, <1>i
    <3> QED
      BY <3>1, <3>2
  <2> QED
    BY <2>1, <2>2, <2>3, <1>i DEF SieveInv, Sieved, Unstruck
<1>3. CASE ~SieveOuter /\ ~SieveInner
  <2>1. UNCHANGED <<i, j, primes>>
    BY <1>3, <1>p DEF TestNext, Emulate, BubbleInner, BubbleOuter, Partition, Scan,
       PlacePivot, SortLeft, SortRight, QsortReturn, CheckSorted, CheckSieve, CrcReset,
       CrcStart, CrcShift, CrcResult, CheckCrc, CrcRunning, Running, Loop, testVars, Sort
  <2> QED
    BY <2>1, <1>p, <1>i DEF SieveInv, Sieved, Unstruck
<1> QED
  BY <1>1, <1>2, <1>3

\* The list of primes is right as far as it goes.
HasFactor(k) == \E m \in 2 .. k - 1 : Factor(m, k)

LEMMA GoldenRight ==
  \A k \in 2 .. 49 : k \in golden_prime_vals <=> ~HasFactor(k)
<1>1. ASSUME NEW k \in 2 .. 49, NEW m \in 2 .. k - 1, Factor(m, k)
      PROVE  m \in {2, 3, 4, 5, 6, 7}
  BY <1>1 DEF Factor
<1>2. ASSUME NEW k \in golden_prime_vals, NEW m \in {2, 3, 4, 5, 6, 7}, m * m <= k
      PROVE  k % m # 0
  BY <1>2 DEF golden_prime_vals
<1>3. ASSUME NEW k \in 2 .. 49, k \notin golden_prime_vals
      PROVE  \E m \in {2, 3, 5, 7} : m * m <= k /\ k % m = 0
  BY <1>3 DEF golden_prime_vals
<1>4. ASSUME NEW k \in 2 .. 49, NEW m \in {2, 3, 5, 7}, m * m <= k PROVE m \in 2 .. k - 1
  BY <1>4
<1> QED
  BY <1>1, <1>2, <1>3, <1>4 DEF HasFactor, Factor

\* The outcomes of sieve.c and of the tests of Emulation.
OthersPass == prog \in {"sieve.c", "rv32m"} => outcome # "fail"

LEMMA OthersPassKept ==
  ASSUME SIEVE_LENGTH <= 50, SieveInv, OthersPass, [TestNext]_testVars
  PROVE  OthersPass'
<1>1. CASE CheckSieve
  <2>1. /\ prog = "sieve.c" /\ i >= SIEVE_LENGTH
        /\ outcome' = IF \A k \in 2 .. SIEVE_LENGTH - 1 : primes[k] = golden_primes[k]
                      THEN "success" ELSE "fail"
    BY <1>1 DEF CheckSieve
  <2>2. /\ i \in Nat /\ SIEVE_LENGTH \in Nat
        /\ primes \in [0 .. SIEVE_LENGTH - 1 -> {0, 1}] /\ Sieved
    BY <2>1, SieveAssumption DEF SieveInv
  <2>3. ASSUME NEW k \in 2 .. SIEVE_LENGTH - 1 PROVE primes[k] = golden_primes[k]
    <3>1. k \in 2 .. 49
      BY <2>2
    <3>2. primes[k] = 1 <=> ~HasFactor(k)
      <4>1. \A m \in 2 .. k - 1 : ~(m >= i)
        BY <2>1, <2>2
      <4> QED
        BY <4>1, <2>1, <2>2 DEF Sieved, HasFactor
    <3>3. golden_primes[k] = 1 <=> k \in golden_prime_vals
      BY DEF golden_primes
    <3>4. primes[k] \in {0, 1} /\ golden_primes[k] \in {0, 1}
      BY <2>2 DEF golden_primes
    <3> QED
      BY <3>1, <3>2, <3>3, <3>4, GoldenRight
  <2> QED
    BY <2>1, <2>3 DEF OthersPass
<1>2. CASE ~CheckSieve
  <2>1. prog' = prog
    BY DEF TestNext, Emulate, BubbleInner, BubbleOuter, Partition, Scan, PlacePivot,
       SortLeft, SortRight, QsortReturn, CheckSorted, SieveOuter, SieveInner, CheckSieve,
       CrcReset, CrcStart, CrcShift, CrcResult, CheckCrc, Loop, testVars
  <2>2. prog \in {"sieve.c", "rv32m"} => outcome' = outcome
    BY <1>2 DEF TestNext, Emulate, BubbleInner, BubbleOuter, Partition, Scan, PlacePivot,
       SortLeft, SortRight, QsortReturn, CheckSorted, SieveOuter, SieveInner, CrcReset,
       CrcStart, CrcShift, CrcResult, CheckCrc, Loop, testVars, Sort
  <2> QED
    BY <2>1, <2>2 DEF OthersPass
<1> QED
  BY <1>1, <1>2

-----------------------------------------------------------------------------
(* Words and instructions of crc32.c *)

LEMMA SmallPowers == \A e \in 0 .. 9 : 2 ^ e \in Nat /\ 2 ^ e > 0
<1> DEFINE Fine(e) == 2 ^ e \in Nat /\ 2 ^ e > 0
<1>1. /\ Fine(0) /\ Fine(1) /\ Fine(2) /\ Fine(3) /\ Fine(4)
      /\ Fine(5) /\ Fine(6) /\ Fine(7) /\ Fine(8) /\ Fine(9)
  <2>1. /\ 2^0 = 1 /\ 2^1 = 2 /\ 2^2 = 4 /\ 2^3 = 8 /\ 2^4 = 16
        /\ 2^5 = 32 /\ 2^6 = 64 /\ 2^7 = 128 /\ 2^8 = 256 /\ 2^9 = 512
    OBVIOUS
  <2> QED
    BY <2>1
<1> HIDE DEF Fine
<1>2. \A e \in 0 .. 9 : Fine(e)
  BY <1>1
<1> QED
  BY <1>2 DEF Fine

LEMMA BitOf ==
  ASSUME NEW n \in Nat, NEW e \in 0 .. 9
  PROVE  (n \div 2 ^ e) % 2 \in {0, 1}
<1>1. PICK d \in Nat : d > 0 /\ d = 2 ^ e
  BY SmallPowers
<1>2. PICK x \in Int : x = n \div d
  BY <1>1
<1>3. x % 2 \in {0, 1}
  OBVIOUS
<1> QED
  BY <1>1, <1>2, <1>3

\* The digits that the macros paste together.
LEMMA DigitsFacts ==
  ASSUME NEW width \in 1 .. 10, NEW n \in Nat
  PROVE  /\ Digits(width, n) \in Seq({0, 1}) /\ Len(Digits(width, n)) = width
         /\ Digits(width, n)[width] = n % 2
<1>1. ASSUME NEW k \in 1 .. width PROVE (n \div 2 ^ (width - k)) % 2 \in {0, 1}
  <2>1. width - k \in 0 .. 9
    OBVIOUS
  <2> QED
    BY <2>1, BitOf
<1> DEFINE d == [k \in 1 .. width |-> (n \div 2 ^ (width - k)) % 2]
<1>2. d \in [1 .. width -> {0, 1}]
  BY <1>1
<1>3. d[width] = n % 2
  <2>1. width - width = 0 /\ 2 ^ 0 = 1 /\ n \div 1 = n /\ width \in 1 .. width
    OBVIOUS
  <2>2. d[width] = (n \div 2 ^ (width - width)) % 2
    BY <2>1
  <2> QED
    BY <2>1, <2>2
<1> HIDE DEF d
<1>4. d \in Seq({0, 1}) /\ Len(d) = width
  BY <1>2
<1> QED
  BY <1>3, <1>4 DEF d, Digits

\* What comes out of pasting two of them together.
LEMMA Pasted ==
  ASSUME NEW S, NEW s \in Seq(S), NEW u \in Seq(S)
  PROVE  /\ s \o u \in Seq(S) /\ Len(s \o u) = Len(s) + Len(u)
         /\ \A k \in 1 .. Len(s) : (s \o u)[k] = s[k]
         /\ \A k \in 1 .. Len(u) : (s \o u)[Len(s) + k] = u[k]
BY ConcatProperties

LEMMA PastedOf ==
  ASSUME NEW S, NEW s \in Seq(S), NEW u \in Seq(S), NEW w, w = s \o u
  PROVE  /\ w \in Seq(S) /\ Len(w) = Len(s) + Len(u)
         /\ \A k \in 1 .. Len(s) : w[k] = s[k]
         /\ \A k \in 1 .. Len(u) : w[Len(s) + k] = u[k]
BY Pasted

\* The last digit of funct3, among those of an instruction.
Funct3At(S, w, f7, r2, r1, f3, rd, op) ==
  /\ w \in Seq(S)
  /\ Len(w) = Len(f7) + Len(r2) + Len(r1) + Len(f3) + Len(rd) + Len(op)
  /\ w[Len(f7) + Len(r2) + Len(r1) + Len(f3)] = f3[Len(f3)]

LEMMA Funct3Place ==
  ASSUME NEW S, NEW f7 \in Seq(S), NEW r2 \in Seq(S), NEW r1 \in Seq(S),
         NEW f3 \in Seq(S), NEW rd \in Seq(S), NEW op \in Seq(S), f3 # <<>>
  PROVE  Funct3At(S, BUILD_INSN(op, f7, r2, r1, f3, rd), f7, r2, r1, f3, rd, op)
<1> DEFINE w1 == f7 \o r2
           w2 == w1 \o r1
           w3 == w2 \o f3
           w4 == w3 \o rd
           w5 == w4 \o op
<1>1. BUILD_INSN(op, f7, r2, r1, f3, rd) = w5
  BY DEF BUILD_INSN
<1>2. w1 = f7 \o r2 /\ w2 = w1 \o r1 /\ w3 = w2 \o f3 /\ w4 = w3 \o rd /\ w5 = w4 \o op
  OBVIOUS
<1> HIDE DEF w1, w2, w3, w4, w5
<1>3. w1 \in Seq(S) /\ Len(w1) = Len(f7) + Len(r2)
  BY <1>2, PastedOf
<1>5. w2 \in Seq(S) /\ Len(w2) = Len(w1) + Len(r1)
  BY <1>2, <1>3, PastedOf
<1>7. w3 \in Seq(S) /\ Len(w3) = Len(w2) + Len(f3) /\ \A k \in 1 .. Len(f3) : w3[Len(w2) + k] = f3[k]
  BY <1>2, <1>5, PastedOf, SMTT(30)
<1>8. w3[Len(w3)] = f3[Len(f3)] /\ Len(w3) \in 1 .. Len(w3)
  <2>1. Len(f3) \in 1 .. Len(f3) /\ Len(w2) \in Nat
    BY <1>5
  <2>2. w3[Len(w2) + Len(f3)] = f3[Len(f3)]
    BY <2>1, <1>7
  <2> QED
    BY <2>1, <2>2, <1>7
<1>9. w4 \in Seq(S) /\ Len(w4) = Len(w3) + Len(rd) /\ \A k \in 1 .. Len(w3) : w4[k] = w3[k]
  BY <1>2, <1>7, PastedOf
<1>10. w5 \in Seq(S) /\ Len(w5) = Len(w4) + Len(op) /\ \A k \in 1 .. Len(w4) : w5[k] = w4[k]
  <2>1. w4 \in Seq(S) /\ w5 = w4 \o op
    BY <1>2, <1>9
  <2> QED
    BY <2>1, PastedOf
<1>11. w5[Len(w3)] = f3[Len(f3)]
  <2>1. Len(w3) \in 1 .. Len(w4)
    BY <1>7, <1>8, <1>9
  <2> QED
    BY <2>1, <1>8, <1>9, <1>10
<1>12. Len(w3) = Len(f7) + Len(r2) + Len(r1) + Len(f3)
  BY <1>3, <1>5, <1>7
<1>13. Len(w5) = Len(f7) + Len(r2) + Len(r1) + Len(f3) + Len(rd) + Len(op)
  BY <1>3, <1>5, <1>7, <1>9, <1>10
<1> QED
  BY <1>1, <1>10, <1>11, <1>12, <1>13 DEF Funct3At

\* The last digit of a field that is pasted to the first ones.
LEMMA FieldPlace ==
  ASSUME NEW S, NEW w \in Seq(S), NEW a \in Nat, NEW b \in Nat, NEW c \in Nat,
         1 <= a, a <= Len(w), 1 <= b, b <= c, c <= Len(w)
  PROVE  (SubSeq(w, 1, a) \o SubSeq(w, b, c))[a + (c - b + 1)] = w[c]
<1>1. \A k \in 1 .. Len(w) : w[k] \in S
  OBVIOUS
<1>2. PICK s : s = SubSeq(w, 1, a)
  OBVIOUS
<1>3. PICK u : u = SubSeq(w, b, c)
  OBVIOUS
<1>4. s \in Seq(S) /\ Len(s) = a
  <2>1. \A k \in 1 .. a : w[k] \in S
    BY <1>1
  <2>2. SubSeq(w, 1, a) \in Seq(S) /\ Len(SubSeq(w, 1, a)) = IF 1 <= a THEN a - 1 + 1 ELSE 0
    BY <2>1, SubSeqProperties
  <2> QED
    BY <2>2, <1>2
<1>5. u \in Seq(S) /\ Len(u) = c - b + 1 /\ u[c - b + 1] = w[c]
  <2>1. \A k \in b .. c : w[k] \in S
    BY <1>1
  <2>2. /\ SubSeq(w, b, c) \in Seq(S)
        /\ Len(SubSeq(w, b, c)) = IF b <= c THEN c - b + 1 ELSE 0
        /\ \A k \in 1 .. c - b + 1 : SubSeq(w, b, c)[k] = w[b + k - 1]
    BY <2>1, SubSeqProperties
  <2>3. c - b + 1 \in 1 .. c - b + 1 /\ b + (c - b + 1) - 1 = c
    OBVIOUS
  <2>4. SubSeq(w, b, c)[c - b + 1] = w[c]
    BY <2>2, <2>3
  <2> QED
    BY <2>2, <2>4, <1>3
<1>6. \A k \in 1 .. Len(u) : (s \o u)[Len(s) + k] = u[k]
  BY <1>4, <1>5, Pasted
<1>7. c - b + 1 \in 1 .. Len(u)
  BY <1>5
<1>8. (s \o u)[a + (c - b + 1)] = w[c]
  BY <1>4, <1>5, <1>6, <1>7
<1> QED
  BY <1>2, <1>3, <1>8

\* The reset is no instruction that adds a byte.
LEMMA CrcResetNotByte == i = 0 => ~NewByte(CrcInsn)
<1> SUFFICES ASSUME i = 0, NewByte(CrcInsn) PROVE FALSE
  OBVIOUS
<1> DEFINE w == Autogen(0)
           S == {0, 1}
<1>1. PICK f7 \in Seq(S), ra \in Seq(S), rb \in Seq(S), f3 \in Seq(S), rd \in Seq(S),
           op \in Seq(S) :
        /\ w = BUILD_INSN(op, f7, ra, rb, f3, rd)
        /\ Len(f7) = 7 /\ Len(ra) = 5 /\ Len(rb) = 5 /\ Len(f3) = 3 /\ Len(rd) = 5
        /\ Len(op) = 7 /\ f3[3] = 0 /\ f3 # <<>>
  <2>1. w = BUILD_INSN(Digits(7, 11), Digits(7, 0), Digits(5, 5), Digits(5, 6), Digits(3, 0), Digits(5, 7))
        \/ w = BUILD_INSN(Digits(7, 11), Digits(7, 0), Digits(5, 6), Digits(5, 5), Digits(3, 0), Digits(5, 7))
    BY DEF Autogen, INSN_INSERT_R_TYPE, REG
  <2>2. Digits(3, 0)[3] = 0
    <3>1. Digits(3, 0)[3] = 0 % 2
      BY DigitsFacts
    <3> QED
      BY <3>1
  <2>3. /\ Digits(7, 0) \in Seq(S) /\ Len(Digits(7, 0)) = 7
        /\ Digits(7, 11) \in Seq(S) /\ Len(Digits(7, 11)) = 7
        /\ Digits(5, 5) \in Seq(S) /\ Len(Digits(5, 5)) = 5
        /\ Digits(5, 6) \in Seq(S) /\ Len(Digits(5, 6)) = 5
        /\ Digits(5, 7) \in Seq(S) /\ Len(Digits(5, 7)) = 5
        /\ Digits(3, 0) \in Seq(S) /\ Len(Digits(3, 0)) = 3
    BY DigitsFacts
  <2>4. \A s : Len(s) = 3 => s # <<>>
    <3>1. Len(<<>>) = 0 /\ 0 # 3
      OBVIOUS
    <3> QED
      BY <3>1, Zenon
  <2> HIDE DEF w, S
  <2> QED
    BY <2>1, <2>2, <2>3, <2>4, Zenon
<1>2. Funct10(w) = Digits(10, 1)
  BY DEF NewByte, CrcInsn
<1> HIDE DEF w, S
<1>3. w = BUILD_INSN(op, f7, ra, rb, f3, rd) /\ f3 # <<>>
  BY <1>1, Zenon
<1>4. /\ w \in Seq(S)
      /\ Len(w) = Len(f7) + Len(ra) + Len(rb) + Len(f3) + Len(rd) + Len(op)
      /\ w[Len(f7) + Len(ra) + Len(rb) + Len(f3)] = f3[Len(f3)]
  <2>1. Funct3At(S, w, f7, ra, rb, f3, rd, op)
    BY <1>3, Funct3Place, Zenon
  <2> QED
    BY <2>1 DEF Funct3At
<1>5. /\ Len(f7) + Len(ra) + Len(rb) + Len(f3) = 20
      /\ Len(f7) + Len(ra) + Len(rb) + Len(f3) + Len(rd) + Len(op) = 32
  <2>1. /\ Len(f7) = 7 /\ Len(ra) = 5 /\ Len(rb) = 5 /\ Len(f3) = 3 /\ Len(rd) = 5
        /\ Len(op) = 7
    BY <1>1, Zenon
  <2> QED
    BY <2>1
<1>6. Len(w) = 32 /\ w[20] = 0
  BY <1>1, <1>4, <1>5, Zenon
<1>7. /\ 7 \in Nat /\ 18 \in Nat /\ 20 \in Nat /\ 1 <= 7 /\ 1 <= 18 /\ 18 <= 20
      /\ 7 <= 32 /\ 20 <= 32 /\ 7 + (20 - 18 + 1) = 10
  OBVIOUS
<1>8. (SubSeq(w, 1, 7) \o SubSeq(w, 18, 20))[7 + (20 - 18 + 1)] = w[20]
  <2>1. w \in Seq(S) /\ 7 <= Len(w) /\ 20 <= Len(w)
    BY <1>4, <1>6, <1>7, Zenon
  <2> QED
    BY <2>1, <1>7, FieldPlace, ZenonT(30)
<1>9. Funct10(w)[10] = 0
  BY <1>6, <1>7, <1>8, Zenon DEF Funct10
<1>10. Digits(10, 1)[10] = 1 % 2
  BY DigitsFacts, SMTT(30)
<1> QED
  BY <1>2, <1>9, <1>10

-----------------------------------------------------------------------------
(* Types *)

CallRecord == [lb : Nat, ub : Int, q : Nat, pc : Pc]

\* The variables of the extension.
CrcTyped ==
  /\ regfile \in [{"t0", "t1", "t2"} -> [Bits -> {0, 1}]]
  /\ crc \in [Bits -> {0, 1}] /\ count \in 0 .. 8

\* The variables of the sorting tests.
SortTyped ==
  /\ start \in [Index -> Values]
  /\ frames \in Seq(CallRecord)
  /\ pivot \in Values /\ currPtr \in Nat /\ smallPtr \in Nat \cup {-1}

LoopTyped ==
  /\ prog \in {"rv32m", "sieve.c", "crc32.c"} \cup Sort
  /\ outcome \in {"running", "success", "fail"}
  /\ i \in Nat /\ j \in Nat
  /\ primes \in [0 .. SIEVE_LENGTH - 1 -> {0, 1}]

LEMMA WordFacts ==
  /\ \A n \in Nat : FromByte(n) \in [Bits -> {0, 1}]
  /\ AllOnes \in [Bits -> {0, 1}]
  /\ \A x, y \in [Bits -> {0, 1}] : Xor(x, y) \in [Bits -> {0, 1}]
  /\ \A x \in [Bits -> {0, 1}] : ShiftRight(x) \in [Bits -> {0, 1}]
  /\ \A x \in [Bits -> {0, 1}] : Not(x) \in [Bits -> {0, 1}]
  /\ POLY_REV \in [Bits -> {0, 1}]
<1>1. ASSUME NEW x \in Int PROVE x % 2 \in {0, 1}
  OBVIOUS
<1>2. ASSUME NEW n \in Nat PROVE FromByte(n) \in [Bits -> {0, 1}]
  <2>1. ASSUME NEW b \in Bits, b < 8 PROVE (n \div 2 ^ b) % 2 \in {0, 1}
    <3>1. b \in 0 .. 9
      BY <2>1 DEF Bits
    <3>3. PICK d \in Nat : d > 0 /\ d = 2^b
      BY <3>1, SmallPowers
    <3>4. n \div d \in Int
      BY <3>3
    <3> QED
      BY <3>3, <3>4, <1>1
  <2> QED
    BY <2>1 DEF FromByte
<1>3. AllOnes \in [Bits -> {0, 1}]
  BY DEF AllOnes
<1>4. ASSUME NEW x \in [Bits -> {0, 1}], NEW y \in [Bits -> {0, 1}]
      PROVE  Xor(x, y) \in [Bits -> {0, 1}]
  <2>1. ASSUME NEW b \in Bits PROVE (x[b] + y[b]) % 2 \in {0, 1}
    BY <1>1
  <2> QED
    BY <2>1 DEF Xor
<1>5. ASSUME NEW x \in [Bits -> {0, 1}]
      PROVE  ShiftRight(x) \in [Bits -> {0, 1}] /\ Not(x) \in [Bits -> {0, 1}]
  <2>1. ASSUME NEW b \in Bits, b # 31 PROVE x[b + 1] \in {0, 1}
    BY <2>1 DEF Bits
  <2>2. ASSUME NEW b \in Bits PROVE 1 - x[b] \in {0, 1}
    OBVIOUS
  <2> QED
    BY <2>1, <2>2 DEF ShiftRight, Not
<1>6. POLY_REV \in [Bits -> {0, 1}]
  <2> DEFINE h == <<14, 13, 11, 8, 8, 3, 2, 0>>
  <2>1. ASSUME NEW b \in Bits PROVE (h[8 - (b \div 4)] \div 2 ^ (b % 4)) % 2 \in {0, 1}
    <3>1. 8 - (b \div 4) \in 1 .. 8 /\ b % 4 \in 0 .. 9
      BY DEF Bits
    <3>2. \A n \in 1 .. 8 : h[n] \in Nat
      OBVIOUS
    <3>4. PICK d \in Nat : d > 0 /\ d = 2 ^ (b % 4)
      BY <3>1, SmallPowers
    <3>5. PICK m \in Nat : m = h[8 - (b \div 4)]
      BY <3>1, <3>2
    <3>6. m \div d \in Int
      BY <3>4
    <3> HIDE DEF h
    <3> QED
      BY <3>4, <3>5, <3>6, <1>1
  <2> QED
    BY <2>1 DEF POLY_REV, FromHex
<1> QED
  BY <1>2, <1>3, <1>4, <1>5, <1>6

LEMMA TypedInit == TestInit => CrcTyped /\ SortTyped /\ LoopTyped
<1> SUFFICES ASSUME TestInit PROVE CrcTyped /\ SortTyped /\ LoopTyped
  OBVIOUS
<1>1. CrcTyped
  BY WordFacts DEF TestInit, CrcTyped
<1>2. frames \in Seq(CallRecord)
  <2>1. Frame(0, ARR_LENGTH - 1) \in CallRecord
    BY LengthAssumption DEF Frame, CallRecord, Pc
  <2> HIDE DEF Frame
  <2> QED
    BY <2>1 DEF TestInit
<1>3. pivot \in Values
  BY ValuesAssumption DEF TestInit
<1> QED
  BY <1>1, <1>2, <1>3 DEF TestInit, SortTyped, LoopTyped, SieveArray

LEMMA CrcTypedKept ==
  ASSUME CrcTyped, LoopTyped, [TestNext]_testVars
  PROVE  CrcTyped'
<1> DEFINE B == [Bits -> {0, 1}]
<1>0. regfile \in [{"t0", "t1", "t2"} -> B] /\ crc \in B /\ count \in 0 .. 8
  BY DEF CrcTyped
<1>1. CASE CrcReset
  BY <1>0, <1>1, WordFacts DEF CrcReset, CrcTyped
<1>2. CASE CrcStart
  <2>1. data[i] \in Nat
    <3>1. i \in 1 .. Len(data)
      <4>1. i \in Nat /\ i <= Len(data)
        BY <1>2 DEF CrcStart, CrcRunning, LoopTyped
      <4>2. i # 0
        BY <1>2, CrcResetNotByte DEF CrcStart
      <4> QED
        BY <4>1, <4>2 DEF data
    <3> QED
      BY <3>1 DEF data
  <2>2. PICK byte \in B : byte = FromByte(data[i])
    BY <2>1, WordFacts
  <2>3. regfile' = [regfile EXCEPT !.t0 = byte, !.t1 = byte]
    BY <1>2, <2>2 DEF CrcStart
  <2>4. regfile' \in [{"t0", "t1", "t2"} -> B]
    BY <2>3, <1>0
  <2>5. \E in_byte \in B : crc' = Xor(crc, in_byte)
    <3>1. crc' \in {Xor(crc, regfile'.t0), Xor(crc, regfile'.t1), Xor(crc, regfile'.t2)}
      BY <1>2 DEF CrcStart
    <3>2. regfile'.t0 \in B /\ regfile'.t1 \in B /\ regfile'.t2 \in B
      BY <2>4
    <3> QED
      BY <3>1, <3>2
  <2>6. crc' \in B
    BY <2>5, <1>0, WordFacts
  <2>7. count' = 0
    BY <1>2 DEF CrcStart
  <2> QED
    BY <2>4, <2>6, <2>7 DEF CrcTyped
<1>3. CASE CrcShift
  <2>1. next_crc \in B
    BY <1>0, WordFacts DEF next_crc
  <2> QED
    BY <2>1, <1>0, <1>3 DEF CrcShift, CrcDone, CrcTyped
<1>4. CASE CrcResult
  BY <1>0, <1>4, WordFacts DEF CrcResult, CrcTyped
<1>5. CASE UNCHANGED extension
  BY <1>5 DEF CrcTyped, extension
<1> QED
  BY <1>1, <1>2, <1>3, <1>4, <1>5
  DEF TestNext, Emulate, BubbleInner, BubbleOuter, Partition, Scan, PlacePivot,
     SortLeft, SortRight, QsortReturn, CheckSorted, SieveOuter, SieveInner, CheckSieve,
     CheckCrc, Loop, testVars

LEMMA LoopTypedKept ==
  ASSUME LoopTyped, [TestNext]_testVars
  PROVE  LoopTyped'
<1>1. ASSUME NEW k PROVE [primes EXCEPT ![k] = 0] \in [0 .. SIEVE_LENGTH - 1 -> {0, 1}]
  BY DEF LoopTyped
<1> QED
  BY <1>1 DEF LoopTyped, TestNext, Emulate, BubbleInner, BubbleOuter, Partition, Scan,
     PlacePivot, SortLeft, SortRight, QsortReturn, CheckSorted, SieveOuter, SieveInner,
     CheckSieve, CrcReset, CrcStart, CrcShift, CrcResult, CheckCrc, Loop, testVars

\* What a call may do to the stack, type by type.
LEMMA StackTyped ==
  ASSUME NEW s \in Seq(CallRecord), s # <<>>
  PROVE  /\ Len(s) \in 1 .. Len(s) /\ s[Len(s)] \in CallRecord
         /\ \A pc \in Pc : [s EXCEPT ![Len(s)].pc = pc] \in Seq(CallRecord)
         /\ \A q \in Nat, pc \in Pc :
              [s EXCEPT ![Len(s)].q = q, ![Len(s)].pc = pc] \in Seq(CallRecord)
         /\ SubSeq(s, 1, Len(s) - 1) \in Seq(CallRecord)
<1>1. Len(s) \in Nat /\ Len(s) >= 1 /\ Len(s) \in 1 .. Len(s)
  OBVIOUS
<1>2. s[Len(s)] \in CallRecord
  BY <1>1
<1>3. ASSUME NEW f \in CallRecord PROVE [s EXCEPT ![Len(s)] = f] \in Seq(CallRecord)
  BY <1>1
<1>4. ASSUME NEW pc \in Pc PROVE [s EXCEPT ![Len(s)].pc = pc] \in Seq(CallRecord)
  <2>1. [s[Len(s)] EXCEPT !.pc = pc] \in CallRecord
    BY <1>2 DEF CallRecord
  <2> QED
    BY <2>1, <1>3
<1>5. ASSUME NEW q \in Nat, NEW pc \in Pc
      PROVE  [s EXCEPT ![Len(s)].q = q, ![Len(s)].pc = pc] \in Seq(CallRecord)
  <2>1. [[s[Len(s)] EXCEPT !.q = q] EXCEPT !.pc = pc] \in CallRecord
    BY <1>2 DEF CallRecord
  <2>2. [s EXCEPT ![Len(s)].q = q, ![Len(s)].pc = pc]
          = [s EXCEPT ![Len(s)] = [[s[Len(s)] EXCEPT !.q = q] EXCEPT !.pc = pc]]
    BY <1>1
  <2> QED
    BY <2>1, <2>2, <1>3
<1>6. SubSeq(s, 1, Len(s) - 1) \in Seq(CallRecord)
  BY <1>1, FrontFacts
<1> QED
  BY <1>1, <1>2, <1>4, <1>5, <1>6

LEMMA SortTypedKept ==
  ASSUME SortTyped, LoopTyped, BubbleInv, QuickInv, PermInv, [TestNext]_testVars
  PROVE  SortTyped'
<1>0. /\ start \in [Index -> Values] /\ frames \in Seq(CallRecord)
      /\ pivot \in Values /\ currPtr \in Nat /\ smallPtr \in Nat \cup {-1}
      /\ start' = start
  BY StepSwaps DEF SortTyped
<1>t. ASSUME NEW pc \in Pc, Running(pc)
      PROVE  /\ frames # <<>> /\ Top \in CallRecord /\ Top.pc = pc
             /\ Top.lb \in Nat /\ Top.ub \in Int /\ Top.q \in Nat
             /\ \A p \in Pc : TopAt(p) \in Seq(CallRecord)
  <2>1. frames # <<>> /\ Top.pc = pc
    BY <1>t DEF Running
  <2>2. Top \in CallRecord /\ \A p \in Pc : TopAt(p) \in Seq(CallRecord)
    BY <2>1, <1>0, StackTyped DEF Top, TopAt
  <2> QED
    BY <2>1, <2>2 DEF CallRecord
<1>f. \A lo \in Nat, hi \in Int : Frame(lo, hi) \in CallRecord
  BY DEF Frame, CallRecord, Pc
<1>p. \A pc : pc \in {"entry", "scan", "left", "right", "exit"} => pc \in Pc
  BY DEF Pc
<1>1. CASE Partition
  <2>1. /\ Running("entry") /\ Top.lb < Top.ub
        /\ pivot' = arr[PivotIndex(Top.lb, Top.ub)]
        /\ currPtr' = Top.lb /\ smallPtr' = Top.lb - 1 /\ frames' = TopAt("scan")
    BY <1>1 DEF Partition
  <2>2. Calls /\ ArrayOK /\ frames # <<>>
    BY <2>1 DEF Running, QuickInv
  <2>3. /\ Top.lb \in Int /\ Top.ub \in Int /\ 0 <= Top.lb /\ Top.ub <= ARR_LENGTH - 1
    BY <2>2, TopFacts, CallFacts DEF Shaped
  <2>4. PivotIndex(Top.lb, Top.ub) \in Index
    BY <2>1, <2>3, PivotFacts
  <2>5. pivot' \in Values
    BY <2>1, <2>2, <2>4 DEF ArrayOK
  <2>6. frames' \in Seq(CallRecord) /\ Top.lb \in Nat
    BY <2>1, <1>t, <1>p
  <2>7. smallPtr' \in Nat \cup {-1}
    BY <2>1, <2>6
  <2> QED
    BY <1>0, <2>1, <2>5, <2>6, <2>7 DEF SortTyped
<1>2. CASE Scan
  BY <1>0, <1>2 DEF Scan, SortTyped
<1>3. CASE PlacePivot
  <2>1. /\ Running("scan") /\ smallPtr' = smallPtr + 1
        /\ frames' = [frames EXCEPT ![Len(frames)].q = smallPtr + 1,
                                    ![Len(frames)].pc = "left"]
        /\ pivot' = pivot /\ currPtr' = currPtr
    BY <1>3 DEF PlacePivot
  <2>2. smallPtr + 1 \in Nat
    BY <1>0
  <2>3. frames' \in Seq(CallRecord)
    BY <2>1, <2>2, <1>0, <1>p, <1>t, StackTyped
  <2> QED
    BY <1>0, <2>1, <2>2, <2>3 DEF SortTyped
<1>4. CASE SortLeft
  <2>1. Running("left") /\ frames' = Append(TopAt("right"), Frame(Top.lb, Top.q - 1))
    BY <1>4 DEF SortLeft
  <2>2. TopAt("right") \in Seq(CallRecord) /\ Frame(Top.lb, Top.q - 1) \in CallRecord
    BY <2>1, <1>t, <1>f, <1>p
  <2>3. frames' \in Seq(CallRecord)
    BY <2>1, <2>2
  <2> QED
    BY <1>0, <1>4, <2>3 DEF SortLeft, SortTyped
<1>5. CASE SortRight
  <2>1. Running("right") /\ frames' = Append(TopAt("exit"), Frame(Top.q + 1, Top.ub))
    BY <1>5 DEF SortRight
  <2>2. TopAt("exit") \in Seq(CallRecord) /\ Frame(Top.q + 1, Top.ub) \in CallRecord
    BY <2>1, <1>t, <1>f, <1>p
  <2>3. frames' \in Seq(CallRecord)
    BY <2>1, <2>2
  <2> QED
    BY <1>0, <1>5, <2>3 DEF SortRight, SortTyped
<1>6. CASE QsortReturn
  <2>1. frames # <<>> /\ frames' = SubSeq(frames, 1, Len(frames) - 1)
    BY <1>6, ReturnFacts
  <2>2. frames' \in Seq(CallRecord)
    BY <2>1, <1>0, StackTyped
  <2> QED
    BY <1>0, <1>6, <2>2 DEF QsortReturn, SortTyped
<1>7. CASE UNCHANGED <<frames, pivot, currPtr, smallPtr>>
  BY <1>0, <1>7 DEF SortTyped
<1> QED
  BY <1>1, <1>2, <1>3, <1>4, <1>5, <1>6, <1>7
  DEF TestNext, Emulate, BubbleInner, BubbleOuter, CheckSorted, SieveOuter, SieveInner,
     CheckSieve, CrcReset, CrcStart, CrcShift, CrcResult, CheckCrc, Loop, testVars, sorting

-----------------------------------------------------------------------------
(* Theorems *)

(***************************************************************************)
(* For arrays of every length and contents: the passes of bubble.c leave   *)
(* the greatest elements in order at the end (bubble.c:61).                *)
(***************************************************************************)
THEOREM BubbleTailHolds == TestSpec => []BubbleTail
<1>1. BubbleInv => BubbleTail
  BY DEF BubbleInv, BubbleTail
<1> QED
  BY <1>1, BubbleInit, BubbleStep, PTL DEF TestSpec

(***************************************************************************)
(* For arrays of every length and contents: no call of qsort moves an      *)
(* element across a pivot that is in place, none leaves the array, and     *)
(* they are never nested deeper than the array is long (quicksort.c:60).   *)
(***************************************************************************)
THEOREM PartitionedHolds == TestSpec => []Partitioned
BY QuickInit, QuickStep, NoCallsKept, QuickPartitioned, PTL DEF TestSpec

(***************************************************************************)
(* For arrays of every length and contents: neither sorting test ends in   *)
(* its TEST_FINISH_FAIL (bubble.c:69, quicksort.c:55).                     *)
(***************************************************************************)
THEOREM SortsPass == TestSpec => [](prog \in Sort => outcome # "fail")
<1>1. BubbleInv /\ QuickInv => (prog \in Sort => outcome # "fail")
  BY DEF BubbleInv, QuickInv, Sort
<1> QED
  BY <1>1, BubbleInit, BubbleStep, QuickInit, QuickStep, PTL DEF TestSpec

(***************************************************************************)
(* For arrays of every length and contents: no exchange of bubble.c or     *)
(* quicksort.c loses or duplicates an element (quicksort.c:107).           *)
(***************************************************************************)
THEOREM PermutedHolds == TestSpec => []Permuted
<1>1. PermInv => Permuted
  BY DEF PermInv
<1> QED
  BY <1>1, PermInit, PermStep, BubbleInit, BubbleStep, QuickInit, QuickStep, PTL
  DEF TestSpec

(***************************************************************************)
(* For words of every width: what Emulation_proofs shows of the handler    *)
(* holds among the other tests as well (trap.S:112, trap.c:162).           *)
(***************************************************************************)
THEOREM TestsEmulated == TestSpec => Emulated /\ []LongDivision
BY TestsSafe, EmulatedSafe, LongDivisionSafe, PTL

(***************************************************************************)
(* The variables of every test keep their types, for arrays and words of   *)
(* every size: the pointers of partition stay above -1 and the count of    *)
(* the crc32 extension within its four bits (quicksort.c:86,               *)
(* crc32_execute.sv:62).                                                   *)
(***************************************************************************)
THEOREM TestTypesCorrect == TestSpec => []TestTypeOK
<1> DEFINE Typed == CrcTyped /\ SortTyped /\ LoopTyped
<1>1. TestInit => Typed
  BY TypedInit
<1>2. Typed /\ BubbleInv /\ QuickInv /\ PermInv /\ [TestNext]_testVars => Typed'
  BY CrcTypedKept, SortTypedKept, LoopTypedKept
<1>3. IInv /\ Typed /\ PermInv => TestTypeOK
  BY DEF IInv, CrcTyped, SortTyped, LoopTyped, PermInv, ArrayOK, CallRecord, Pc, TestTypeOK
<1>4. TestSpec => []IInv
  BY TestsSafe, InvHolds, PTL
<1> HIDE DEF Typed
<1> QED
  BY <1>1, <1>2, <1>3, <1>4, PermInit, PermStep, BubbleInit, BubbleStep, QuickInit,
     QuickStep, PTL DEF TestSpec

(***************************************************************************)
(* For arrays of every length: while the multiples of i are struck out,    *)
(* the marked numbers are those without a smaller factor (sieve.c:44).     *)
(***************************************************************************)
THEOREM SievedHolds == TestSpec => []Sieved
<1>1. SieveInv => Sieved
  BY DEF SieveInv, Sieved
<1> QED
  BY <1>1, SieveInit, SieveStep, PTL DEF TestSpec

(***************************************************************************)
(* With an array no longer than the list of primes it is compared with,    *)
(* and words that can hold the operands of the divisions: no test but that *)
(* of the crc32 extension, which computes one number, can reach            *)
(* TEST_FINISH_FAIL (sieve.c:73, div.c:36, rem.c:35, mul.c:41).            *)
(***************************************************************************)
THEOREM TestsPassBut ==
  ASSUME SIEVE_LENGTH <= 50, Half > 639
  PROVE  TestSpec => [](prog # "crc32.c" => TestsPass)
<1>1. TestSpec => [](verdict # "fail")
  BY TestsSafe, PassesSafe, PTL
<1>2. TestInit => OthersPass
  BY DEF TestInit, OthersPass
<1>3. SieveInv /\ OthersPass /\ [TestNext]_testVars => OthersPass'
  BY OthersPassKept
<1>4. BubbleInv /\ QuickInv /\ OthersPass /\ LoopTyped /\ verdict # "fail"
        => (prog # "crc32.c" => TestsPass)
  BY DEF BubbleInv, QuickInv, OthersPass, LoopTyped, Sort, TestsPass
<1>5. LoopTyped /\ [TestNext]_testVars => LoopTyped'
  BY LoopTypedKept
<1> QED
  BY <1>1, <1>2, <1>3, <1>4, <1>5, TypedInit, BubbleInit, BubbleStep, QuickInit, QuickStep,
     SieveInit, SieveStep, PTL DEF TestSpec
===============================================================================
