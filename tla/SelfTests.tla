------------------------------ MODULE SelfTests ------------------------------
(***************************************************************************)
(* The C self tests (verification/c-tests).  bubble.c, quicksort.c and     *)
(* sieve.c compute something with loops and recursion and compare it with  *)
(* what must come out; crc32.c drives the crc32 extension with a custom    *)
(* instruction that a macro of the firmware assembles; div.c, rem.c and    *)
(* mul.c reach the trap handler of Emulation.  One test is built into a    *)
(* program and run; prog says which.                                       *)
(*                                                                         *)
(* The sorting tests fill their array from a generator; here it may hold   *)
(* any values.  One step is one pass of an inner loop, one call, or one    *)
(* clock cycle of the extension.                                           *)
(***************************************************************************)
EXTENDS Emulation, FiniteSets

CONSTANTS
  ARR_LENGTH,    \* 100 in the code
  Values,        \* what the array may hold
  SIEVE_LENGTH   \* 50 in the code

ASSUME LengthAssumption == ARR_LENGTH \in Nat \ {0}
ASSUME ValuesAssumption == Values \subseteq Int /\ Values # {}
ASSUME SieveAssumption == SIEVE_LENGTH \in Nat /\ SIEVE_LENGTH > 2

VARIABLES
  prog,     \* the test that runs, "rv32m" for those of Emulation
  outcome,  \* of the other tests: "running", "success" or "fail"
  arr,      \* the array that is sorted
  start,    \* its contents before
  i, j,     \* the loop variables of bubble.c, sieve.c and crc32.c
  frames,   \* the calls of qsort that have not returned, the last one on top
  pivot, currPtr, smallPtr,  \* the variables of partition
  primes,   \* the array of sieve.c
  regfile,  \* t0, t1 and t2 of crc32.c
  crc,      \* curr_crc of the extension, bit by bit
  count     \* its count of shifts

sorting == <<arr, start, frames, pivot, currPtr, smallPtr>>
extension == <<regfile, crc, count>>
testVars == <<vars, prog, outcome, i, j, sorting, primes, extension>>

Index == 0 .. ARR_LENGTH - 1
Sort == {"bubble.c", "quicksort.c"}

swap(x, y, a) == [a EXCEPT ![x] = a[y], ![y] = a[x]]

-----------------------------------------------------------------------------
(* bubble.c                                                                *)

\* The bound of the inner loop.
BubbleLast == ARR_LENGTH - i - 1

\* Mutant: >= in place of >, the other way around.
BubbleDescends ==
  /\ prog = "bubble.c" /\ outcome = "running"
  /\ i < ARR_LENGTH - 1 /\ j < BubbleLast
  /\ arr' = IF arr[j] < arr[j + 1] THEN swap(j, j + 1, arr) ELSE arr
  /\ j' = j + 1
  /\ UNCHANGED <<vars, prog, outcome, i, start, frames, pivot, currPtr,
                 smallPtr, primes, extension>>

BubbleInner ==
  /\ prog = "bubble.c" /\ outcome = "running"
  /\ i < ARR_LENGTH - 1 /\ j < BubbleLast
  /\ arr' = IF arr[j] > arr[j + 1] THEN swap(j, j + 1, arr) ELSE arr
  /\ j' = j + 1
  /\ UNCHANGED <<vars, prog, outcome, i, start, frames, pivot, currPtr,
                 smallPtr, primes, extension>>

BubbleOuter ==
  /\ prog = "bubble.c" /\ outcome = "running"
  /\ i < ARR_LENGTH - 1 /\ j >= BubbleLast
  /\ i' = i + 1 /\ j' = 0
  /\ UNCHANGED <<vars, prog, outcome, sorting, primes, extension>>

\* The loop at the end of both mains that looks for an inversion.
InOrderArray == \A k \in 0 .. ARR_LENGTH - 2 : arr[k] <= arr[k + 1]
SortEnds == IF prog = "bubble.c" THEN i >= ARR_LENGTH - 1 ELSE frames = <<>>
CheckSorted ==
  /\ prog \in Sort /\ outcome = "running" /\ SortEnds
  /\ outcome' = IF InOrderArray THEN "success" ELSE "fail"
  /\ UNCHANGED <<vars, prog, i, j, sorting, primes, extension>>

-----------------------------------------------------------------------------
(* quicksort.c: a frame holds the arguments and q of a call of qsort, and  *)
(* which call it makes next.                                               *)

Frame(lb, ub) == [lb |-> lb, ub |-> ub, q |-> lb, pc |-> "entry"]
Top == frames[Len(frames)]
Caller == SubSeq(frames, 1, Len(frames) - 1)
Running(pc) == /\ prog = "quicksort.c" /\ outcome = "running"
               /\ frames # <<>> /\ Top.pc = pc
TopAt(pc) == [frames EXCEPT ![Len(frames)].pc = pc]

\* The element that partition exchanges with the last one before it starts.
PivotIndex(lb, ub) ==
  LET mid == (lb + ub) \div 2
  IN IF arr[lb] < arr[ub]
     THEN IF arr[lb] > arr[mid] THEN lb
          ELSE IF arr[ub] > arr[mid] THEN mid ELSE ub
     ELSE IF arr[ub] < arr[mid] THEN mid
          ELSE IF arr[lb] < arr[mid] THEN lb ELSE ub

\* qsort calls partition, which chooses its pivot.
Partition ==
  /\ Running("entry") /\ Top.lb < Top.ub
  /\ LET p == PivotIndex(Top.lb, Top.ub)
     IN arr' = swap(p, Top.ub, arr) /\ pivot' = arr[p]
  /\ currPtr' = Top.lb
  /\ smallPtr' = Top.lb - 1
  /\ frames' = TopAt("scan")
  /\ UNCHANGED <<vars, prog, outcome, i, j, start, primes, extension>>

\* Mutant: smallPtr moves on after the exchange.
ScanEarlySwap ==
  /\ Running("scan") /\ currPtr < Top.ub
  /\ IF arr[currPtr] <= pivot
     THEN /\ smallPtr' = smallPtr + 1
          /\ arr' = IF smallPtr < Top.lb THEN arr
                    ELSE swap(smallPtr, currPtr, arr)
     ELSE UNCHANGED <<smallPtr, arr>>
  /\ currPtr' = currPtr + 1
  /\ UNCHANGED <<vars, prog, outcome, i, j, start, frames, pivot, primes,
                 extension>>

\* Mutant: the exchange overwrites an element.
ScanLoses ==
  /\ Running("scan") /\ currPtr < Top.ub
  /\ IF arr[currPtr] <= pivot
     THEN /\ smallPtr' = smallPtr + 1
          /\ arr' = [arr EXCEPT ![smallPtr + 1] = arr[currPtr]]
     ELSE UNCHANGED <<smallPtr, arr>>
  /\ currPtr' = currPtr + 1
  /\ UNCHANGED <<vars, prog, outcome, i, j, start, frames, pivot, primes,
                 extension>>

Scan ==
  /\ Running("scan") /\ currPtr < Top.ub
  /\ IF arr[currPtr] <= pivot
     THEN /\ smallPtr' = smallPtr + 1
          /\ arr' = swap(smallPtr + 1, currPtr, arr)
     ELSE UNCHANGED <<smallPtr, arr>>
  /\ currPtr' = currPtr + 1
  /\ UNCHANGED <<vars, prog, outcome, i, j, start, frames, pivot, primes,
                 extension>>

\* partition puts the pivot between the two parts and returns its place.
PlacePivot ==
  /\ Running("scan") /\ currPtr >= Top.ub
  /\ smallPtr' = smallPtr + 1
  /\ arr' = swap(smallPtr + 1, Top.ub, arr)
  /\ frames' = [frames EXCEPT ![Len(frames)].q = smallPtr + 1,
                              ![Len(frames)].pc = "left"]
  /\ UNCHANGED <<vars, prog, outcome, i, j, start, pivot, currPtr, primes,
                 extension>>

SortLeft ==
  /\ Running("left")
  /\ frames' = Append(TopAt("right"), Frame(Top.lb, Top.q - 1))
  /\ UNCHANGED <<vars, prog, outcome, i, j, arr, start, pivot, currPtr,
                 smallPtr, primes, extension>>

SortRight ==
  /\ Running("right")
  /\ frames' = Append(TopAt("exit"), Frame(Top.q + 1, Top.ub))
  /\ UNCHANGED <<vars, prog, outcome, i, j, arr, start, pivot, currPtr,
                 smallPtr, primes, extension>>

QsortReturn ==
  /\ Running("exit") \/ (Running("entry") /\ Top.lb >= Top.ub)
  /\ frames' = Caller
  /\ UNCHANGED <<vars, prog, outcome, i, j, arr, start, pivot, currPtr,
                 smallPtr, primes, extension>>

-----------------------------------------------------------------------------
(* sieve.c                                                                 *)

golden_prime_vals == {2, 3, 5, 7, 11, 13, 17, 19, 23, 29, 31, 37, 41, 43, 47}

\* The char -1 of the entries 0 and 1 counts as true, as 1 does.
SieveArray == [k \in 0 .. SIEVE_LENGTH - 1 |-> 1]
golden_primes ==
  [k \in 2 .. SIEVE_LENGTH - 1 |-> IF k \in golden_prime_vals THEN 1 ELSE 0]

\* Mutant: the first multiple struck out is the prime itself.
SieveOuterFromOne ==
  /\ prog = "sieve.c" /\ outcome = "running"
  /\ i < SIEVE_LENGTH /\ (primes[i] = 0 \/ i * j >= SIEVE_LENGTH)
  /\ i' = i + 1 /\ j' = 1
  /\ UNCHANGED <<vars, prog, outcome, sorting, primes, extension>>

\* The next number: its multiples are struck out from its square on.
SieveOuter ==
  /\ prog = "sieve.c" /\ outcome = "running"
  /\ i < SIEVE_LENGTH /\ (primes[i] = 0 \/ i * j >= SIEVE_LENGTH)
  /\ i' = i + 1 /\ j' = i + 1
  /\ UNCHANGED <<vars, prog, outcome, sorting, primes, extension>>

SieveInner ==
  /\ prog = "sieve.c" /\ outcome = "running"
  /\ i < SIEVE_LENGTH /\ primes[i] # 0 /\ i * j < SIEVE_LENGTH
  /\ primes' = [primes EXCEPT ![i * j] = 0]
  /\ j' = j + 1
  /\ UNCHANGED <<vars, prog, outcome, i, sorting, extension>>

CheckSieve ==
  /\ prog = "sieve.c" /\ outcome = "running" /\ i >= SIEVE_LENGTH
  /\ outcome' = IF \A k \in 2 .. SIEVE_LENGTH - 1 : primes[k] = golden_primes[k]
                THEN "success" ELSE "fail"
  /\ UNCHANGED <<vars, prog, i, j, sorting, primes, extension>>

-----------------------------------------------------------------------------
(* crc32.c, the macros that build its instructions, and the extension      *)
(* that executes them (risc_mgmt/extensions/crc32).                        *)

\* n in binary, with that many digits; REG0 to REG31 are Digits(5, n).
Digits(width, n) == [k \in 1 .. width |-> (n \div 2 ^ (width - k)) % 2]
REG(name) == Digits(5, CASE name = "t0" -> 5 [] name = "t1" -> 6 [] name = "t2" -> 7)

\* BUILD_INSN pastes the digits of its arguments together, the opcode last.
BUILD_INSN(opcode, funct7, rs2, rs1, funct3, rd) ==
  funct7 \o rs2 \o rs1 \o funct3 \o rd \o opcode

\* INSN_INSERT_R_TYPE, with the sources in the order it passes them on.
INSN_INSERT_R_TYPE(opcode, funct7, funct3, rs0, rs1, rsd) ==
  BUILD_INSN(opcode, funct7, rs1, rs0, funct3, rsd)

\* The body of crc32_<offset>_AUTOGEN: operation offset of opcode 0x0b.
Autogen(offset) ==
  INSN_INSERT_R_TYPE(Digits(7, 11), Digits(7, 0), Digits(3, offset),
                     REG("t1"), REG("t0"), REG("t2"))

\* crc32_decode reads the fields of an R-type instruction, bit 31 first.
InsnRs1(w) == SubSeq(w, 13, 17)
InsnRd(w) == SubSeq(w, 21, 25)
Funct10(w) == SubSeq(w, 1, 7) \o SubSeq(w, 18, 20)
InsnClaim(w) == SubSeq(w, 26, 32) = Digits(7, 11)
Resets(w) == InsnClaim(w) /\ Funct10(w) = Digits(10, 0)
NewByte(w) == InsnClaim(w) /\ Funct10(w) = Digits(10, 1)

\* 32-bit words as functions from the number of a bit to the bit.
Bits == 0 .. 31
FromHex(h) == [b \in Bits |-> (h[8 - (b \div 4)] \div 2 ^ (b % 4)) % 2]
FromByte(n) == [b \in Bits |-> IF b < 8 THEN (n \div 2 ^ b) % 2 ELSE 0]
AllOnes == [b \in Bits |-> 1]
Xor(x, y) == [b \in Bits |-> (x[b] + y[b]) % 2]
Not(x) == [b \in Bits |-> 1 - x[b]]

data == <<161, 180, 195, 32, 5>>
POLY_REV == FromHex(<<14, 13, 11, 8, 8, 3, 2, 0>>)
Golden == FromHex(<<6, 15, 7, 2, 6, 0, 12, 2>>)

ShiftRight(x) == [b \in Bits |-> IF b = 31 THEN 0 ELSE x[b + 1]]

next_crc == IF crc[0] = 1 THEN Xor(ShiftRight(crc), POLY_REV) ELSE ShiftRight(crc)

\* The calls: i = 0 is CRC32_RESET, i > 0 is CRC32_CALC of data[i - 1].
CrcInsn == Autogen(IF i = 0 THEN 0 ELSE 1)
CrcRunning == prog = "crc32.c" /\ outcome = "running" /\ i <= Len(data)

\* The call copies its arguments to t0 and t1; the reset ends in one cycle.
CrcReset ==
  /\ CrcRunning /\ Resets(CrcInsn)
  /\ crc' = AllOnes
  /\ i' = i + 1
  /\ UNCHANGED <<vars, prog, outcome, j, sorting, primes, regfile, count>>

\* The first cycle of an instruction that adds a byte: j says it has started.
CrcStart ==
  /\ CrcRunning /\ NewByte(CrcInsn) /\ j = 0
  /\ LET called == [regfile EXCEPT !.t0 = FromByte(data[i]),
                                   !.t1 = FromByte(data[i])]
         in_byte == IF InsnRs1(CrcInsn) = REG("t0") THEN called.t0
                    ELSE IF InsnRs1(CrcInsn) = REG("t1") THEN called.t1
                    ELSE called.t2
     IN regfile' = called /\ crc' = Xor(crc, in_byte)
  /\ count' = 0
  /\ j' = 1
  /\ UNCHANGED <<vars, prog, outcome, i, sorting, primes>>

\* Mutant: the count is complete one shift early.
CrcDoneEarly == count = 7

CrcDone == count = 8

\* A cycle of the extension while it holds the pipeline.
CrcShift ==
  /\ CrcRunning /\ NewByte(CrcInsn) /\ j = 1 /\ ~CrcDone
  /\ crc' = next_crc
  /\ count' = count + 1
  /\ UNCHANGED <<vars, prog, outcome, i, j, sorting, primes, regfile>>

\* done: the result is written to rd.
CrcResult ==
  /\ CrcRunning /\ NewByte(CrcInsn) /\ j = 1 /\ CrcDone
  /\ regfile' = IF InsnRd(CrcInsn) = REG("t2")
                THEN [regfile EXCEPT !.t2 = Not(crc)] ELSE regfile
  /\ i' = i + 1 /\ j' = 0
  /\ UNCHANGED <<vars, prog, outcome, sorting, primes, crc, count>>

\* The call stored t2 in result.
CheckCrc ==
  /\ prog = "crc32.c" /\ outcome = "running" /\ i > Len(data)
  /\ outcome' = IF regfile.t2 = Golden THEN "success" ELSE "fail"
  /\ UNCHANGED <<vars, prog, i, j, sorting, primes, extension>>

-----------------------------------------------------------------------------
TestInit ==
  /\ Init
  /\ outcome = "running"
  /\ prog \in {"rv32m", "sieve.c", "crc32.c"} \cup Sort
  /\ prog # "rv32m" => test = "div.c"
  /\ arr \in [Index -> Values]
  /\ prog \notin Sort => \A k \in Index : arr[k] = CHOOSE v \in Values : TRUE
  /\ start = arr
  /\ i = IF prog = "sieve.c" THEN 2 ELSE 0
  /\ j = IF prog = "sieve.c" THEN 2 ELSE 0
  /\ frames = IF prog = "quicksort.c" THEN <<Frame(0, ARR_LENGTH - 1)>> ELSE <<>>
  /\ pivot = CHOOSE v \in Values : TRUE
  /\ currPtr = 0 /\ smallPtr = 0
  /\ primes = SieveArray
  /\ regfile = [r \in {"t0", "t1", "t2"} |-> FromByte(0)]
  /\ crc = AllOnes /\ count = 8

\* A step of the program with the RV32M instructions, or of its handler.
Emulate ==
  /\ prog = "rv32m"
  /\ Next
  /\ UNCHANGED <<prog, outcome, i, j, sorting, primes, extension>>

\* TEST_FINISH_SUCCESS and TEST_FINISH_FAIL: "j 1b".
Loop == outcome # "running" /\ UNCHANGED testVars

TestNext ==
  \/ Emulate
  \/ BubbleInner \/ BubbleOuter
  \/ Partition \/ Scan \/ PlacePivot \/ SortLeft \/ SortRight \/ QsortReturn
  \/ CheckSorted
  \/ SieveOuter \/ SieveInner \/ CheckSieve
  \/ CrcReset \/ CrcStart \/ CrcShift \/ CrcResult \/ CheckCrc
  \/ Loop

\* The core executes the program.
TestSpec == TestInit /\ [][TestNext]_testVars /\ WF_testVars(TestNext)

-----------------------------------------------------------------------------
TestTypeOK ==
  /\ TypeOK
  /\ prog \in {"rv32m", "sieve.c", "crc32.c"} \cup Sort
  /\ outcome \in {"running", "success", "fail"}
  /\ arr \in [Index -> Values] /\ start \in [Index -> Values]
  /\ i \in Nat /\ j \in Nat
  /\ frames \in Seq([lb : Nat, ub : Int, q : Nat,
                     pc : {"entry", "scan", "left", "right", "exit"}])
  /\ pivot \in Values /\ currPtr \in Nat /\ smallPtr \in Nat \cup {-1}
  /\ primes \in [0 .. SIEVE_LENGTH - 1 -> {0, 1}]
  /\ regfile \in [{"t0", "t1", "t2"} -> [Bits -> {0, 1}]]
  /\ crc \in [Bits -> {0, 1}] /\ count \in 0 .. 8

\* No element is lost or duplicated by an exchange of bubble.c or quicksort.c,
\* not even in the middle of a partition (quicksort.c:69).
Permuted ==
  \A v \in Values : Cardinality({k \in Index : arr[k] = v})
                      = Cardinality({k \in Index : start[k] = v})

\* After i passes of bubble.c:61 the last i elements are in order and none
\* before them is greater; the pass under way carries the greatest it met.
BubbleTail ==
  prog = "bubble.c" =>
    /\ \A k \in Index : k >= ARR_LENGTH - i =>
         \A m \in Index : m < k => arr[m] <= arr[k]
    /\ i < ARR_LENGTH - 1 => \A m \in Index : m < j => arr[m] <= arr[j]

\* Every call of qsort (quicksort.c:60) that is past its partition has its
\* pivot where it belongs, and stays so while the calls it makes move the
\* elements on both sides; no call is given an index outside of the array, and
\* the calls are never nested deeper than the array is long.
Partitioned ==
  /\ Len(frames) <= ARR_LENGTH + 1
  /\ \A n \in 1 .. Len(frames) :
       LET f == frames[n]
       IN /\ f.lb <= f.ub => f.lb \in Index /\ f.ub \in Index
          /\ f.pc \in {"left", "right", "exit"} =>
               /\ f.q \in f.lb .. f.ub
               /\ \A k \in f.lb .. f.q : arr[k] <= arr[f.q]
               /\ \A k \in f.q + 1 .. f.ub : arr[f.q] < arr[k]

\* While sieve.c strikes out the multiples of i, exactly the numbers with no
\* factor below i are still marked, up to those i has just struck out.
Factor(m, k) == m * m <= k /\ k % m = 0
Sieved ==
  prog = "sieve.c" =>
    \A k \in 2 .. SIEVE_LENGTH - 1 :
      primes[k] = 1 <=>
        \A m \in 2 .. k - 1 :
          Factor(m, k) => m >= i /\ (m = i => k >= i * j)

\* No test ends in its TEST_FINISH_FAIL, whatever the arrays hold.
TestsPass == outcome # "fail" /\ verdict # "fail"

\* Every test reaches its end: the loops and the recursion stop, the extension
\* releases the pipeline, and the handler returns.
TestsEnd == <>(outcome # "running" \/ step = "ended")
=============================================================================
