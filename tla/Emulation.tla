------------------------------ MODULE Emulation ------------------------------
(***************************************************************************)
(* The trap handler of the C firmware (c-firmware/trap.S and trap.c),      *)
(* which carries out the RV32M instructions of a core without a            *)
(* multiplier, and the C self tests of those instructions (div.c, rem.c,   *)
(* mul.c), which reach it by executing one.                                *)
(*                                                                         *)
(* A word is a number below Pow[Width]; the code has Width = 32.  One step *)
(* is one pass of a loop of asm_mul or asm_div, or one of the stretches of *)
(* code between them.  Interrupts arrive between two instructions of the   *)
(* program; inside the handler they are masked.                            *)
(***************************************************************************)
EXTENDS Integers, Sequences

CONSTANTS
  Width,     \* the number of bits of a register
  Pow,       \* Pow[i] is 2^i
  Operands,  \* pairs of words an instruction may find in rs1 and rs2
  Forms,     \* triples <<rs1, rs2, rd>> of registers
  Link,      \* the address behind "jal ra, trap" in mvec
  MaxIrq     \* bound on the interrupts of a behaviour

ASSUME WidthAssumption == Width \in Nat /\ Width > 1
ASSUME PowAssumption ==
  /\ Pow \in [0 .. Width -> Nat \ {0}]
  /\ Pow[0] = 1
  /\ \A i \in 1 .. Width : Pow[i] = 2 * Pow[i - 1]

\* Registers: zero, ra, sp, the two the handler leaves alone, some of the rest.
Reg == 0 .. 7
Word == 0 .. Pow[Width] - 1

ASSUME InputAssumption ==
  /\ Operands \subseteq Word \X Word
  /\ Forms \subseteq Reg \X Reg \X Reg
  /\ Link \in Word
  /\ MaxIrq \in Nat

VARIABLES
  test,     \* the program that runs, "any" for a single instruction
  at,       \* the number of its current test case
  insn,     \* the instruction of that case, with its operands and its result
  verdict,  \* "running", "success" or "fail"
  step,     \* where the program or the handler is
  cause,    \* mcause: "none" outside of the handler
  regs,     \* the registers as the program sees them
  saved,    \* the copy trap.S pushes on the stack
  a0, a1, t0, t1, t3,  \* the registers asm_mul and asm_div work in
  irqs      \* interrupts taken so far

work == <<a0, a1, t0, t1, t3>>
program == <<test, at, insn, verdict, irqs>>
vars == <<test, at, insn, verdict, step, cause, regs, saved, a0, a1, t0, t1,
          t3, irqs>>

-----------------------------------------------------------------------------
Half == Pow[Width - 1]
ToWord(x) == x % Pow[Width]
Negative(w) == w >= Half
Signed(w) == IF Negative(w) THEN w - Pow[Width] ELSE w

\* Mutant: the complement without the addend.
InvertOnes(w) == ToWord(-w - 1)

Invert(w) == ToWord(-w)

Funct == {"mul", "mulh", "mulhsu", "mulhu", "div", "divu", "rem", "remu"}
SignedDivision == {"div", "rem"}
Division == {"div", "divu", "rem", "remu"}

\* Instructions the handler leaves undone: those marked TODO, and every
\* illegal instruction that is not of RV32M.
Undone == {"mulh", "mulhsu", "mulhu", "other"}

Insn == [f : Funct \cup {"other"}, rs1 : Reg, rs2 : Reg, rd : Reg,
         n : Word, d : Word, want : Word]

\* One "c = a op b; if (c != want) TEST_FINISH_FAIL" of a self test.
Case(f, n, d, want) ==
  [f |-> f, rs1 |-> 5, rs2 |-> 6, rd |-> 7,
   n |-> ToWord(n), d |-> ToWord(d), want |-> ToWord(want)]

DivTest == << Case("div", 6, 3, 2),     Case("div", 639, 14, 45),
              Case("div", -10, 3, -3),  Case("div", -23, -15, 1),
              Case("div", -23, 0, -1),  Case("div", Half, -1, Half) >>

RemTest == << Case("rem", 28, 5, 3),    Case("rem", -513, 10, -3),
              Case("rem", -31, -6, -1), Case("rem", 9, 0, 9),
              Case("rem", Half, -1, 0) >>

\* d = 2*c follows c = a*b, and is compared with 36.
MulTest == << Case("mul", 6, 3, 18), Case("mul", 2, 18, 36) >>

Tests == {"div.c", "rem.c", "mul.c"}
Suite(t) == IF t = "div.c" THEN DivTest
            ELSE IF t = "rem.c" THEN RemTest ELSE MulTest

Single == { [f |-> f, rs1 |-> r[1], rs2 |-> r[2], rd |-> r[3],
             n |-> p[1], d |-> p[2], want |-> 0] :
            f \in Funct \cup {"other"}, r \in Forms, p \in Operands }

-----------------------------------------------------------------------------
Init ==
  /\ \/ test = "any" /\ insn \in Single
     \/ test \in Tests /\ insn = Suite(test)[1]
  /\ at = 1
  /\ verdict = "running"
  /\ step = "load"
  /\ cause = "none"
  /\ regs = [r \in Reg |-> 0]
  /\ saved = [r \in Reg |-> 0]
  /\ a0 = 0 /\ a1 = 0 /\ t0 = 0 /\ t1 = 0 /\ t3 = 0
  /\ irqs = 0

\* A write of the register file: x0 stays zero.
Written(file, r, w) == IF r = 0 THEN file ELSE [file EXCEPT ![r] = w]

\* The program brings the operands into rs1 and rs2.
Load ==
  /\ step = "load"
  /\ regs' = Written(Written(regs, insn.rs1, insn.n), insn.rs2, insn.d)
  /\ step' = "code"
  /\ UNCHANGED <<program, cause, saved, work>>

\* mvec pushes ra and calls trap, which pushes ra once more and then the
\* registers: ra holds Link by then, and sp two words less than before.
Pushed == [regs EXCEPT ![1] = Link, ![2] = ToWord(regs[2] - 8)]

\* The instruction is illegal on a core without RV32M.
Illegal ==
  /\ step = "code"
  /\ cause' = "illegal"
  /\ saved' = Pushed
  /\ step' = "decode"
  /\ UNCHANGED <<program, regs, work>>

\* irq_handler does nothing, and whatever raised the interrupt withdraws it.
Interrupt ==
  /\ step = "code"
  /\ irqs < MaxIrq
  /\ irqs' = irqs + 1
  /\ cause' = "interrupt"
  /\ saved' = Pushed
  /\ step' = "return"
  /\ UNCHANGED <<test, at, insn, verdict, regs, work>>

\* numerator and denominator: the copies of rs1 and rs2 on the stack.
N == saved[insn.rs1]
D == saved[insn.rs2]

\* The cases exception_handler answers without a division.
Special == D = 0 \/ (insn.f \in SignedDivision /\ N = Half /\ Signed(D) = -1)

Magnitude(w) == IF insn.f \in SignedDivision /\ Negative(w)
                THEN Invert(w) ELSE w

\* exception_handler up to the call of asm_mul or asm_div.
Multiply ==
  /\ step = "decode" /\ insn.f = "mul"
  /\ t0' = D /\ a0' = 0 /\ a1' = N
  /\ step' = "mul"
  /\ UNCHANGED <<program, cause, regs, saved, t1, t3>>

DivideSpecial ==
  /\ step = "decode" /\ insn.f \in Division /\ Special
  /\ t0' = IF D = 0 THEN ToWord(-1) ELSE N
  /\ t1' = IF D = 0 THEN N ELSE 0
  /\ step' = "store"
  /\ UNCHANGED <<program, cause, regs, saved, a0, a1, t3>>

Divide ==
  /\ step = "decode" /\ insn.f \in Division /\ ~Special
  /\ a0' = Magnitude(N) /\ a1' = Magnitude(D)
  /\ t0' = 0 /\ t1' = 0 /\ t3' = Half
  /\ step' = "div"
  /\ UNCHANGED <<program, cause, regs, saved>>

Skip ==
  /\ step = "decode" /\ insn.f \in Undone
  /\ step' = "return"
  /\ UNCHANGED <<program, cause, regs, saved, work>>

\* Mutant: srai in place of srli.
MulStepSigned ==
  /\ step = "mul"
  /\ a0' = IF a1 % 2 = 1 THEN ToWord(t0 + a0) ELSE a0
  /\ t0' = ToWord(2 * t0)
  /\ a1' = IF Negative(a1) THEN Half + a1 \div 2 ELSE a1 \div 2
  /\ step' = IF a1' = 0 THEN "store" ELSE "mul"
  /\ UNCHANGED <<program, cause, regs, saved, t1, t3>>

\* One pass of the loop of asm_mul.
MulStep ==
  /\ step = "mul"
  /\ a0' = IF a1 % 2 = 1 THEN ToWord(t0 + a0) ELSE a0
  /\ t0' = ToWord(2 * t0)
  /\ a1' = a1 \div 2
  /\ step' = IF a1' = 0 THEN "store" ELSE "mul"
  /\ UNCHANGED <<program, cause, regs, saved, t1, t3>>

\* The partial remainder with the next bit of the dividend.
Shifted == ToWord(2 * t1) + ((a0 \div t3) % 2)

\* Mutant: bgt in place of the inverted blt.
FitsStrict == Signed(Shifted) > Signed(a1)

\* blt compares signed numbers, in divisions of unsigned ones too.
Fits == Signed(Shifted) >= Signed(a1)

\* Mutant: the mask is not shifted.
DivStepStuck ==
  /\ step = "div"
  /\ t1' = IF Fits THEN ToWord(Shifted - a1) ELSE Shifted
  /\ t0' = IF Fits THEN t0 + t3 ELSE t0
  /\ UNCHANGED <<program, cause, step, regs, saved, a0, a1, t3>>

\* One pass of the loop of asm_div: t3 is the bit the pass decides.
DivStep ==
  /\ step = "div"
  /\ t1' = IF Fits THEN ToWord(Shifted - a1) ELSE Shifted
  /\ t0' = IF Fits THEN t0 + t3 ELSE t0
  /\ t3' = t3 \div 2
  /\ step' = IF t3' = 0 THEN "store" ELSE "div"
  /\ UNCHANGED <<program, cause, regs, saved, a0, a1>>

\* The quotient, inverted if the operands of div have different signs.
Quotient == IF insn.f = "div" /\ ~Special /\ (Negative(N) # Negative(D))
            THEN Invert(t0) ELSE t0

\* The remainder, inverted if an operand of rem is negative, whichever it is.
Remainder == IF insn.f = "rem" /\ ~Special /\ (Negative(N) \/ Negative(D))
             THEN Invert(t1) ELSE t1

\* *(regs + rd) = ..., for rd = x0 too.
Store ==
  /\ step = "store"
  /\ saved' = [saved EXCEPT ![insn.rd] =
                 IF insn.f = "mul" THEN a0
                 ELSE IF insn.f \in {"div", "divu"} THEN Quotient ELSE Remainder]
  /\ step' = "return"
  /\ UNCHANGED <<program, cause, regs, work>>

\* trap_ret pops x5 to x31.
Restored == 5 .. 7

\* trap ends in an mret of its own: mvec's pop of ra and of its stack word is
\* never reached.  epc moves on behind the instruction only after an exception.
Return ==
  /\ step = "return"
  /\ regs' = [r \in Reg |-> IF r \in Restored THEN saved[r]
                            ELSE IF r = 1 THEN Link
                            ELSE IF r = 2 THEN ToWord(regs[2] - 4) ELSE regs[r]]
  /\ cause' = "none"
  /\ step' = IF cause = "interrupt" THEN "code" ELSE "check"
  /\ UNCHANGED <<program, saved, work>>

\* The comparison behind the instruction; main ends in an endless loop.
Passed == test = "any" \/ regs[insn.rd] = insn.want
LastCase == test = "any" \/ at = Len(Suite(test))

Advance ==
  /\ step = "check" /\ Passed /\ ~LastCase
  /\ at' = at + 1
  /\ insn' = Suite(test)[at + 1]
  /\ step' = "load"
  /\ UNCHANGED <<test, verdict, cause, regs, saved, work, irqs>>

Finish ==
  /\ step = "check" /\ (~Passed \/ LastCase)
  /\ verdict' = IF Passed THEN "success" ELSE "fail"
  /\ step' = "ended"
  /\ UNCHANGED <<test, at, insn, cause, regs, saved, work, irqs>>

Ended == step = "ended" /\ UNCHANGED vars

Handler == \/ Multiply \/ DivideSpecial \/ Divide \/ Skip
           \/ MulStep \/ DivStep \/ Store \/ Return

Next == \/ Load \/ Illegal \/ Interrupt \/ Handler
        \/ Advance \/ Finish \/ Ended

\* The core executes the next instruction of the program or of the handler.
Spec == Init /\ [][Next]_vars /\ WF_vars(Next)

-----------------------------------------------------------------------------
(* What RV32M says of the operands x and y, for the comparison.            *)

Abs(i) == IF i < 0 THEN -i ELSE i

\* The quotient of two integers rounded towards zero.
Truncated(i, j) == IF (i < 0) = (j < 0) THEN Abs(i) \div Abs(j)
                   ELSE -(Abs(i) \div Abs(j))

Product(x, y) == ToWord(x * y)
Quot(f, x, y) == IF y = 0 THEN ToWord(-1)
                 ELSE IF f = "div" THEN ToWord(Truncated(Signed(x), Signed(y)))
                 ELSE x \div y
Rem(f, x, y) ==
  IF y = 0 THEN x
  ELSE IF f = "rem"
       THEN ToWord(Signed(x) - Signed(y) * Truncated(Signed(x), Signed(y)))
       ELSE x % y
Expected(f, x, y) == IF f = "mul" THEN Product(x, y)
                     ELSE IF f \in {"div", "divu"} THEN Quot(f, x, y)
                     ELSE Rem(f, x, y)

\* The divisions for which no comparison of asm_div meets a word that is
\* negative only because it is read as signed.
Small(m, e) == 0 < e /\ e < Half /\ (m < Half \/ 2 * e <= Half)

\* The instructions the handler carries out, on operands it does so for.
Supported(f, x, y) ==
  /\ f \notin Undone
  /\ f \in {"divu", "remu"} => y = 0 \/ Small(x, y)
  /\ f \in SignedDivision =>
       \/ y = 0 \/ (x = Half /\ Signed(y) = -1)
       \/ Small(Abs(Signed(x)), Abs(Signed(y)))
  /\ f = "rem" => ~(Signed(x) >= 0 /\ Signed(y) < 0)

\* ra and sp are not what they were when the registers were pushed, and x1 to
\* x4 are not popped.
PlainForm(i) == i.rs1 \notin {1, 2} /\ i.rs2 \notin {1, 2}
                /\ i.rd \in Restored \cup {0}

TypeOK ==
  /\ test \in Tests \cup {"any"}
  /\ at \in Nat \ {0}
  /\ insn \in Insn
  /\ verdict \in {"running", "success", "fail"}
  /\ step \in {"load", "code", "decode", "mul", "div", "store", "return",
               "check", "ended"}
  /\ cause \in {"none", "illegal", "interrupt"}
  /\ regs \in [Reg -> Word] /\ saved \in [Reg -> Word]
  /\ a0 \in Word /\ a1 \in Word /\ t0 \in Word /\ t1 \in Word /\ t3 \in Word
  /\ irqs \in 0 .. MaxIrq

\* The return of the handler (trap.S: trap_ret) leaves in rd what RV32M says,
\* whatever passes the loops of trap.c made and however often the program was
\* interrupted before, and leaves every other register but ra and sp alone;
\* an interrupt, and an instruction that is only a TODO, change none.
Emulated ==
  [][ Return =>
      LET x == regs[insn.rs1]
          y == regs[insn.rs2]
          writes == cause = "illegal" /\ insn.f \notin Undone
      IN /\ \A r \in Reg \ {1, 2} :
              ~(writes /\ r = insn.rd) => regs'[r] = regs[r]
         /\ writes /\ PlainForm(insn) /\ Supported(insn.f, x, y) /\ insn.rd # 0
              => regs'[insn.rd] = Expected(insn.f, x, y) ]_vars

\* asm_div (trap.c:162) is long division: after every pass the bits of the
\* quotient decided so far and the partial remainder, which the divisor always
\* exceeds, account for the bits of the dividend shifted in so far.
LongDivision ==
  (step = "div" /\ Small(a0, a1)) =>
    /\ t1 < a1
    /\ t0 % (2 * t3) = 0
    /\ a0 \div (2 * t3) = (t0 \div (2 * t3)) * a1 + t1

\* self-tests/RV32M/rem.S: the remainder has the sign of the dividend.
RemSign ==
  [][ (Return /\ cause = "illegal" /\ insn.f = "rem" /\ PlainForm(insn)) =>
        regs'[insn.rd] =
          Expected("rem", regs[insn.rs1], regs[insn.rs2]) ]_vars
=============================================================================
