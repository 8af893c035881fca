--------------------------- MODULE Emulation_proofs ---------------------------
(* For words of every width: the emulation of RV32M computes what RV32M    *)
(* says, on the operands that Supported names.                             *)
EXTENDS Emulation, TLAPS

-----------------------------------------------------------------------------
(* Arithmetic *)

LEMMA PowFacts ==
  /\ Pow[Width] \in Nat /\ Half \in Nat /\ Half > 0
  /\ Pow[Width] = 2 * Half
  /\ Width - 1 \in 0 .. Width - 1 /\ Half = Pow[Width - 1]
  /\ \A k \in 0 .. Width - 1 : Pow[k] \in Nat /\ Pow[k] > 0
  /\ \A k \in 1 .. Width - 1 : Pow[k] = 2 * Pow[k - 1] /\ k - 1 \in 0 .. Width - 1
  /\ Pow[0] = 1
<1>1. Width \in Nat /\ Width > 1 /\ Width - 1 \in 0 .. Width /\ Width \in 1 .. Width
  BY WidthAssumption
<1>2. \A k \in 0 .. Width : Pow[k] \in Nat /\ Pow[k] > 0
  BY PowAssumption
<1>3. \A k \in 1 .. Width : Pow[k] = 2 * Pow[k - 1]
  BY PowAssumption
<1>4. \A k \in 0 .. Width - 1 : k \in 0 .. Width
  BY <1>1
<1>5. \A k \in 1 .. Width - 1 : k \in 1 .. Width /\ k - 1 \in 0 .. Width - 1
  BY <1>1
<1>6. Pow[0] = 1
  BY PowAssumption
<1>7. Half = Pow[Width - 1] /\ Width - 1 \in 0 .. Width - 1
  BY <1>1 DEF Half
<1>8. Pow[Width] = 2 * Half
  BY <1>1, <1>3, <1>7
<1>9. Pow[Width] \in Nat /\ Half \in Nat /\ Half > 0
  BY <1>1, <1>2, <1>7
<1> QED
  BY <1>2, <1>3, <1>4, <1>5, <1>6, <1>7, <1>8, <1>9

LEMMA DivUnique ==
  ASSUME NEW q \in Int, NEW d \in Nat, NEW r \in Nat, r < d
  PROVE  (q * d + r) \div d = q /\ (q * d + r) % d = r
OBVIOUS

LEMMA DivMod ==
  ASSUME NEW x \in Int, NEW d \in Nat, d > 0
  PROVE  /\ x \div d \in Int /\ x % d \in 0 .. d - 1
         /\ x = (x \div d) * d + (x % d)
OBVIOUS

LEMMA ModWord ==
  ASSUME NEW x \in Int
  PROVE  ToWord(x) \in Word /\ \E c \in Int : ToWord(x) = x + c * Pow[Width]
<1> DEFINE p == Pow[Width]
           e == x \div p
<1>1. /\ e \in Int /\ ToWord(x) \in 0 .. p - 1
      /\ x = e * p + ToWord(x) /\ p \in Nat /\ p > 0
  <2>1. p \in Nat /\ p > 0
    BY PowFacts
  <2>2. ToWord(x) = x % p
    BY DEF ToWord
  <2> HIDE DEF p
  <2> QED
    BY <2>1, <2>2, DivMod
<1>2. ToWord(x) \in Word
  BY <1>1 DEF Word
<1> HIDE DEF e, p
<1>3. ToWord(x) = x + (-e) * p /\ -e \in Int
  BY <1>1
<1> QED
  BY <1>2, <1>3 DEF p

LEMMA ModSame ==
  ASSUME NEW x \in Word
  PROVE  ToWord(x) = x
<1>1. x = 0 * Pow[Width] + x /\ x \in Nat /\ x < Pow[Width] /\ Pow[Width] \in Nat
  BY PowFacts DEF Word
<1> QED
  BY <1>1, DivUnique DEF ToWord

LEMMA ModNegative ==
  ASSUME NEW x \in Word
  PROVE  ToWord(-x) = IF x = 0 THEN 0 ELSE Pow[Width] - x
<1>1. CASE x = 0
  BY <1>1, ModSame, PowFacts DEF Word
<1>2. CASE x # 0
  <2>1. Pow[Width] - x \in Nat /\ Pow[Width] - x < Pow[Width] /\ Pow[Width] \in Nat
    BY <1>2, PowFacts DEF Word
  <2>2. -x = (-1) * Pow[Width] + (Pow[Width] - x)
    BY <2>1 DEF Word
  <2> QED
    BY <1>2, <2>1, <2>2, DivUnique DEF ToWord
<1> QED
  BY <1>1, <1>2

\* Two numbers that differ by a multiple of 2^Width stand for the same word.
LEMMA Congruent ==
  ASSUME NEW x \in Word, NEW y \in Int, NEW c \in Int, x = y + c * Pow[Width]
  PROVE  x = ToWord(y)
<1>1. PICK e \in Int : ToWord(y) = y + e * Pow[Width]
  BY ModWord
<1>2. ToWord(y) \in Word
  BY ModWord
<1>3. x - ToWord(y) = (c - e) * Pow[Width]
  BY <1>1, PowFacts DEF Word
<1>4. c - e = 0
  <2> DEFINE p == Pow[Width]
             d == c - e
  <2>1. p \in Nat /\ p > 0 /\ d \in Int /\ d * p < p /\ d * p > -p
    BY <1>2, <1>3, PowFacts DEF Word
  <2> HIDE DEF p, d
  <2>2. d = 0
    BY <2>1
  <2> QED
    BY <2>2 DEF d
<1> QED
  BY <1>2, <1>3, <1>4, PowFacts DEF Word

\* What a pass of asm_div does to a dividend of which q and t account for the
\* bits above those of 2 * m, and l is the rest.
LEMMA DivPass ==
  ASSUME NEW x \in Word, NEW y \in Word, Small(x, y),
         NEW q \in Nat, NEW l \in Nat, NEW t \in Nat, NEW m \in Nat, m > 0,
         x = (q * y + t) * (2 * m) + l, l < 2 * m, t < y
  PROVE  \E b \in {0, 1}, k \in Nat :
           /\ k < m
           /\ x = (2 * (q * y + t) + b) * m + k
           /\ (x \div m) % 2 = b
           /\ ToWord(2 * t) + b = 2 * t + b
           /\ 2 * t + b < Half
           /\ y < Half
<1> DEFINE b == IF l < m THEN 0 ELSE 1
           k == IF l < m THEN l ELSE l - m
           h == q * y + t
<1>1. b \in {0, 1} /\ k \in Nat /\ k < m /\ l = b * m + k /\ h \in Nat
  BY DEF Word
<1>2. x = (2 * h + b) * m + k
  <2>1. h * (2 * m) = (2 * h) * m
    BY <1>1
  <2>2. (2 * h + b) * m = (2 * h) * m + b * m
    BY <1>1
  <2> QED
    BY <1>1, <2>1, <2>2 DEF Word
<1>3. x \div m = 2 * h + b
  BY <1>1, <1>2, DivUnique
<1>4. (x \div m) % 2 = b
  BY <1>1, <1>3
<1>5. 0 < y /\ y < Half
  BY DEF Small
<1>6. 2 * t + b < Half
  <2>1. CASE 2 * y <= Half
    BY <2>1, <1>1, PowFacts DEF Word
  <2>2. CASE x < Half
    <3>1. x >= 2 * h + b
      <4>1. (2 * h + b) * m >= 2 * h + b
        BY <1>1
      <4> QED
        BY <4>1, <1>1, <1>2 DEF Word
    <3>2. h >= t
      BY DEF Word
    <3> QED
      BY <3>1, <3>2, <2>2, <1>1, PowFacts DEF Word
  <2> QED
    BY <2>1, <2>2 DEF Small
<1>7. ToWord(2 * t) = 2 * t
  <2>1. 2 * t \in Word
    BY <1>5, PowFacts DEF Word
  <2> QED
    BY <2>1, ModSame
<1> HIDE DEF b, k
<1> QED
  BY <1>1, <1>2, <1>4, <1>5, <1>6, <1>7

\* What a pass of asm_mul keeps: the sum of what is added and what is left.
LEMMA MulPass ==
  ASSUME NEW s \in Word, NEW x \in Word, NEW y \in Word
  PROVE  \E c \in Int :
           (IF y % 2 = 1 THEN ToWord(x + s) ELSE s) + ToWord(2 * x) * (y \div 2)
             = s + x * y + c * Pow[Width]
<1> DEFINE p == Pow[Width]
           h == y \div 2
<1>1. /\ h \in Nat /\ p \in Nat /\ s \in Nat /\ x \in Nat
      /\ (y % 2 = 1 /\ y = 2 * h + 1) \/ (y % 2 # 1 /\ y = 2 * h)
  BY PowFacts DEF Word
<1>2. PICK e \in Int : ToWord(x + s) = x + s + e * p
  <2>1. x + s \in Int
    BY <1>1
  <2> QED
    BY <2>1, ModWord
<1>3. PICK g \in Int : ToWord(2 * x) = 2 * x + g * p
  <2>1. 2 * x \in Int
    BY <1>1
  <2> QED
    BY <2>1, ModWord
<1> HIDE DEF p, h
<1>4. (2 * x + g * p) * h = x * (2 * h) + (g * h) * p
  BY <1>1, <1>3
<1>5. CASE y % 2 = 1
  <2>1. x + s + e * p + (2 * x + g * p) * h = s + x * (2 * h + 1) + (e + g * h) * p
    BY <1>1, <1>2, <1>3, <1>4
  <2>2. e + g * h \in Int
    BY <1>1
  <2> QED
    BY <1>1, <1>2, <1>3, <1>5, <2>1, <2>2 DEF p, h
<1>6. CASE y % 2 # 1
  <2>1. s + (2 * x + g * p) * h = s + x * (2 * h) + (g * h) * p
    BY <1>1, <1>3, <1>4
  <2>2. g * h \in Int
    BY <1>1
  <2> QED
    BY <1>1, <1>3, <1>6, <2>1, <2>2 DEF p, h
<1> QED
  BY <1>5, <1>6

\* The magnitude of a word read as signed.
LEMMA SignedFacts ==
  ASSUME NEW w \in Word
  PROVE  /\ Signed(w) \in Int
         /\ (Signed(w) < 0) <=> Negative(w)
         /\ Abs(Signed(w)) = IF Negative(w) THEN Invert(w) ELSE w
         /\ Abs(Signed(w)) \in Word
         /\ w = 0 => Abs(Signed(w)) = 0
<1>1. CASE Negative(w)
  <2>1. Invert(w) = Pow[Width] - w
    BY <1>1, ModNegative, PowFacts DEF Invert, Negative, Word
  <2> QED
    BY <1>1, <2>1, PowFacts DEF Negative, Signed, Abs, Word
<1>2. CASE ~Negative(w)
  BY <1>2, PowFacts DEF Negative, Signed, Abs, Word
<1> QED
  BY <1>1, <1>2

LEMMA TruncatedIs ==
  ASSUME NEW i \in Int, NEW j \in Int, NEW q \in Nat, NEW r \in Nat,
         Abs(i) = q * Abs(j) + r, r < Abs(j)
  PROVE  Truncated(i, j) = IF (i < 0) = (j < 0) THEN q ELSE -q
<1> DEFINE d == Abs(j)
<1>1. d \in Nat /\ r < d /\ Abs(i) = q * d + r
  BY DEF Abs
<1> HIDE DEF d
<1>2. Abs(i) \div d = q
  BY <1>1, DivUnique
<1> QED
  BY <1>2 DEF Truncated, d

\* Quotient and remainder of the magnitudes give those of the signed numbers.
LEMMA QuotIs ==
  ASSUME NEW x \in Word, NEW y \in Word, NEW q \in Word, NEW r \in Word,
         Abs(Signed(x)) = q * Abs(Signed(y)) + r, r < Abs(Signed(y))
  PROVE  Quot("div", x, y) = IF Negative(x) # Negative(y) THEN Invert(q) ELSE q
<1>1. q \in Nat /\ r \in Nat
  BY PowFacts DEF Word
<1>2. y # 0
  BY <1>1, SignedFacts
<1>3. Truncated(Signed(x), Signed(y)) = IF Negative(x) = Negative(y) THEN q ELSE -q
  <2>1. Signed(x) \in Int /\ Signed(y) \in Int
    BY SignedFacts
  <2>2. Truncated(Signed(x), Signed(y))
          = IF (Signed(x) < 0) = (Signed(y) < 0) THEN q ELSE -q
    BY <1>1, <2>1, TruncatedIs
  <2>3. (Signed(x) < 0 <=> Negative(x)) /\ (Signed(y) < 0 <=> Negative(y))
    BY SignedFacts
  <2> QED
    BY <2>2, <2>3 DEF Negative
<1> QED
  BY <1>2, <1>3, ModSame DEF Quot, Invert

LEMMA RemIs ==
  ASSUME NEW x \in Word, NEW y \in Word, NEW q \in Word, NEW r \in Word,
         Abs(Signed(x)) = q * Abs(Signed(y)) + r, r < Abs(Signed(y)),
         ~(Signed(x) >= 0 /\ Signed(y) < 0)
  PROVE  Rem("rem", x, y)
           = IF Negative(x) \/ Negative(y) THEN Invert(r) ELSE r
<1> DEFINE i == Signed(x)
           j == Signed(y)
<1>1. q \in Nat /\ r \in Nat
  BY PowFacts DEF Word
<1>2. y # 0
  BY <1>1, SignedFacts
<1>3. i \in Int /\ j \in Int
  BY SignedFacts
<1>4. (i < 0 <=> Negative(x)) /\ (j < 0 <=> Negative(y)) /\ ~(i >= 0 /\ j < 0)
  BY SignedFacts
<1>5. Rem("rem", x, y) = ToWord(i - j * Truncated(i, j))
  BY <1>2 DEF Rem
<1>6. Abs(i) = q * Abs(j) + r /\ r < Abs(j)
  OBVIOUS
<1> HIDE DEF i, j
<1>7. Truncated(i, j) = IF (i < 0) = (j < 0) THEN q ELSE -q
  BY <1>1, <1>3, <1>6, TruncatedIs
<1>8. i - j * Truncated(i, j) = IF i < 0 THEN -r ELSE r
  <2>1. CASE i < 0 /\ j < 0
    <3>1. -i = q * (-j) + r
      BY <1>3, <1>6, <2>1 DEF Abs
    <3>2. q * (-j) = -(j * q)
      BY <1>1, <1>3
    <3> QED
      BY <1>1, <1>3, <1>7, <2>1, <3>1, <3>2
  <2>2. CASE i < 0 /\ ~(j < 0)
    <3>1. -i = q * j + r
      BY <1>3, <1>6, <2>2 DEF Abs
    <3>2. j * (-q) = -(q * j)
      BY <1>1, <1>3
    <3> QED
      BY <1>1, <1>3, <1>7, <2>2, <3>1, <3>2
  <2>3. CASE ~(i < 0)
    <3>1. i = q * j + r /\ ~(j < 0)
      BY <1>3, <1>4, <1>6, <2>3 DEF Abs
    <3>2. q * j = j * q
      BY <1>1, <1>3
    <3> QED
      BY <1>1, <1>3, <1>7, <2>3, <3>1, <3>2
  <2> QED
    BY <2>1, <2>2, <2>3
<1> QED
  BY <1>1, <1>3, <1>4, <1>5, <1>8, ModSame DEF Invert

-----------------------------------------------------------------------------
(* The inductive invariant *)

\* The test cases run out where the test ends.
CaseBound == test \in Tests => at <= Len(Suite(test))

\* Which instruction and which trap the handler is at work for.
Control ==
  /\ step \in {"decode", "mul", "div", "store"} => cause = "illegal"
  /\ step = "mul" => insn.f = "mul"
  /\ step = "div" => insn.f \in Division /\ ~Special
  /\ step = "store" => insn.f \notin Undone
  /\ step = "return" => cause \in {"illegal", "interrupt"}

\* The trap is for an instruction whose result is written.
Writes == cause = "illegal" /\ insn.f \notin Undone

\* The copies on the stack, but those of ra, sp and the result.
Kept ==
  /\ step \in {"decode", "mul", "div", "store"} =>
       \A r \in Reg \ {1, 2} : saved[r] = regs[r]
  /\ step = "return" =>
       \A r \in Reg \ {1, 2} : ~(Writes /\ r = insn.rd) => saved[r] = regs[r]

Multiplying ==
  step = "mul" => \E c \in Int : a0 + t0 * a1 = N * D + c * Pow[Width]

\* q and t1 account for the bits of the dividend shifted in, l is the rest.
Shifting == \E q \in Nat, l \in Nat :
  /\ t0 = q * (2 * t3) /\ a0 = (q * a1 + t1) * (2 * t3) + l
  /\ l < 2 * t3 /\ t1 < a1

Dividing ==
  step = "div" =>
    /\ a0 = Magnitude(N) /\ a1 = Magnitude(D)
    /\ \E k \in 0 .. Width - 1 : t3 = Pow[k]
    /\ t0 + 2 * t3 <= Pow[Width]
    /\ Small(a0, a1) => Shifting

\* What is stored: the results of the loops and those of the special cases.
Divided ==
  /\ a0 = Magnitude(N) /\ a1 = Magnitude(D)
  /\ Small(a0, a1) => t1 < a1 /\ a0 = t0 * a1 + t1

Stored ==
  step = "store" =>
    /\ insn.f = "mul" => a0 = Product(N, D)
    /\ insn.f \in Division /\ ~Special => Divided
    /\ insn.f \in Division /\ Special =>
         /\ t0 = IF D = 0 THEN ToWord(-1) ELSE N
         /\ t1 = IF D = 0 THEN N ELSE 0

Answered ==
  (step = "return" /\ Writes /\ PlainForm(insn)
     /\ Supported(insn.f, regs[insn.rs1], regs[insn.rs2])) =>
    saved[insn.rd] = Expected(insn.f, regs[insn.rs1], regs[insn.rs2])

IInv == /\ TypeOK /\ CaseBound /\ Control /\ Kept
        /\ Multiplying /\ Dividing /\ Stored /\ Answered

-----------------------------------------------------------------------------
(* What the handler stores is what RV32M says *)

LEMMA OperandWords == TypeOK => N \in Word /\ D \in Word
BY DEF TypeOK, N, D, Insn

Result == IF insn.f = "mul" THEN a0
          ELSE IF insn.f \in {"div", "divu"} THEN Quotient ELSE Remainder

LEMMA SpecialRight ==
  ASSUME TypeOK, step = "store", Stored, insn.f \in Division, Special,
         Supported(insn.f, N, D)
  PROVE  Result = Expected(insn.f, N, D)
<1>0. N \in Word /\ D \in Word
  BY OperandWords
<1>1. /\ t0 = IF D = 0 THEN ToWord(-1) ELSE N
      /\ t1 = IF D = 0 THEN N ELSE 0
  BY DEF Stored
<1>2. Result = IF insn.f \in {"div", "divu"} THEN t0 ELSE t1
  BY DEF Result, Quotient, Remainder, Division
<1>3. CASE D = 0
  BY <1>1, <1>2, <1>3 DEF Expected, Quot, Rem, Division
<1>4. CASE D # 0
  <2>1. N = Half /\ Signed(D) = -1 /\ insn.f \in SignedDivision
    BY <1>4 DEF Special
  <2>2. /\ Negative(N) /\ Negative(D) /\ Half \in Word /\ 0 \in Word
        /\ Signed(N) = -Half /\ Abs(Signed(N)) = Half /\ Abs(Signed(D)) = 1
    <3>1. Negative(N) /\ Half \in Word /\ 0 \in Word /\ Signed(N) = -Half
      BY <2>1, PowFacts DEF Negative, Word, Signed
    <3>2. Negative(D)
      BY <1>0, <2>1, PowFacts DEF Negative, Word, Signed
    <3>3. Abs(Signed(N)) = Half
      BY <3>1, PowFacts DEF Abs
    <3>4. Abs(Signed(D)) = 1
      <4> DEFINE j == Signed(D)
      <4>1. j \in Int /\ j < 0 /\ 0 - j = 1
        BY <2>1
      <4> HIDE DEF j
      <4>2. Abs(j) = 1
        BY <4>1 DEF Abs
      <4> QED
        BY <4>2 DEF j
    <3> QED
      BY <3>1, <3>2, <3>3, <3>4
  <2>3. Abs(Signed(N)) = Half * Abs(Signed(D)) + 0 /\ 0 < Abs(Signed(D))
    BY <2>2, PowFacts
  <2>4. Quot("div", N, D) = Invert(Half) \/ Quot("div", N, D) = Half
    BY <1>0, <2>2, <2>3, QuotIs
  <2>5. Quot("div", N, D) = Half
    <3>1. Invert(Half) = Half
      BY <2>2, ModNegative, PowFacts DEF Invert
    <3> QED
      BY <2>4, <3>1
  <2>6. Rem("rem", N, D) = 0
    <3>1. ~(Signed(N) >= 0 /\ Signed(D) < 0)
      BY <2>2, PowFacts
    <3>2. Rem("rem", N, D) = Invert(0)
      BY <1>0, <2>2, <2>3, <3>1, RemIs
    <3> QED
      BY <2>2, <3>2, ModNegative DEF Invert
  <2> QED
    BY <1>1, <1>2, <1>4, <2>1, <2>5, <2>6 DEF Expected, SignedDivision
<1> QED
  BY <1>3, <1>4

\* The loops are given the magnitudes, and Supported makes them small.
LEMMA MagnitudeFacts ==
  ASSUME TypeOK, insn.f \in Division, ~Special, Supported(insn.f, N, D)
  PROVE  /\ insn.f \in SignedDivision =>
              Magnitude(N) = Abs(Signed(N)) /\ Magnitude(D) = Abs(Signed(D))
         /\ insn.f \notin SignedDivision => Magnitude(N) = N /\ Magnitude(D) = D
         /\ Small(Magnitude(N), Magnitude(D))
<1>1. N \in Word /\ D \in Word
  BY OperandWords
<1>2. insn.f \in SignedDivision =>
        Magnitude(N) = Abs(Signed(N)) /\ Magnitude(D) = Abs(Signed(D))
  BY <1>1, SignedFacts DEF Magnitude
<1>3. insn.f \notin SignedDivision => Magnitude(N) = N /\ Magnitude(D) = D
  BY DEF Magnitude
<1>4. Small(Magnitude(N), Magnitude(D))
  <2>1. CASE insn.f \in SignedDivision
    <3>1. Small(Abs(Signed(N)), Abs(Signed(D)))
      BY <2>1 DEF Special, Supported
    <3> QED
      BY <2>1, <3>1, <1>2
  <2>2. CASE insn.f \notin SignedDivision
    <3>1. insn.f \in {"divu", "remu"}
      BY <2>2 DEF Division, SignedDivision
    <3>2. Small(N, D)
      BY <3>1 DEF Special, Supported
    <3> QED
      BY <2>2, <3>2, <1>3
  <2> QED
    BY <2>1, <2>2
<1> QED
  BY <1>2, <1>3, <1>4

LEMMA DivisionRight ==
  ASSUME TypeOK, step = "store", Stored, insn.f \in Division, ~Special,
         Supported(insn.f, N, D)
  PROVE  Result = Expected(insn.f, N, D)
<1>1. N \in Word /\ D \in Word /\ t0 \in Word /\ t1 \in Word
  BY OperandWords DEF TypeOK
<1>2. D # 0
  BY DEF Special
<1>3. t1 < Magnitude(D) /\ Magnitude(N) = t0 * Magnitude(D) + t1
  BY MagnitudeFacts DEF Stored, Divided
<1>4. CASE insn.f = "div"
  <2>1. t1 < Abs(Signed(D)) /\ Abs(Signed(N)) = t0 * Abs(Signed(D)) + t1
    BY <1>3, <1>4, MagnitudeFacts DEF SignedDivision
  <2>2. Quot("div", N, D) = IF Negative(N) # Negative(D) THEN Invert(t0) ELSE t0
    BY <1>1, <2>1, QuotIs
  <2> QED
    BY <1>4, <2>2 DEF Result, Quotient, Expected
<1>5. CASE insn.f = "rem"
  <2>1. t1 < Abs(Signed(D)) /\ Abs(Signed(N)) = t0 * Abs(Signed(D)) + t1
    BY <1>3, <1>5, MagnitudeFacts DEF SignedDivision
  <2>2. ~(Signed(N) >= 0 /\ Signed(D) < 0)
    BY <1>5 DEF Supported
  <2>3. Rem("rem", N, D) = IF Negative(N) \/ Negative(D) THEN Invert(t1) ELSE t1
    BY <1>1, <2>1, <2>2, RemIs
  <2> QED
    BY <1>5, <2>3 DEF Result, Remainder, Expected
<1>6. CASE insn.f \in {"divu", "remu"}
  <2>1. t1 < D /\ N = t0 * D + t1
    BY <1>3, <1>6, MagnitudeFacts DEF SignedDivision
  <2>2. N \div D = t0 /\ N % D = t1
    <3>1. t0 \in Int /\ t1 \in Nat /\ D \in Nat
      BY <1>1, PowFacts DEF Word
    <3> QED
      BY <2>1, <3>1, DivUnique
  <2> QED
    BY <1>2, <1>6, <2>2 DEF Result, Quotient, Remainder, Expected, Quot, Rem
<1> QED
  BY <1>4, <1>5, <1>6 DEF Division

LEMMA ResultRight ==
  ASSUME TypeOK, Control, step = "store", Stored, Supported(insn.f, N, D)
  PROVE  Result = Expected(insn.f, N, D)
<1>1. CASE insn.f = "mul"
  BY <1>1 DEF Stored, Result, Expected
<1>2. CASE insn.f \in Division
  BY <1>2, SpecialRight, DivisionRight
<1>3. insn.f = "mul" \/ insn.f \in Division
  BY DEF TypeOK, Insn, Funct, Undone, Control, Division
<1> QED
  BY <1>1, <1>2, <1>3

-----------------------------------------------------------------------------
(* The invariant holds at first, and every action keeps it *)

LEMMA CaseInsn ==
  ASSUME NEW f \in Funct, NEW n \in Int, NEW d \in Int, NEW want \in Int
  PROVE  Case(f, n, d, want) \in Insn
BY ModWord DEF Case, Insn, Reg

LEMMA SuiteSeq == \A t \in Tests : Suite(t) \in Seq(Insn) /\ Len(Suite(t)) >= 1
<1>1. Half \in Int
  BY PowFacts
<1>2. DivTest \in Seq(Insn) /\ Len(DivTest) = 6
  BY <1>1, CaseInsn DEF DivTest, Funct
<1>3. RemTest \in Seq(Insn) /\ Len(RemTest) = 5
  BY <1>1, CaseInsn DEF RemTest, Funct
<1>4. MulTest \in Seq(Insn) /\ Len(MulTest) = 2
  BY CaseInsn DEF MulTest, Funct
<1> QED
  BY <1>2, <1>3, <1>4 DEF Suite, Tests

LEMMA SmallWords == /\ 0 \in Word /\ 1 \in Word /\ Half \in Word
                    /\ \A x \in Word : x \in Nat
BY PowFacts DEF Word

LEMMA InitInv == Init => IInv
<1> SUFFICES ASSUME Init PROVE IInv
  OBVIOUS
<1>1. insn \in Insn
  <2>1. CASE test = "any" /\ insn \in Single
    <3>1. PICK f \in Funct \cup {"other"}, r \in Forms, p \in Operands :
            insn = [f |-> f, rs1 |-> r[1], rs2 |-> r[2], rd |-> r[3],
                    n |-> p[1], d |-> p[2], want |-> 0]
      BY <2>1 DEF Single
    <3>2. /\ r[1] \in Reg /\ r[2] \in Reg /\ r[3] \in Reg
          /\ p[1] \in Word /\ p[2] \in Word
      BY InputAssumption
    <3> QED
      BY <3>1, <3>2, SmallWords DEF Insn
  <2>2. CASE test \in Tests /\ insn = Suite(test)[1]
    BY <2>2, SuiteSeq
  <2> QED
    BY <2>1, <2>2 DEF Init
<1>2. TypeOK
  BY <1>1, SmallWords, InputAssumption DEF Init, TypeOK
<1>3. CaseBound
  BY SuiteSeq DEF Init, CaseBound
<1> QED
  BY <1>2, <1>3 DEF Init, IInv, Control, Kept, Multiplying, Dividing, Stored, Answered

\* The instruction and the operands stay while the handler is at work.
LEMMA SameCase ==
  ASSUME insn' = insn, saved' = saved
  PROVE  /\ N' = N /\ D' = D /\ (Special <=> Special')
         /\ Magnitude(N)' = Magnitude(N) /\ Magnitude(D)' = Magnitude(D)
<1>1. N' = N /\ D' = D
  BY DEF N, D
<1> QED
  BY <1>1 DEF Special, Magnitude

\* Steps of the program and the entry of the handler.
LEMMA ProgramKeeps ==
  ASSUME IInv, Load \/ Illegal \/ Interrupt \/ Advance \/ Finish
  PROVE  IInv'
<1>0. TypeOK /\ CaseBound /\ Link \in Word
  BY InputAssumption DEF IInv
<1>1. step' \notin {"mul", "div", "store"} /\ (step' = "decode" => cause' = "illegal")
      /\ (step' = "return" => cause' = "interrupt")
  BY DEF Load, Illegal, Interrupt, Advance, Finish
<1>2. (step' \in {"decode", "return"}) =>
        /\ saved' = Pushed /\ regs' = regs /\ Pushed \in [Reg -> Word]
        /\ \A r \in Reg \ {1, 2} : Pushed[r] = regs[r]
  <2>1. ToWord(regs[2] - 8) \in Word
    <3>1. regs[2] \in Word
      BY <1>0 DEF TypeOK, Reg
    <3> QED
      BY <3>1, SmallWords, ModWord
  <2>2. Pushed \in [Reg -> Word] /\ \A r \in Reg \ {1, 2} : Pushed[r] = regs[r]
    BY <1>0, <2>1 DEF TypeOK, Pushed
  <2> QED
    BY <2>2 DEF Load, Illegal, Interrupt, Advance, Finish
<1>3. TypeOK' /\ CaseBound'
  <2>1. CASE Load
    <3>1. insn.n \in Word /\ insn.d \in Word
      BY <1>0 DEF TypeOK, Insn
    <3>2. regs' \in [Reg -> Word]
      BY <1>0, <2>1, <3>1 DEF TypeOK, Load, Written
    <3> QED
      BY <1>0, <2>1, <3>2 DEF TypeOK, CaseBound, Load, program, work
  <2>2. CASE Illegal
    BY <1>0, <1>2, <2>2 DEF TypeOK, CaseBound, Illegal, program, work
  <2>3. CASE Interrupt
    <3>1. irqs' \in 0 .. MaxIrq
      BY <1>0, <2>3, InputAssumption DEF TypeOK, Interrupt
    <3> QED
      BY <1>0, <1>2, <2>3, <3>1 DEF TypeOK, CaseBound, Interrupt, work
  <2>4. CASE Advance
    <3>1. test \in Tests
      BY <1>0, <2>4 DEF TypeOK, Advance, LastCase
    <3>2. at + 1 \in 1 .. Len(Suite(test)) /\ at + 1 \in Nat \ {0}
      <4>1. at # Len(Suite(test)) /\ at <= Len(Suite(test)) /\ at \in Nat
        BY <1>0, <2>4, <3>1 DEF TypeOK, CaseBound, Advance, LastCase
      <4>2. Len(Suite(test)) \in Nat
        BY <3>1, SuiteSeq
      <4> QED
        BY <4>1, <4>2
    <3>3. Suite(test)[at + 1] \in Insn
      BY <3>1, <3>2, SuiteSeq
    <3> QED
      BY <1>0, <2>4, <3>2, <3>3 DEF TypeOK, CaseBound, Advance, work
  <2>5. CASE Finish
    BY <1>0, <2>5 DEF TypeOK, CaseBound, Finish, work
  <2> QED
    BY <2>1, <2>2, <2>3, <2>4, <2>5
<1>4. Control' /\ Multiplying' /\ Dividing' /\ Stored'
  BY <1>1 DEF Control, Multiplying, Dividing, Stored
<1>5. Kept'
  BY <1>1, <1>2 DEF Kept
<1>6. Answered'
  BY <1>1 DEF Answered, Writes
<1> QED
  BY <1>3, <1>4, <1>5, <1>6 DEF IInv

\* The handler decodes the instruction and prepares its loop, if it needs one.
LEMMA DecodeKeeps ==
  ASSUME IInv, Multiply \/ DivideSpecial \/ Divide \/ Skip
  PROVE  IInv'
<1>0. /\ TypeOK /\ CaseBound /\ Kept /\ step = "decode" /\ cause = "illegal"
      /\ N \in Word /\ D \in Word /\ ToWord(-1) \in Word
      /\ insn' = insn /\ saved' = saved /\ regs' = regs /\ cause' = cause
      /\ test' = test /\ at' = at /\ verdict' = verdict /\ irqs' = irqs
  BY OperandWords, ModWord DEF IInv, Control, Multiply, DivideSpecial, Divide, Skip, program
<1>1. N' = N /\ D' = D /\ (Special <=> Special')
      /\ Magnitude(N)' = Magnitude(N) /\ Magnitude(D)' = Magnitude(D)
  BY <1>0, SameCase
<1>2. CaseBound'
  BY <1>0 DEF CaseBound
<1>3. Kept'
  <2>1. step' = "return" => Skip
    BY DEF Multiply, DivideSpecial, Divide
  <2> QED
    BY <1>0, <2>1 DEF Kept
<1>4. CASE Multiply
  <2>1. TypeOK'
    BY <1>0, <1>4, SmallWords DEF TypeOK, Multiply
  <2>2. Control'
    BY <1>0, <1>4 DEF Control, Multiply
  <2>3. Multiplying'
    <3>1. a0' + t0' * a1' = N * D + 0 * Pow[Width]
      <4>1. N \in Nat /\ D \in Nat
        BY <1>0, SmallWords
      <4> QED
        BY <4>1, <1>4, PowFacts DEF Multiply
    <3> QED
      BY <1>1, <3>1 DEF Multiplying
  <2> QED
    BY <1>2, <1>3, <1>4, <2>1, <2>2, <2>3
    DEF IInv, Multiply, Dividing, Stored, Answered
<1>5. CASE DivideSpecial
  <2>1. TypeOK'
    BY <1>0, <1>5, SmallWords DEF TypeOK, DivideSpecial
  <2>2. Control' /\ Stored'
    BY <1>0, <1>1, <1>5 DEF Control, Stored, DivideSpecial, Division, Undone
  <2> QED
    BY <1>2, <1>3, <1>5, <2>1, <2>2
    DEF IInv, DivideSpecial, Multiplying, Dividing, Answered
<1>6. CASE Divide
  <2>1. Magnitude(N) \in Word /\ Magnitude(D) \in Word
    <3>1. \A w \in Word : Invert(w) \in Word
      BY SmallWords, ModWord DEF Invert
    <3> QED
      BY <1>0, <3>1 DEF Magnitude
  <2>2. TypeOK'
    BY <1>0, <1>6, <2>1, SmallWords DEF TypeOK, Divide
  <2>3. Control'
    BY <1>0, <1>1, <1>6 DEF Control, Divide
  <2>4. /\ a0' = Magnitude(N) /\ a1' = Magnitude(D)
        /\ t0' = 0 /\ t1' = 0 /\ t3' = Half /\ step' = "div"
    BY <1>6 DEF Divide
  <2>5. \E k \in 0 .. Width - 1 : t3' = Pow[k]
    BY <2>4, PowFacts
  <2>6. t0' + 2 * t3' <= Pow[Width]
    BY <2>4, PowFacts
  <2>7. Small(a0, a1)' => Shifting'
    <3> SUFFICES ASSUME Small(a0, a1)' PROVE Shifting'
      OBVIOUS
    <3>1. a0' \in Nat /\ a1' \in Nat /\ 0 < a1' /\ a0' < 2 * t3'
      BY <2>1, <2>4, PowFacts DEF Small, Word
    <3>2. t0' = 0 * (2 * t3') /\ a0' = (0 * a1' + t1') * (2 * t3') + a0' /\ t1' < a1'
      BY <2>4, <3>1, PowFacts
    <3> QED
      BY <3>1, <3>2 DEF Shifting
  <2>8. Dividing'
    BY <1>1, <2>4, <2>5, <2>6, <2>7 DEF Dividing
  <2> QED
    BY <1>2, <1>3, <2>2, <2>3, <2>4, <2>8 DEF IInv, Multiplying, Stored, Answered
<1>7. CASE Skip
  <2>1. TypeOK'
    BY <1>0, <1>7 DEF TypeOK, Skip, work
  <2>2. Control'
    BY <1>0, <1>7 DEF Control, Skip
  <2>3. ~Writes'
    BY <1>0, <1>7 DEF Writes, Skip
  <2> QED
    BY <1>2, <1>3, <1>7, <2>1, <2>2, <2>3
    DEF IInv, Skip, Multiplying, Dividing, Stored, Answered
<1> QED
  BY <1>4, <1>5, <1>6, <1>7

\* A pass of asm_mul.
LEMMA MulKeeps ==
  ASSUME IInv, MulStep
  PROVE  IInv'
<1>0. /\ TypeOK /\ CaseBound /\ Kept /\ Multiplying /\ insn.f = "mul"
      /\ cause = "illegal" /\ step = "mul"
      /\ insn' = insn /\ saved' = saved /\ regs' = regs /\ cause' = cause
      /\ test' = test /\ at' = at /\ verdict' = verdict /\ irqs' = irqs
      /\ t1' = t1 /\ t3' = t3
      /\ a0 \in Word /\ a1 \in Word /\ t0 \in Word /\ N \in Word /\ D \in Word
  BY OperandWords DEF IInv, Control, MulStep, program, TypeOK
<1>1. N' = N /\ D' = D
  BY <1>0, SameCase
<1>2. a0' = (IF a1 % 2 = 1 THEN ToWord(t0 + a0) ELSE a0)
      /\ t0' = ToWord(2 * t0) /\ a1' = a1 \div 2
      /\ step' = IF a1' = 0 THEN "store" ELSE "mul"
  BY DEF MulStep
<1>3. a0' \in Word /\ t0' \in Word /\ a1' \in Word
  <2>1. t0 + a0 \in Int /\ 2 * t0 \in Int
    BY <1>0, SmallWords
  <2>2. a1 \div 2 \in Word
    BY <1>0, PowFacts DEF Word
  <2> QED
    BY <1>0, <1>2, <2>1, <2>2, ModWord
<1>4. \E c \in Int : a0' + t0' * a1' = N * D + c * Pow[Width]
  <2>1. PICK c \in Int : a0 + t0 * a1 = N * D + c * Pow[Width]
    BY <1>0 DEF Multiplying
  <2>2. PICK e \in Int : a0' + t0' * a1' = a0 + t0 * a1 + e * Pow[Width]
    BY <1>0, <1>2, MulPass
  <2> DEFINE p == Pow[Width]
             x == N * D
  <2>3. x \in Int /\ p \in Int
    BY <1>0, SmallWords, PowFacts
  <2>4. a0' + t0' * a1' = x + c * p + e * p
    BY <2>1, <2>2
  <2> HIDE DEF p, x
  <2>5. c * p + e * p = (c + e) * p /\ c + e \in Int
    BY <2>3
  <2>6. a0' + t0' * a1' = x + (c + e) * p
    BY <2>3, <2>4, <2>5
  <2> QED
    BY <2>5, <2>6 DEF p, x
<1>5. TypeOK'
  BY <1>0, <1>2, <1>3 DEF TypeOK
<1>6. CaseBound' /\ Control' /\ Kept'
  BY <1>0, <1>2 DEF CaseBound, Control, Kept, Undone
<1>7. Multiplying'
  BY <1>1, <1>4 DEF Multiplying
<1>8. Stored'
  <2> SUFFICES ASSUME step' = "store" PROVE a0' = Product(N, D)'
    BY <1>0 DEF Stored, Division
  <2>1. a1' = 0
    BY <1>2
  <2>2. PICK c \in Int : a0' + t0' * a1' = N * D + c * Pow[Width]
    BY <1>4
  <2>3. N * D \in Int
    BY <1>0, SmallWords
  <2>4. a0' = N * D + c * Pow[Width]
    BY <1>3, <2>1, <2>2, SmallWords
  <2>5. a0' = ToWord(N * D)
    BY <1>3, <2>3, <2>4, Congruent
  <2> QED
    BY <1>1, <2>5 DEF Product, ToWord
<1> QED
  BY <1>2, <1>5, <1>6, <1>7, <1>8 DEF IInv, Dividing, Answered

\* The mask of asm_div is a power of two until it is shifted out.
LEMMA MaskFacts ==
  ASSUME NEW k \in 0 .. Width - 1, t3 = Pow[k]
  PROVE  /\ t3 \in Nat /\ t3 > 0
         /\ \/ /\ t3 = 1 /\ t3 \div 2 = 0
            \/ /\ t3 = 2 * (t3 \div 2) /\ t3 \div 2 # 0
               /\ \E i \in 0 .. Width - 1 : t3 \div 2 = Pow[i]
<1>1. t3 \in Nat /\ t3 > 0
  BY PowFacts
<1>2. CASE k = 0
  BY <1>1, <1>2, PowFacts
<1>3. CASE k # 0
  <2>1. k \in 1 .. Width - 1
    BY <1>3, WidthAssumption
  <2>2. t3 = 2 * Pow[k - 1] /\ k - 1 \in 0 .. Width - 1
    BY <2>1, PowFacts
  <2>3. Pow[k - 1] \in Nat /\ Pow[k - 1] > 0
    BY <2>2, PowFacts
  <2>4. t3 \div 2 = Pow[k - 1]
    BY <2>2, <2>3
  <2> QED
    BY <1>1, <2>2, <2>3, <2>4
<1> QED
  BY <1>2, <1>3

LEMMA ShiftedWord ==
  ASSUME a0 \in Word, t1 \in Word, t3 \in Nat, t3 > 0
  PROVE  Shifted \in Word
<1>1. PICK c \in Int : ToWord(2 * t1) = 2 * t1 + c * Pow[Width]
  <2>1. 2 * t1 \in Int
    BY SmallWords
  <2> QED
    BY <2>1, ModWord
<1>2. ToWord(2 * t1) = 2 * (t1 + c * Half) /\ t1 + c * Half \in Int
  <2>1. c * (2 * Half) = 2 * (c * Half) /\ t1 \in Nat
    BY PowFacts, SmallWords
  <2> QED
    BY <1>1, <2>1, PowFacts
<1>3. ToWord(2 * t1) \in Word
  BY SmallWords, ModWord
<1>4. (a0 \div t3) % 2 \in {0, 1}
  <2>1. a0 \div t3 \in Int
    BY SmallWords, DivMod
  <2> QED
    BY <2>1
<1> DEFINE h == t1 + c * Half
<1>5. h \in Int /\ ToWord(2 * t1) = 2 * h
  BY <1>2
<1> HIDE DEF h
<1>6. ToWord(2 * t1) + ((a0 \div t3) % 2) \in Word
  BY <1>3, <1>4, <1>5, PowFacts DEF Word
<1> QED
  BY <1>6 DEF Shifted

\* What a pass of asm_div keeps, when no comparison meets a negative word.
LEMMA ShiftingKept ==
  ASSUME TypeOK, DivStep, Small(a0, a1), Shifting, NEW m \in Nat, m > 0, t3 = m
  PROVE  /\ t1' < a1
         /\ \E q \in Nat, l \in Nat :
              t0' = q * m /\ a0 = (q * a1 + t1') * m + l /\ l < m
<1>1. PICK q \in Nat, l \in Nat :
        /\ t0 = q * (2 * m) /\ a0 = (q * a1 + t1) * (2 * m) + l
        /\ l < 2 * m /\ t1 < a1
  BY DEF Shifting
<1>2. a0 \in Word /\ a1 \in Word /\ t1 \in Nat /\ a1 \in Nat /\ a0 \in Nat
  BY SmallWords DEF TypeOK
<1>3. PICK b \in {0, 1}, k \in Nat :
        /\ k < m
        /\ a0 = (2 * (q * a1 + t1) + b) * m + k
        /\ (a0 \div m) % 2 = b
        /\ ToWord(2 * t1) + b = 2 * t1 + b
        /\ 2 * t1 + b < Half
        /\ a1 < Half
  BY <1>1, <1>2, DivPass
<1> DEFINE s == 2 * t1 + b
<1>4. Shifted = s /\ s \in Nat /\ s < Half
  BY <1>2, <1>3 DEF Shifted
<1>5. Fits <=> s >= a1
  <2>1. Signed(Shifted) = s /\ Signed(a1) = a1
    BY <1>2, <1>3, <1>4, PowFacts DEF Signed, Negative
  <2> QED
    BY <2>1 DEF Fits
<1>6. a0 = (2 * (q * a1) + s) * m + k
  BY <1>2, <1>3
<1>7. s < 2 * a1
  BY <1>1, <1>2
<1> HIDE DEF s
<1>8. CASE Fits
  <2>1. s - a1 \in Word /\ s - a1 < a1 /\ s - a1 \in Nat
    BY <1>2, <1>4, <1>5, <1>7, <1>8, PowFacts DEF Word
  <2>2. t1' = s - a1 /\ t0' = t0 + m
    BY <1>4, <1>8, <2>1, ModSame DEF DivStep
  <2>3. t0' = (2 * q + 1) * m
    <3>1. q * (2 * m) = (2 * q) * m
      OBVIOUS
    <3> QED
      BY <1>1, <2>2, <3>1
  <2>4. a0 = ((2 * q + 1) * a1 + t1') * m + k
    <3>1. (2 * q + 1) * a1 = 2 * (q * a1) + a1
      BY <1>2
    <3>2. (2 * q + 1) * a1 + t1' = 2 * (q * a1) + s
      BY <1>2, <1>4, <2>2, <3>1
    <3> QED
      BY <1>6, <3>2
  <2> QED
    BY <1>3, <2>1, <2>2, <2>3, <2>4
<1>9. CASE ~Fits
  <2>1. t1' = s /\ t0' = t0 /\ s < a1
    BY <1>2, <1>4, <1>5, <1>9 DEF DivStep
  <2>2. t0' = (2 * q) * m
    <3>1. q * (2 * m) = (2 * q) * m
      OBVIOUS
    <3> QED
      BY <1>1, <2>1, <3>1
  <2>3. a0 = ((2 * q) * a1 + t1') * m + k
    <3>1. (2 * q) * a1 = 2 * (q * a1)
      BY <1>2
    <3> QED
      BY <1>6, <2>1, <3>1
  <2> QED
    BY <1>3, <2>1, <2>2, <2>3
<1> QED
  BY <1>8, <1>9

\* A pass of asm_div.
LEMMA DivKeeps ==
  ASSUME IInv, DivStep
  PROVE  IInv'
<1>0. /\ TypeOK /\ CaseBound /\ Kept /\ Dividing /\ insn.f \in Division /\ ~Special
      /\ cause = "illegal" /\ step = "div"
      /\ insn' = insn /\ saved' = saved /\ regs' = regs /\ cause' = cause
      /\ test' = test /\ at' = at /\ verdict' = verdict /\ irqs' = irqs
      /\ a0' = a0 /\ a1' = a1
      /\ a0 \in Word /\ a1 \in Word /\ t0 \in Word /\ t1 \in Word
  BY DEF IInv, Control, DivStep, program, TypeOK
<1>1. N' = N /\ D' = D /\ (Special <=> Special')
      /\ Magnitude(N)' = Magnitude(N) /\ Magnitude(D)' = Magnitude(D)
  BY <1>0, SameCase
<1>2. /\ a0 = Magnitude(N) /\ a1 = Magnitude(D)
      /\ t0 + 2 * t3 <= Pow[Width]
      /\ Small(a0, a1) => Shifting
  BY <1>0 DEF Dividing
<1>3. PICK k \in 0 .. Width - 1 : t3 = Pow[k]
  BY <1>0 DEF Dividing
<1>4. /\ t3 \in Nat /\ t3 > 0
      /\ \/ t3 = 1 /\ t3 \div 2 = 0
         \/ /\ t3 = 2 * (t3 \div 2) /\ t3 \div 2 # 0
            /\ \E i \in 0 .. Width - 1 : t3 \div 2 = Pow[i]
  BY <1>3, MaskFacts
<1>5. /\ t3' = t3 \div 2
      /\ step' = IF t3' = 0 THEN "store" ELSE "div"
      /\ t1' = IF Fits THEN ToWord(Shifted - a1) ELSE Shifted
      /\ t0' = IF Fits THEN t0 + t3 ELSE t0
  BY DEF DivStep
<1>6. TypeOK'
  <2>1. t1' \in Word
    <3>1. Shifted \in Word
      BY <1>0, <1>4, ShiftedWord
    <3>2. ToWord(Shifted - a1) \in Word
      BY <1>0, <3>1, SmallWords, ModWord
    <3> QED
      BY <1>5, <3>1, <3>2
  <2>2. t0' \in Word
    BY <1>0, <1>2, <1>4, <1>5, PowFacts DEF Word
  <2>3. t3' \in Word
    BY <1>2, <1>4, <1>5, <1>0, PowFacts DEF Word
  <2> QED
    BY <1>0, <1>5, <2>1, <2>2, <2>3 DEF TypeOK
<1>7. CaseBound' /\ Control' /\ Kept'
  BY <1>0, <1>1, <1>5 DEF CaseBound, Control, Kept, Division, Undone
<1>8. Small(a0, a1) =>
        /\ t1' < a1
        /\ \E q \in Nat, l \in Nat :
             t0' = q * t3 /\ a0 = (q * a1 + t1') * t3 + l /\ l < t3
  BY <1>0, <1>2, <1>4, ShiftingKept
<1>9. Dividing'
  <2> SUFFICES ASSUME step' = "div" PROVE Dividing'
    BY DEF Dividing
  <2>1. /\ t3 = 2 * t3'
        /\ \E i \in 0 .. Width - 1 : t3' = Pow[i]
    BY <1>4, <1>5
  <2>2. t0' + 2 * t3' <= Pow[Width]
    BY <1>0, <1>2, <1>4, <1>5, <2>1, PowFacts DEF Word
  <2>3. Small(a0, a1)' => Shifting'
    BY <1>0, <1>8, <2>1 DEF Shifting, Small
  <2> QED
    BY <1>0, <1>1, <1>2, <2>1, <2>2, <2>3 DEF Dividing
<1>10. Stored'
  <2> SUFFICES ASSUME step' = "store" PROVE Divided'
    BY <1>0, <1>1 DEF Stored, Division
  <2>1. t3 = 1
    BY <1>4, <1>5
  <2>2. ASSUME Small(a0, a1) PROVE t1' < a1 /\ a0 = t0' * a1 + t1'
    <3>1. PICK q \in Nat, l \in Nat :
            t0' = q * 1 /\ a0 = (q * a1 + t1') * 1 + l /\ l < 1
      BY <1>8, <2>1, <2>2
    <3>2. t0' = q /\ l = 0
      BY <3>1
    <3>3. q * a1 + t1' \in Int
      BY <1>0, <1>6, SmallWords DEF TypeOK
    <3> QED
      BY <1>8, <2>2, <3>1, <3>2, <3>3
  <2> QED
    BY <1>0, <1>1, <1>2, <2>2 DEF Divided, Small
<1> QED
  BY <1>0, <1>5, <1>6, <1>7, <1>9, <1>10 DEF IInv, Multiplying, Answered

\* The result goes to the copy of rd on the stack.
LEMMA StoreKeeps ==
  ASSUME IInv, Store
  PROVE  IInv'
<1>0. /\ TypeOK /\ CaseBound /\ Kept /\ Control /\ Stored
      /\ step = "store" /\ cause = "illegal" /\ insn.f \notin Undone
      /\ step' = "return" /\ insn' = insn /\ regs' = regs /\ cause' = cause
      /\ test' = test /\ at' = at /\ verdict' = verdict /\ irqs' = irqs
      /\ a0' = a0 /\ a1' = a1 /\ t0' = t0 /\ t1' = t1 /\ t3' = t3
      /\ saved' = [saved EXCEPT ![insn.rd] = Result]
  BY DEF IInv, Control, Store, program, work, Result
<1>1. insn.rd \in Reg /\ insn.rs1 \in Reg /\ insn.rs2 \in Reg
      /\ saved \in [Reg -> Word] /\ regs \in [Reg -> Word]
  BY <1>0 DEF TypeOK, Insn
<1>2. Result \in Word
  <2>1. a0 \in Word /\ t0 \in Word /\ t1 \in Word
    BY <1>0 DEF TypeOK
  <2>2. Invert(t0) \in Word /\ Invert(t1) \in Word
    BY <2>1, SmallWords, ModWord DEF Invert
  <2> QED
    BY <2>1, <2>2 DEF Result, Quotient, Remainder
<1>3. TypeOK'
  BY <1>0, <1>1, <1>2 DEF TypeOK
<1>4. CaseBound' /\ Control'
  BY <1>0 DEF CaseBound, Control
<1>5. Kept'
  BY <1>0, <1>1 DEF Kept, Writes
<1>6. Answered'
  <2> SUFFICES ASSUME PlainForm(insn), Supported(insn.f, regs[insn.rs1], regs[insn.rs2])
               PROVE  saved'[insn.rd] = Expected(insn.f, regs[insn.rs1], regs[insn.rs2])
    BY <1>0 DEF Answered, PlainForm, Supported, Expected
  <2>1. N = regs[insn.rs1] /\ D = regs[insn.rs2]
    BY <1>0, <1>1 DEF Kept, PlainForm, N, D
  <2>2. Result = Expected(insn.f, N, D)
    BY <1>0, <2>1, ResultRight
  <2> QED
    BY <1>0, <1>1, <2>1, <2>2
<1> QED
  BY <1>0, <1>3, <1>4, <1>5, <1>6 DEF IInv, Multiplying, Dividing, Stored

\* The registers are popped.
LEMMA ReturnKeeps ==
  ASSUME IInv, Return
  PROVE  IInv'
<1>0. /\ TypeOK /\ CaseBound /\ step' \in {"code", "check"} /\ cause' = "none"
      /\ insn' = insn /\ saved' = saved
      /\ test' = test /\ at' = at /\ verdict' = verdict /\ irqs' = irqs
      /\ a0' = a0 /\ a1' = a1 /\ t0' = t0 /\ t1' = t1 /\ t3' = t3
  BY DEF IInv, Return, program, work
<1>1. regs' \in [Reg -> Word]
  <2>1. regs \in [Reg -> Word] /\ saved \in [Reg -> Word] /\ Link \in Word
    BY <1>0, InputAssumption DEF TypeOK
  <2>2. ToWord(regs[2] - 4) \in Word
    <3>1. regs[2] \in Word
      BY <2>1 DEF Reg
    <3> QED
      BY <3>1, SmallWords, ModWord
  <2> QED
    BY <2>1, <2>2 DEF Return
<1>2. TypeOK'
  BY <1>0, <1>1 DEF TypeOK
<1> QED
  BY <1>0, <1>2
  DEF IInv, CaseBound, Control, Kept, Multiplying, Dividing, Stored, Answered

LEMMA StepKeeps == IInv /\ [Next]_vars => IInv'
<1> SUFFICES ASSUME IInv, [Next]_vars PROVE IInv'
  OBVIOUS
<1>1. CASE Load \/ Illegal \/ Interrupt \/ Advance \/ Finish
  BY <1>1, ProgramKeeps
<1>2. CASE Multiply \/ DivideSpecial \/ Divide \/ Skip
  BY <1>2, DecodeKeeps
<1>3. CASE MulStep
  BY <1>3, MulKeeps
<1>4. CASE DivStep
  BY <1>4, DivKeeps
<1>5. CASE Store
  BY <1>5, StoreKeeps
<1>6. CASE Return
  BY <1>6, ReturnKeeps
<1>7. CASE UNCHANGED vars
  <2>1. N' = N /\ D' = D /\ (Special <=> Special')
        /\ Magnitude(N)' = Magnitude(N) /\ Magnitude(D)' = Magnitude(D)
    BY <1>7, SameCase DEF vars
  <2>2. TypeOK' /\ CaseBound' /\ Control' /\ Kept' /\ Answered'
    BY <1>7, <2>1 DEF vars, IInv, TypeOK, CaseBound, Control, Kept, Writes, Answered
  <2>3. Multiplying' /\ Dividing' /\ Stored'
    BY <1>7, <2>1
    DEF vars, IInv, Multiplying, Dividing, Shifting, Stored, Divided, Small, Product, ToWord
  <2> QED
    BY <2>2, <2>3 DEF IInv
<1> QED
  BY <1>1, <1>2, <1>3, <1>4, <1>5, <1>6, <1>7 DEF Next, Handler, Ended

\* Fairness plays no part in what is safe.
Safe == Init /\ [][Next]_vars

LEMMA InvHolds == Safe => []IInv
BY InitInv, StepKeeps, PTL DEF Safe

LEMMA SpecSafe == Spec => Safe
BY PTL DEF Spec, Safe

-----------------------------------------------------------------------------
(* Theorems *)

\* The registers of program and handler hold words of Width bits, and the case
\* that runs is an instruction (trap.c:33).
THEOREM TypeCorrect == Spec => []TypeOK
<1>1. IInv => TypeOK
  BY DEF IInv
<1> QED
  BY <1>1, InvHolds, SpecSafe, PTL

LEMMA LongDivisionSafe == Safe => []LongDivision
<1>1. IInv => LongDivision
  <2> SUFFICES ASSUME IInv, step = "div", Small(a0, a1)
               PROVE  /\ t1 < a1
                      /\ t0 % (2 * t3) = 0
                      /\ a0 \div (2 * t3) = (t0 \div (2 * t3)) * a1 + t1
    BY DEF LongDivision
  <2>1. Shifting /\ TypeOK
    BY DEF IInv, Dividing
  <2>2. PICK q \in Nat, l \in Nat :
          /\ t0 = q * (2 * t3) /\ a0 = (q * a1 + t1) * (2 * t3) + l
          /\ l < 2 * t3 /\ t1 < a1
    BY <2>1 DEF Shifting
  <2> DEFINE d == 2 * t3
             h == q * a1 + t1
  <2>3. d \in Nat /\ h \in Int /\ t0 = q * d + 0 /\ a0 = h * d + l /\ l < d /\ 0 < d
    BY <2>1, <2>2, SmallWords DEF TypeOK
  <2> HIDE DEF d, h
  <2>4. t0 \div d = q /\ t0 % d = 0 /\ a0 \div d = h
    BY <2>3, DivUnique
  <2> QED
    BY <2>2, <2>4 DEF d, h
<1> QED
  BY <1>1, InvHolds, PTL

\* asm_div is long division (trap.c:162), in words of every width.
THEOREM LongDivisionHolds == Spec => []LongDivision
BY LongDivisionSafe, SpecSafe, PTL

\* What the return of the handler leaves in the registers.
LEMMA ReturnEmulates ==
  ASSUME IInv, Return
  PROVE  LET x == regs[insn.rs1]
             y == regs[insn.rs2]
             writes == cause = "illegal" /\ insn.f \notin Undone
         IN /\ \A r \in Reg \ {1, 2} : ~(writes /\ r = insn.rd) => regs'[r] = regs[r]
            /\ writes /\ PlainForm(insn) /\ Supported(insn.f, x, y) /\ insn.rd # 0
                 => regs'[insn.rd] = Expected(insn.f, x, y)
<1> DEFINE x == regs[insn.rs1]
           y == regs[insn.rs2]
           writes == cause = "illegal" /\ insn.f \notin Undone
<1>1. /\ step = "return" /\ regs' = [r \in Reg |-> IF r \in Restored THEN saved[r]
                          ELSE IF r = 1 THEN Link
                          ELSE IF r = 2 THEN ToWord(regs[2] - 4) ELSE regs[r]]
      /\ Kept /\ Answered /\ insn.rd \in Reg
  BY DEF IInv, Return, TypeOK, Insn
<1>2. ASSUME NEW r \in Reg \ {1, 2}, ~(writes /\ r = insn.rd)
      PROVE  regs'[r] = regs[r]
  BY <1>1, <1>2 DEF Kept, Writes
<1>3. ASSUME writes, PlainForm(insn), Supported(insn.f, x, y), insn.rd # 0
      PROVE  regs'[insn.rd] = Expected(insn.f, x, y)
  <2>1. insn.rd \in Restored
    BY <1>3 DEF PlainForm
  <2>2. saved[insn.rd] = Expected(insn.f, x, y)
    BY <1>1, <1>3 DEF Answered, Writes
  <2> QED
    BY <1>1, <2>1, <2>2
<1> QED
  BY <1>2, <1>3

LEMMA EmulatedSafe == Safe => Emulated
<1>1. IInv /\ [Next]_vars =>
        [Return =>
           LET x == regs[insn.rs1]
               y == regs[insn.rs2]
               writes == cause = "illegal" /\ insn.f \notin Undone
           IN /\ \A r \in Reg \ {1, 2} : ~(writes /\ r = insn.rd) => regs'[r] = regs[r]
              /\ writes /\ PlainForm(insn) /\ Supported(insn.f, x, y) /\ insn.rd # 0
                   => regs'[insn.rd] = Expected(insn.f, x, y)]_vars
  BY ReturnEmulates
<1> QED
  BY <1>1, InvHolds, PTL DEF Safe, Emulated

\* The handler emulates RV32M and leaves everything else alone (trap.S:112),
\* in words of every width.
THEOREM EmulationHolds == Spec => Emulated
BY EmulatedSafe, SpecSafe, PTL

-----------------------------------------------------------------------------
(* The self tests *)

\* A number and the word that stands for it.
LEMMA WordOf ==
  ASSUME NEW x \in Int, -Half <= x, x < Half
  PROVE  /\ ToWord(x) \in Word /\ Signed(ToWord(x)) = x
         /\ x >= 0 => ToWord(x) = x
         /\ ToWord(x) = 0 <=> x = 0
<1>0. Half \in Nat /\ Half > 0 /\ Pow[Width] = 2 * Half
  BY PowFacts
<1>1. CASE x >= 0
  <2>1. x \in Word
    BY <1>0, <1>1 DEF Word
  <2>2. ToWord(x) = x
    BY <2>1, ModSame
  <2> QED
    BY <1>0, <1>1, <2>1, <2>2 DEF Signed, Negative
<1>2. CASE x < 0
  <2>1. -x \in Word /\ -x # 0 /\ -(-x) = x
    BY <1>0, <1>2 DEF Word
  <2>2. ToWord(-(-x)) = Pow[Width] - (-x)
    BY <2>1, ModNegative
  <2>3. ToWord(x) = Pow[Width] + x
    BY <2>1, <2>2, <1>0
  <2> QED
    BY <1>0, <1>2, <2>3 DEF Signed, Negative, Word
<1> QED
  BY <1>1, <1>2

\* What a case of a self test expects is what RV32M says, and the handler
\* supports it.
Right(c) ==
  /\ c.rs1 = 5 /\ c.rs2 = 6 /\ c.rd = 7 /\ c.f \notin Undone
  /\ Supported(c.f, c.n, c.d)
  /\ Expected(c.f, c.n, c.d) = c.want

LEMMA CaseFields ==
  ASSUME NEW f, NEW n, NEW d, NEW want
  PROVE  LET c == Case(f, n, d, want)
         IN /\ c.rs1 = 5 /\ c.rs2 = 6 /\ c.rd = 7 /\ c.f = f
            /\ c.n = ToWord(n) /\ c.d = ToWord(d) /\ c.want = ToWord(want)
BY DEF Case

LEMMA MulCase ==
  ASSUME NEW n \in Nat, NEW d \in Nat, n < Half, d < Half
  PROVE  Right(Case("mul", n, d, n * d))
<1>1. ToWord(n) = n /\ ToWord(d) = d
  BY WordOf, PowFacts
<1>2. Expected("mul", ToWord(n), ToWord(d)) = ToWord(n * d)
  BY <1>1 DEF Expected, Product
<1>3. Supported("mul", ToWord(n), ToWord(d)) /\ "mul" \notin Undone
  BY DEF Supported, Undone, SignedDivision
<1> QED
  BY <1>2, <1>3, CaseFields DEF Right

\* A division by a number that is not 0 of numbers whose words can be read as
\* signed ones.
LEMMA DivCase ==
  ASSUME NEW n \in Int, NEW d \in Int, -Half < n, n < Half, -Half < d, d < Half, d # 0
  PROVE  /\ Right(Case("div", n, d, Truncated(n, d)))
         /\ n < 0 \/ d > 0 => Right(Case("rem", n, d, n - d * Truncated(n, d)))
<1>0. Half \in Nat
  BY PowFacts
<1>1. /\ Signed(ToWord(n)) = n /\ Signed(ToWord(d)) = d /\ ToWord(d) # 0
  BY <1>0, WordOf
<1>2. /\ Expected("div", ToWord(n), ToWord(d)) = ToWord(Truncated(n, d))
      /\ Expected("rem", ToWord(n), ToWord(d)) = ToWord(n - d * Truncated(n, d))
  BY <1>1 DEF Expected, Quot, Rem
<1>3. Small(Abs(n), Abs(d))
  BY <1>0 DEF Small, Abs
<1>4. /\ Supported("div", ToWord(n), ToWord(d)) /\ "div" \notin Undone
      /\ n < 0 \/ d > 0 => Supported("rem", ToWord(n), ToWord(d)) /\ "rem" \notin Undone
  BY <1>1, <1>3, <1>0 DEF Supported, Undone, SignedDivision
<1> QED
  BY <1>2, <1>4, CaseFields DEF Right

\* The divisions by zero, and the one that overflows.
LEMMA SpecialCase ==
  ASSUME NEW n \in Int, -Half < n, n < Half
  PROVE  /\ Right(Case("div", n, 0, -1)) /\ Right(Case("rem", n, 0, n))
         /\ Right(Case("div", Half, -1, Half)) /\ Right(Case("rem", Half, -1, 0))
<1>0. Half \in Nat /\ Half > 0 /\ Pow[Width] = 2 * Half
  BY PowFacts
<1>1. /\ ToWord(0) = 0 /\ ToWord(-1) # 0 /\ Signed(ToWord(-1)) = -1
  BY <1>0, WordOf
<1>2. ToWord(Half) = Half /\ Signed(Half) = -Half
  <2>1. Half \in Word
    BY <1>0 DEF Word
  <2> QED
    BY <1>0, <2>1, ModSame DEF Signed, Negative
<1>3. Truncated(-Half, -1) = Half
  BY <1>0 DEF Truncated, Abs
<1>4. /\ Expected("div", ToWord(n), ToWord(0)) = ToWord(-1)
      /\ Expected("rem", ToWord(n), ToWord(0)) = ToWord(n)
  BY <1>1 DEF Expected, Quot, Rem
<1>5. /\ Expected("div", ToWord(Half), ToWord(-1)) = ToWord(Half)
      /\ Expected("rem", ToWord(Half), ToWord(-1)) = ToWord(0)
  <2>1. -Half - (-1) * Half = 0
    BY <1>0
  <2> QED
    BY <1>1, <1>2, <1>3, <2>1 DEF Expected, Quot, Rem
<1>6. /\ Supported("div", ToWord(n), ToWord(0)) /\ "div" \notin Undone
      /\ Supported("rem", ToWord(n), ToWord(0)) /\ "rem" \notin Undone
  <2>1. Signed(0) = 0
    BY <1>0 DEF Signed, Negative
  <2> QED
    BY <1>1, <2>1 DEF Supported, Undone, SignedDivision
<1>7. /\ Supported("div", ToWord(Half), ToWord(-1))
      /\ Supported("rem", ToWord(Half), ToWord(-1))
  BY <1>0, <1>1, <1>2 DEF Supported, Undone, SignedDivision
<1> QED
  BY <1>4, <1>5, <1>6, <1>7, CaseFields DEF Right

LEMMA SuitesRight ==
  ASSUME Half > 639, NEW t \in Tests, NEW k \in 1 .. Len(Suite(t))
  PROVE  Right(Suite(t)[k])
<1>0. Half \in Nat
  BY PowFacts
<1>1. /\ Truncated(6, 3) = 2 /\ Truncated(639, 14) = 45 /\ Truncated(-10, 3) = -3
      /\ Truncated(-23, -15) = 1 /\ Truncated(28, 5) = 5 /\ Truncated(-513, 10) = -51
      /\ Truncated(-31, -6) = 5
  BY DEF Truncated, Abs
<1>2. /\ 28 - 5 * 5 = 3 /\ -513 - 10 * (-51) = -3 /\ -31 - (-6) * 5 = -1
      /\ 6 * 3 = 18 /\ 2 * 18 = 36
  OBVIOUS
<1>3. /\ Right(Case("div", 6, 3, 2)) /\ Right(Case("div", 639, 14, 45))
      /\ Right(Case("div", -10, 3, -3)) /\ Right(Case("div", -23, -15, 1))
  BY <1>0, <1>1, DivCase
<1>4. /\ Right(Case("rem", 28, 5, 3)) /\ Right(Case("rem", -513, 10, -3))
      /\ Right(Case("rem", -31, -6, -1))
  BY <1>0, <1>1, <1>2, DivCase, SMTT(30)
<1>5. Right(Case("mul", 6, 3, 18)) /\ Right(Case("mul", 2, 18, 36))
  BY <1>0, <1>2, MulCase
<1>6. /\ Right(Case("div", -23, 0, -1)) /\ Right(Case("rem", 9, 0, 9))
      /\ Right(Case("div", Half, -1, Half)) /\ Right(Case("rem", Half, -1, 0))
  BY <1>0, SpecialCase
<1> HIDE DEF Case
<1>7. CASE t = "div.c"
  <2>1. Suite(t) = DivTest /\ k \in {1, 2, 3, 4, 5, 6}
    BY <1>7 DEF Suite, DivTest
  <2> QED
    BY <2>1, <1>3, <1>6 DEF DivTest
<1>8. CASE t = "rem.c"
  <2>1. Suite(t) = RemTest /\ k \in {1, 2, 3, 4, 5}
    BY <1>8 DEF Suite, RemTest
  <2> QED
    BY <2>1, <1>4, <1>6 DEF RemTest
<1>9. CASE t = "mul.c"
  <2>1. Suite(t) = MulTest /\ k \in {1, 2}
    BY <1>9 DEF Suite, MulTest
  <2> QED
    BY <2>1, <1>5 DEF MulTest
<1> QED
  BY <1>7, <1>8, <1>9 DEF Tests

\* A test has the operands of its case in the registers until the handler
\* returns, and then the result.
OnCase ==
  /\ verdict # "fail"
  /\ test \in Tests =>
       /\ at \in 1 .. Len(Suite(test)) /\ insn = Suite(test)[at]
       /\ step \notin {"load", "check", "ended"} =>
            regs[insn.rs1] = insn.n /\ regs[insn.rs2] = insn.d
       /\ step = "check" => regs[insn.rd] = insn.want

LEMMA OnCaseInit == Init => OnCase
<1>1. ASSUME NEW t \in Tests PROVE 1 \in 1 .. Len(Suite(t))
  BY SuiteSeq
<1>2. Init => /\ verdict = "running" /\ step = "load" /\ at = 1
              /\ test \in Tests => insn = Suite(test)[1]
  BY DEF Init, Tests
<1> QED
  BY <1>1, <1>2 DEF OnCase

LEMMA OnCaseStep ==
  ASSUME Half > 639, IInv, OnCase, [Next]_vars
  PROVE  OnCase'
<1>1. ASSUME test \in Tests
      PROVE  /\ at \in 1 .. Len(Suite(test)) /\ insn = Suite(test)[at] /\ Right(insn)
             /\ insn.rs1 = 5 /\ insn.rs2 = 6 /\ insn.rd = 7
  BY <1>1, SuitesRight DEF OnCase, Right
<1>2. regs \in [Reg -> Word] /\ 5 \in Reg /\ 6 \in Reg /\ 7 \in Reg
  BY DEF IInv, TypeOK, Reg
<1>3. CASE Load
  <2>1. /\ test' = test /\ at' = at /\ insn' = insn /\ verdict' = verdict /\ step' = "code"
        /\ regs' = Written(Written(regs, insn.rs1, insn.n), insn.rs2, insn.d)
    BY <1>3 DEF Load, program
  <2>2. test \in Tests => regs'[5] = insn.n /\ regs'[6] = insn.d
    BY <2>1, <1>1, <1>2 DEF Written
  <2> QED
    BY <2>1, <2>2, <1>1 DEF OnCase
<1>4. CASE Illegal \/ Interrupt \/ Multiply \/ DivideSpecial \/ Divide \/ Skip \/ MulStep
           \/ DivStep \/ Store
  <2>1. /\ test' = test /\ at' = at /\ insn' = insn /\ verdict' = verdict /\ regs' = regs
        /\ step \notin {"load", "check", "ended"} /\ step' \notin {"load", "check", "ended"}
    BY <1>4 DEF Illegal, Interrupt, Multiply, DivideSpecial, Divide, Skip, MulStep, DivStep,
       Store, program
  <2> QED
    BY <2>1 DEF OnCase
<1>5. CASE Return
  <2>1. /\ test' = test /\ at' = at /\ insn' = insn /\ verdict' = verdict
        /\ step = "return" /\ step' \in {"code", "check"}
        /\ step' = "check" <=> cause # "interrupt"
        /\ cause \in {"illegal", "interrupt"}
    BY <1>5 DEF Return, program, IInv, Control
  <2>2. ASSUME test \in Tests
        PROVE  /\ cause = "interrupt" => regs'[5] = regs[5] /\ regs'[6] = regs[6]
               /\ cause = "illegal" => regs'[7] = insn.want
    <3>1. regs[5] = insn.n /\ regs[6] = insn.d
      BY <2>1, <2>2, <1>1 DEF OnCase
    <3>2. /\ PlainForm(insn) /\ Supported(insn.f, regs[insn.rs1], regs[insn.rs2])
          /\ Expected(insn.f, regs[insn.rs1], regs[insn.rs2]) = insn.want
          /\ insn.f \notin Undone
      BY <3>1, <1>1, <2>2 DEF Right, PlainForm, Restored
    <3>3. cause = "illegal" => regs'[7] = insn.want
      BY <3>2, <1>1, <1>5, <2>2, ReturnEmulates
    <3>4. cause = "interrupt" => regs'[5] = regs[5] /\ regs'[6] = regs[6]
      BY <1>2, <1>5, ReturnEmulates
    <3> QED
      BY <3>3, <3>4
  <2> QED
    BY <2>1, <2>2, <1>1 DEF OnCase
<1>6. CASE Advance
  <2>1. /\ test' = test /\ at' = at + 1 /\ insn' = Suite(test)[at + 1] /\ verdict' = verdict
        /\ step' = "load" /\ ~LastCase
    BY <1>6 DEF Advance
  <2>2. ASSUME test \in Tests PROVE at + 1 \in 1 .. Len(Suite(test))
    <3>1. at # Len(Suite(test)) /\ Len(Suite(test)) \in Nat
      BY <2>1, <2>2, SuiteSeq DEF LastCase
    <3> QED
      BY <3>1, <2>2, <1>1
  <2> QED
    BY <2>1, <2>2 DEF OnCase
<1>7. CASE Finish
  <2>1. /\ test' = test /\ at' = at /\ insn' = insn /\ step = "check" /\ step' = "ended"
        /\ verdict' = IF Passed THEN "success" ELSE "fail"
    BY <1>7 DEF Finish
  <2>2. Passed
    BY <2>1 DEF OnCase, Passed, IInv, TypeOK
  <2> QED
    BY <2>1, <2>2 DEF OnCase
<1>8. CASE UNCHANGED vars
  BY <1>8 DEF OnCase, vars
<1> QED
  BY <1>3, <1>4, <1>5, <1>6, <1>7, <1>8 DEF Next, Handler, Ended

LEMMA PassesSafe ==
  ASSUME Half > 639
  PROVE  Safe => [](verdict # "fail")
<1>1. OnCase => verdict # "fail"
  BY DEF OnCase
<1> QED
  BY <1>1, OnCaseInit, OnCaseStep, InvHolds, PTL DEF Safe

(***************************************************************************)
(* In words of every width that can hold the operands, which the 32 bits   *)
(* of the code can: div.c, rem.c and mul.c never reach TEST_FINISH_FAIL,   *)
(* however often they are interrupted (div.c:36, rem.c:35, mul.c:41).      *)
(***************************************************************************)
THEOREM SelfTestsPass ==
  ASSUME Half > 639
  PROVE  Spec => [](verdict # "fail")
BY PassesSafe, SpecSafe, PTL
===============================================================================
