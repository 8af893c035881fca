--------------------------- MODULE Testbench_proofs ---------------------------
(* For words of every width, program files and requests of every kind: the  *)
(* types of the test bench, its handshake, its memory, and the interrupt    *)
(* lines.                                                                    *)
EXTENDS Testbench, WellFoundedInduction, TLAPS

-----------------------------------------------------------------------------
(* Induction on the natural numbers, with sets for the predicates and        *)
(* functions for the steps: a recursive function is what its equations say.  *)

Less == {ss \in Nat \X Nat : ss[1] < ss[2]}

LEMMA LessWellFounded == IsWellFoundedOn(Less, Nat)
BY NatLessThanWellFounded, Zenon DEF OpToRel, Less

\* A set of numbers that is not empty has a least element.
LEMMA Least ==
  ASSUME NEW S, S \subseteq Nat, S # {}
  PROVE  \E n \in S : \A m \in S : n <= m
<1>1. PICK n \in S : \A m \in S : ~(<<m, n>> \in Less)
  BY LessWellFounded, WFMin, Zenon
<1>2. \A m, k \in Nat : m < k => <<m, k>> \in Less
  BY DEF Less
<1>3. ASSUME NEW m \in S PROVE n <= m
  <2>1. m \in Nat /\ n \in Nat
    OBVIOUS
  <2>2. ~(m < n)
    BY <1>1, <1>2, <2>1
  <2> QED
    BY <2>1, <2>2
<1> QED
  BY <1>3

\* A set that has 0, and with every number the next one, has all of them.
LEMMA EveryStage ==
  ASSUME NEW n \in Nat, NEW S, 0 \in S,
         \A i \in 1 .. n : i - 1 \in S => i \in S
  PROVE  \A i \in 0 .. n : i \in S
<1> DEFINE Out == {i \in Nat : i <= n /\ i \notin S}
<1>1. SUFFICES ASSUME Out # {} PROVE FALSE
  OBVIOUS
<1>2. PICK k \in Out : \A m \in Out : k <= m
  <2>1. Out \subseteq Nat
    OBVIOUS
  <2> HIDE DEF Out
  <2> QED
    BY <1>1, <2>1, Least
<1>3. k \in 1 .. n /\ k \notin S
  OBVIOUS
<1>4. k - 1 \in Nat /\ k - 1 <= n /\ ~(k <= k - 1)
  BY <1>3
<1>5. k - 1 \in S
  BY <1>2, <1>4
<1> QED
  BY <1>3, <1>5

\* What a recursion says of the stages from 0 to n.
Stages(n, T, init, step, f) ==
  /\ f \in [0 .. n -> T]
  /\ \A i \in 0 .. n : f[i] = IF i = 0 THEN init ELSE step[i][f[i - 1]]

\* A function that satisfies the equations exists.
LEMMA Recursion ==
  ASSUME NEW n \in Nat, NEW T, NEW init \in T, NEW step \in [1 .. n -> [T -> T]]
  PROVE  \E f : Stages(n, T, init, step, f)
<1> DEFINE S == {k \in 0 .. n : \E f : Stages(k, T, init, step, f)}
<1>1. 0 \in S
  <2>1. Stages(0, T, init, step, [i \in 0 .. 0 |-> init])
    BY DEF Stages
  <2> QED
    BY <2>1
<1>2. ASSUME NEW k \in 1 .. n, k - 1 \in S PROVE k \in S
  <2>1. PICK g : Stages(k - 1, T, init, step, g)
    BY <1>2
  <2> DEFINE h == [i \in 0 .. k |-> IF i = k THEN step[k][g[k - 1]] ELSE g[i]]
  <2>2. g \in [0 .. k - 1 -> T]
        /\ \A i \in 0 .. k - 1 : g[i] = IF i = 0 THEN init ELSE step[i][g[i - 1]]
    BY <2>1 DEF Stages
  <2>3. g[k - 1] \in T
    BY <2>2
  <2>4. step[k][g[k - 1]] \in T
    BY <2>3
  <2>5. h \in [0 .. k -> T]
    BY <2>2, <2>4
  <2>6. ASSUME NEW i \in 0 .. k PROVE h[i] = IF i = 0 THEN init ELSE step[i][h[i - 1]]
    <3>1. CASE i = k
      <4>1. h[i] = step[k][g[k - 1]] /\ h[i - 1] = g[i - 1] /\ i # 0
        BY <3>1
      <4> QED
        BY <3>1, <4>1
    <3>2. CASE i # k
      <4>1. i \in 0 .. k - 1
        BY <3>2
      <4>2. h[i] = g[i] /\ (i # 0 => h[i - 1] = g[i - 1])
        BY <3>2, <4>1
      <4> QED
        BY <2>2, <4>1, <4>2
    <3> QED
      BY <3>1, <3>2
  <2>7. Stages(k, T, init, step, h)
    <3> HIDE DEF h
    <3> QED
      BY <2>5, <2>6 DEF Stages
  <2> QED
    BY <2>7
<1> HIDE DEF S
<1>3. \A i \in 0 .. n : i \in S
  BY <1>1, <1>2, EveryStage
<1>4. n \in S
  BY <1>3
<1> QED
  BY <1>4 DEF S

\* What the definition of a recursive function gives: the equations hold as long
\* as the stage before is in T.
Follows(n, T, init, step, g) ==
  /\ g[0] = init
  /\ \A i \in 1 .. n : g[i - 1] \in T => g[i] = step[i][g[i - 1]]

\* It is the function of Recursion.
LEMMA RecursionUnique ==
  ASSUME NEW n \in Nat, NEW T, NEW init \in T, NEW step \in [1 .. n -> [T -> T]],
         NEW f, Stages(n, T, init, step, f),
         NEW g, Follows(n, T, init, step, g)
  PROVE  \A i \in 0 .. n : g[i] = f[i]
<1> DEFINE S == {k \in 0 .. n : g[k] = f[k]}
<1>0. f \in [0 .. n -> T] /\ \A i \in 0 .. n : f[i] = IF i = 0 THEN init ELSE step[i][f[i - 1]]
  BY DEF Stages
<1>1. 0 \in S
  BY <1>0 DEF Follows
<1>2. ASSUME NEW k \in 1 .. n, k - 1 \in S PROVE k \in S
  <2>1. k - 1 \in 0 .. n /\ k \in 0 .. n /\ k # 0 /\ g[k - 1] = f[k - 1]
    BY <1>2
  <2>2. f[k - 1] \in T /\ f[k] = step[k][f[k - 1]]
    BY <1>0, <2>1
  <2> QED
    BY <2>1, <2>2 DEF Follows
<1> HIDE DEF S
<1>3. \A i \in 0 .. n : i \in S
  BY <1>1, <1>2, EveryStage
<1> QED
  BY <1>3 DEF S

-----------------------------------------------------------------------------
(* Numbers and words *)

Positive == Nat \ {0}
PowerStep == [i \in 1 .. Lanes |-> [p \in Positive |-> Base * p]]

LEMMA Shape == Lanes \in Nat /\ Lanes >= 1 /\ Base \in Nat /\ Base >= 2
BY ShapeAssumption

\* The powers of the base are what their recursion says.
LEMMA PowerStages == Stages(Lanes, Positive, 1, PowerStep, Power)
<1>1. Lanes \in Nat /\ 1 \in Positive
  BY Shape DEF Positive
<1>2. \A p \in Positive : Base * p \in Positive
  BY Shape DEF Positive
<1>3. PowerStep \in [1 .. Lanes -> [Positive -> Positive]]
  BY <1>2 DEF PowerStep
<1>4. PICK f : Stages(Lanes, Positive, 1, PowerStep, f)
  BY <1>1, <1>3, Recursion
<1> DEFINE Is(g) == g = [n \in 0 .. Lanes |-> IF n = 0 THEN 1 ELSE Base * g[n - 1]]
<1>5. Is(f)
  <2>1. f \in [0 .. Lanes -> Positive]
        /\ \A i \in 0 .. Lanes : f[i] = IF i = 0 THEN 1 ELSE PowerStep[i][f[i - 1]]
    BY <1>4 DEF Stages
  <2>2. ASSUME NEW i \in 0 .. Lanes, i # 0 PROVE PowerStep[i][f[i - 1]] = Base * f[i - 1]
    <3>1. i \in 1 .. Lanes /\ i - 1 \in 0 .. Lanes
      BY <1>1, <2>2
    <3>2. f[i - 1] \in Positive
      BY <2>1, <3>1
    <3> QED
      BY <3>1, <3>2 DEF PowerStep
  <2>3. \A i \in 0 .. Lanes : f[i] = IF i = 0 THEN 1 ELSE Base * f[i - 1]
    BY <2>1, <2>2
  <2> QED
    BY <2>1, <2>3
<1>6. Is(Power)
  <2>1. Power = CHOOSE g : Is(g)
    BY DEF Power
  <2> HIDE DEF Is
  <2> QED
    BY <1>5, <2>1
<1> DEFINE P == Power
<1>7. P = [i \in 0 .. Lanes |-> P[i]] /\ Follows(Lanes, Positive, 1, PowerStep, P)
  <2>1. Is(P)
    BY <1>6
  <2> HIDE DEF P
  <2>2. P[0] = 1 /\ P = [i \in 0 .. Lanes |-> P[i]]
    BY <1>1, <2>1
  <2>3. ASSUME NEW i \in 1 .. Lanes, P[i - 1] \in Positive
        PROVE  P[i] = PowerStep[i][P[i - 1]]
    <3>1. P[i] = Base * P[i - 1]
      BY <1>1, <2>1
    <3> QED
      BY <2>3, <3>1 DEF PowerStep
  <2> QED
    BY <2>2, <2>3 DEF Follows
<1>8. \A i \in 0 .. Lanes : P[i] = f[i]
  <2> HIDE DEF P, Is
  <2> QED
    BY <1>1, <1>3, <1>4, <1>7, RecursionUnique
<1>9. P = f
  <2> HIDE DEF P, Is
  <2>1. f = [i \in 0 .. Lanes |-> f[i]]
    BY <1>4 DEF Stages
  <2> QED
    BY <1>7, <1>8, <2>1
<1> QED
  BY <1>4, <1>9

LEMMA PowerFacts ==
  /\ \A n \in 0 .. Lanes : Power[n] \in Nat /\ Power[n] >= 1
  /\ Power[0] = 1
  /\ \A n \in 1 .. Lanes : Power[n] = Base * Power[n - 1]
<1>1. Power \in [0 .. Lanes -> Positive]
      /\ \A i \in 0 .. Lanes : Power[i] = IF i = 0 THEN 1 ELSE PowerStep[i][Power[i - 1]]
  BY PowerStages DEF Stages
<1>2. ASSUME NEW n \in 1 .. Lanes PROVE Power[n] = Base * Power[n - 1]
  <2>1. n - 1 \in 0 .. Lanes /\ n \in 0 .. Lanes /\ n # 0
    BY Shape
  <2>2. Power[n - 1] \in Positive
    BY <1>1, <2>1
  <2> QED
    BY <1>1, <2>1, <2>2 DEF PowerStep
<1>3. \A n \in 0 .. Lanes : Power[n] \in Nat /\ Power[n] >= 1
  BY <1>1 DEF Positive
<1>4. 0 \in 0 .. Lanes
  BY Shape
<1> QED
  BY <1>1, <1>2, <1>3, <1>4

LEMMA SizeFacts == Size \in Nat /\ Size >= 1
BY PowerFacts, Shape DEF Size

LEMMA WordFacts == Zero \in Word /\ Ones \in Word
BY Shape DEF Zero, Ones, Word, Byte, Lane

LEMMA WordOfType == ASSUME NEW n \in Nat PROVE WordOf(n) \in Word
<1>1. ASSUME NEW l \in Lane PROVE (n \div Power[l]) % Base \in Byte
  <2>1. Power[l] \in Nat /\ Power[l] >= 1
    BY PowerFacts, Shape DEF Lane
  <2> DEFINE q == n \div Power[l]
  <2>2. q \in Int
    BY <2>1
  <2> HIDE DEF q
  <2>3. q % Base \in Byte
    BY <2>2, Shape DEF Byte
  <2> QED
    BY <2>3 DEF q
<1> QED
  BY <1>1 DEF WordOf, Word

LEMMA TimeWords ==
  ASSUME NEW t \in Nat
  PROVE  WordOf(t % Size) \in Word /\ WordOf(t \div Size) \in Word
<1> DEFINE s == Size
<1>1. s \in Nat /\ s >= 1
  BY SizeFacts
<1> HIDE DEF s
<1>2. t % s \in Nat /\ t \div s \in Nat
  BY <1>1
<1> QED
  BY <1>2, WordOfType DEF s

LEMMA MaskedType ==
  ASSUME NEW new \in Word, NEW old \in Word, NEW mask
  PROVE  Masked(new, old, mask) \in Word
BY DEF Masked, Word

-----------------------------------------------------------------------------
(* The number a word stands for *)

NumberStep(w) == [i \in 1 .. Lanes |-> [p \in Nat |-> p + Power[i - 1] * w[i - 1]]]

LEMMA NumberStages ==
  ASSUME NEW w \in Word
  PROVE  \E f : Stages(Lanes, Nat, 0, NumberStep(w), f) /\ Number(w) = f[Lanes]
<1>1. Lanes \in Nat /\ 0 \in Nat /\ Lanes \in 0 .. Lanes
  BY Shape
<1>2. ASSUME NEW i \in 1 .. Lanes PROVE Power[i - 1] * w[i - 1] \in Nat
  <2>1. i - 1 \in 0 .. Lanes /\ i - 1 \in Lane
    BY Shape DEF Lane
  <2>2. Power[i - 1] \in Nat /\ w[i - 1] \in Nat
    BY <2>1, PowerFacts, Shape DEF Word, Byte
  <2> QED
    BY <2>2
<1>3. NumberStep(w) \in [1 .. Lanes -> [Nat -> Nat]]
  BY <1>2 DEF NumberStep
<1>4. PICK f : Stages(Lanes, Nat, 0, NumberStep(w), f)
  BY <1>1, <1>3, Recursion
<1> DEFINE Is(g) == g = [n \in 0 .. Lanes |->
                           IF n = 0 THEN 0 ELSE g[n - 1] + Power[n - 1] * w[n - 1]]
<1>5. Is(f)
  <2>1. f \in [0 .. Lanes -> Nat]
        /\ \A i \in 0 .. Lanes : f[i] = IF i = 0 THEN 0 ELSE NumberStep(w)[i][f[i - 1]]
    BY <1>4 DEF Stages
  <2>2. ASSUME NEW i \in 0 .. Lanes, i # 0
        PROVE  NumberStep(w)[i][f[i - 1]] = f[i - 1] + Power[i - 1] * w[i - 1]
    <3>1. i \in 1 .. Lanes /\ i - 1 \in 0 .. Lanes
      BY <1>1, <2>2
    <3>2. f[i - 1] \in Nat
      BY <2>1, <3>1
    <3> QED
      BY <3>1, <3>2 DEF NumberStep
  <2>3. \A i \in 0 .. Lanes :
          f[i] = IF i = 0 THEN 0 ELSE f[i - 1] + Power[i - 1] * w[i - 1]
    BY <2>1, <2>2
  <2> QED
    BY <2>1, <2>3
<1> DEFINE P == CHOOSE g : Is(g)
<1>6. Is(P)
  <2> HIDE DEF Is
  <2> QED
    BY <1>5
<1>7. P = [i \in 0 .. Lanes |-> P[i]] /\ Follows(Lanes, Nat, 0, NumberStep(w), P)
  <2> HIDE DEF P
  <2>1. Is(P)
    BY <1>6
  <2>2. P[0] = 0 /\ P = [i \in 0 .. Lanes |-> P[i]]
    BY <1>1, <2>1
  <2>3. ASSUME NEW i \in 1 .. Lanes, P[i - 1] \in Nat
        PROVE  P[i] = NumberStep(w)[i][P[i - 1]]
    <3>1. P[i] = P[i - 1] + Power[i - 1] * w[i - 1]
      BY <1>1, <2>1
    <3> QED
      BY <2>3, <3>1 DEF NumberStep
  <2> QED
    BY <2>2, <2>3 DEF Follows
<1>8. \A i \in 0 .. Lanes : P[i] = f[i]
  <2> HIDE DEF P, Is
  <2> DEFINE T == Nat
  <2>1. 0 \in T /\ NumberStep(w) \in [1 .. Lanes -> [T -> T]]
    BY <1>3
  <2>2. Stages(Lanes, T, 0, NumberStep(w), f) /\ Follows(Lanes, T, 0, NumberStep(w), P)
    BY <1>4, <1>7
  <2> HIDE DEF T
  <2> QED
    BY <1>1, <2>1, <2>2, RecursionUnique
<1>9. Number(w) = P[Lanes]
  BY DEF Number
<1>10. Number(w) = f[Lanes]
  <2> HIDE DEF P
  <2> QED
    BY <1>1, <1>8, <1>9
<1> QED
  BY <1>4, <1>10

\* The word after a step, from the one before.
LEMMA NumberStepFacts ==
  ASSUME NEW w \in Word, NEW f, Stages(Lanes, Nat, 0, NumberStep(w), f)
  PROVE  /\ f[0] = 0
         /\ \A i \in 0 .. Lanes : f[i] \in Nat
         /\ \A i \in 1 .. Lanes : f[i] = f[i - 1] + Power[i - 1] * w[i - 1]
<1>1. f \in [0 .. Lanes -> Nat]
      /\ \A i \in 0 .. Lanes : f[i] = IF i = 0 THEN 0 ELSE NumberStep(w)[i][f[i - 1]]
  BY DEF Stages
<1>2. ASSUME NEW i \in 1 .. Lanes PROVE f[i] = f[i - 1] + Power[i - 1] * w[i - 1]
  <2>1. i - 1 \in 0 .. Lanes /\ i \in 0 .. Lanes /\ i # 0
    BY Shape
  <2>2. f[i - 1] \in Nat
    BY <1>1, <2>1
  <2> QED
    BY <1>1, <2>1, <2>2 DEF NumberStep
<1>3. 0 \in 0 .. Lanes
  BY Shape
<1> QED
  BY <1>1, <1>2, <1>3

LEMMA NumberType == ASSUME NEW w \in Word PROVE Number(w) \in Nat
<1>1. PICK f : Stages(Lanes, Nat, 0, NumberStep(w), f) /\ Number(w) = f[Lanes]
  BY NumberStages
<1>2. Lanes \in 0 .. Lanes
  BY Shape
<1> QED
  BY <1>1, <1>2, NumberStepFacts

\* The greatest word.
LEMMA NumberOnes == Number(Ones) = Size - 1
<1>1. Ones \in Word
  BY WordFacts
<1>2. PICK f : Stages(Lanes, Nat, 0, NumberStep(Ones), f) /\ Number(Ones) = f[Lanes]
  BY <1>1, NumberStages
<1> DEFINE S == {i \in 0 .. Lanes : f[i] = Power[i] - 1}
<1>3. 0 \in S
  BY <1>1, <1>2, NumberStepFacts, PowerFacts, Shape
<1>4. ASSUME NEW i \in 1 .. Lanes, i - 1 \in S PROVE i \in S
  <2>1. f[i - 1] = Power[i - 1] - 1 /\ i - 1 \in 0 .. Lanes /\ i \in 0 .. Lanes
        /\ i - 1 \in Lane
    BY <1>4, Shape DEF Lane
  <2>2. f[i] = f[i - 1] + Power[i - 1] * (Base - 1)
    BY <1>1, <1>2, <2>1, NumberStepFacts DEF Ones
  <2>3. PICK p \in Nat : p = Power[i - 1] /\ Power[i] = Base * p
    BY <2>1, PowerFacts
  <2>4. \A b \in Nat : (p - 1) + p * (b - 1) = b * p - 1
    OBVIOUS
  <2> QED
    BY <2>1, <2>2, <2>3, <2>4, Shape
<1> HIDE DEF S
<1>5. \A i \in 0 .. Lanes : i \in S
  BY <1>3, <1>4, EveryStage, Shape
<1>6. Lanes \in S
  BY <1>5, Shape
<1> QED
  BY <1>2, <1>6 DEF S, Size

LEMMA DivMod ==
  ASSUME NEW x \in Nat, NEW d \in Nat, d >= 1
  PROVE  /\ x \div d \in Nat /\ x % d \in Nat /\ x % d < d
         /\ x = (x \div d) * d + (x % d)
OBVIOUS

LEMMA DivUnique ==
  ASSUME NEW q \in Nat, NEW d \in Nat, NEW r \in Nat, r < d
  PROVE  (q * d + r) \div d = q /\ (q * d + r) % d = r
OBVIOUS

\* One more digit of a number.
LEMMA Digit ==
  ASSUME NEW n \in Nat, NEW p \in Nat, p >= 1, NEW b \in Nat, b >= 1
  PROVE  n % (b * p) = (n % p) + p * ((n \div p) % b)
<1>1. PICK q \in Nat, r \in Nat : r < p /\ n = q * p + r /\ q = n \div p /\ r = n % p
  BY DivMod
<1>2. PICK c \in Nat, d \in Nat : d < b /\ q = c * b + d /\ d = q % b
  BY DivMod
<1>3. n = c * (b * p) + (d * p + r)
  <2>1. n = (c * b + d) * p + r
    BY <1>1, <1>2
  <2>2. (c * b + d) * p + r = c * (b * p) + (d * p + r)
    OBVIOUS
  <2> QED
    BY <2>1, <2>2
<1>4. d * p + r \in Nat /\ d * p + r < b * p /\ b * p \in Nat
  <2>1. d + 1 <= b
    BY <1>2
  <2>2. (d + 1) * p <= b * p
    BY <2>1
  <2>3. (d + 1) * p = d * p + p
    OBVIOUS
  <2>4. d * p \in Nat /\ b * p \in Nat
    OBVIOUS
  <2>5. d * p + p <= b * p
    BY <2>2, <2>3
  <2> QED
    BY <1>1, <2>4, <2>5
<1>5. n % (b * p) = d * p + r
  <2> DEFINE bp == b * p
             low == d * p + r
  <2>1. n = c * bp + low /\ low \in Nat /\ low < bp /\ bp \in Nat
    BY <1>3, <1>4
  <2> HIDE DEF bp, low
  <2>2. n % bp = low
    BY <2>1, DivUnique
  <2> QED
    BY <2>2 DEF bp, low
<1>6. d * p + r = r + p * d
  BY <1>1
<1> QED
  BY <1>1, <1>2, <1>5, <1>6

\* A word stands for the number it was made of, as far as it goes.
LEMMA NumberWordOf ==
  ASSUME NEW n \in Nat PROVE Number(WordOf(n)) = n % Size
<1> DEFINE w == WordOf(n)
<1>1. w \in Word
  BY WordOfType
<1>2. PICK f : Stages(Lanes, Nat, 0, NumberStep(w), f) /\ Number(w) = f[Lanes]
  BY <1>1, NumberStages
<1> DEFINE S == {i \in 0 .. Lanes : f[i] = n % Power[i]}
<1>3. 0 \in S
  <2>1. f[0] = 0 /\ Power[0] = 1 /\ 0 \in 0 .. Lanes
    BY <1>1, <1>2, NumberStepFacts, PowerFacts, Shape
  <2>2. n % 1 = 0
    OBVIOUS
  <2> QED
    BY <2>1, <2>2
<1>4. ASSUME NEW i \in 1 .. Lanes, i - 1 \in S PROVE i \in S
  <2>1. f[i - 1] = n % Power[i - 1] /\ i - 1 \in 0 .. Lanes /\ i \in 0 .. Lanes
        /\ i - 1 \in Lane
    BY <1>4, Shape DEF Lane
  <2>2. PICK p \in Nat : p = Power[i - 1] /\ p >= 1 /\ Power[i] = Base * p
    BY <2>1, PowerFacts
  <2>3. f[i] = f[i - 1] + p * w[i - 1]
    <3> HIDE DEF w, S
    <3> QED
      BY <1>1, <1>2, <2>2, NumberStepFacts
  <2>4. w[i - 1] = (n \div p) % Base
    BY <2>1, <2>2 DEF WordOf
  <2>5. n % (Base * p) = (n % p) + p * ((n \div p) % Base)
    <3>1. PICK b \in Nat : b = Base /\ b >= 1
      BY Shape
    <3>2. n % (b * p) = (n % p) + p * ((n \div p) % b)
      BY <2>2, <3>1, Digit, ZenonT(30)
    <3> QED
      BY <3>1, <3>2
  <2>6. f[i] = n % Power[i]
    BY <2>1, <2>2, <2>3, <2>4, <2>5
  <2> QED
    BY <2>1, <2>6
<1> HIDE DEF S
<1>5. \A i \in 0 .. Lanes : i \in S
  BY <1>3, <1>4, EveryStage, Shape
<1>6. Lanes \in S
  BY <1>5, Shape
<1> QED
  BY <1>2, <1>6 DEF S, Size

\* The two halves of a 64-bit number.
LEMMA Halves ==
  ASSUME NEW t \in Nat, t < Size * Size
  PROVE  Number(WordOf(t % Size)) + Size * Number(WordOf(t \div Size)) = t
<1>1. PICK s \in Nat : s = Size /\ s >= 1
  BY SizeFacts
<1>2. PICK q \in Nat, r \in Nat : r < s /\ t = q * s + r /\ q = t \div s /\ r = t % s
  BY <1>1, DivMod
<1>3. q < s
  <2>1. SUFFICES ASSUME q >= s PROVE FALSE
    OBVIOUS
  <2>2. q * s >= s * s
    BY <2>1
  <2> QED
    BY <1>1, <1>2, <2>2
<1>4. r % s = r /\ q % s = q
  <2>1. ASSUME NEW x \in Nat, x < s PROVE x % s = x
    <3>1. (0 * s + x) % s = x
      BY <2>1, DivUnique
    <3>2. 0 * s + x = x
      OBVIOUS
    <3> QED
      BY <3>1, <3>2
  <2> QED
    BY <1>2, <1>3, <2>1
<1>5. Number(WordOf(r)) = r /\ Number(WordOf(q)) = q
  BY <1>1, <1>4, NumberWordOf
<1>6. r + s * q = t
  BY <1>2
<1> QED
  BY <1>1, <1>2, <1>5, <1>6

-----------------------------------------------------------------------------
(* Types *)

LEMMA NoReqFacts == NoReq \in Request /\ Requests \subseteq Request
BY RequestAssumption

LEMMA ReqFacts ==
  ASSUME NEW q \in Request
  PROVE  /\ q.op \in {"none", "read", "write"} /\ q.addr \in Ram \cup Device
         /\ q.data \in Word /\ q.mask \subseteq Lane
BY DEF Request

LEMMA InitType == Init => TypeOK
<1> SUFFICES ASSUME Init PROVE TypeOK
  OBVIOUS
<1>1. Zero \in Word /\ Ones \in Word /\ Data \subseteq Word /\ Requests \subseteq Request
  BY WordFacts, RequestAssumption
<1>2. DOMAIN mem \subseteq Ram /\ \A a \in DOMAIN mem : mem[a] \in Word
  <2>1. PICK word \in Data, garbage \in Data :
          mem = [a \in Image \cup {Tail} |-> IF a = Tail THEN garbage ELSE word]
    BY DEF Init
  <2> QED
    BY <1>1, <2>1 DEF Ram
<1>3. ref \in [Ram -> Word]
  BY <1>1, <1>2 DEF Init, Lookup
<1>4. 6 \in 6 .. Timeout + 1
  BY TimeAssumption
<1> QED
  BY <1>1, <1>2, <1>3, <1>4 DEF Init, TypeOK

LEMMA ReadType ==
  ASSUME TypeOK, NEW a \in Device PROVE mmio_read(a) \in Word
<1>1. sim_time \in Nat /\ mtimecmp.lo \in Word /\ mtimecmp.hi \in Word /\ msip \in Word
  <2>1. sim_time \in 6 .. Timeout + 1 /\ Timeout \in Nat
    BY TimeAssumption DEF TypeOK
  <2>2. sim_time \in Nat
    BY <2>1
  <2> QED
    BY <2>2 DEF TypeOK
<1>2. WordOf(sim_time % Size) \in Word /\ WordOf(sim_time \div Size) \in Word
  BY <1>1, TimeWords
<1>3. WordOf(1) \in Word /\ Zero \in Word
  BY WordOfType, WordFacts
<1>4. CASE a = "MTIME"
  BY <1>2, <1>4 DEF mmio_read
<1>5. CASE a = "MTIMEH"
  BY <1>2, <1>5 DEF mmio_read
<1>6. CASE a = "MTIMECMP"
  BY <1>1, <1>6 DEF mmio_read
<1>7. CASE a = "MTIMECMPH"
  BY <1>1, <1>7 DEF mmio_read
<1>8. CASE a = "MSIP"
  BY <1>1, <1>8 DEF mmio_read
<1>9. CASE a = "EXT_SET"
  BY <1>3, <1>9 DEF mmio_read
<1>10. CASE a \in {"EXT_CLEAR", "MAGIC"}
  BY <1>3, <1>10 DEF mmio_read
<1> QED
  BY <1>4, <1>5, <1>6, <1>7, <1>8, <1>9, <1>10 DEF Device

LEMMA LookupType == ASSUME TypeOK, NEW a PROVE Lookup(a) \in Word
BY WordFacts DEF TypeOK, Lookup

LEMMA LevelType ==
  ASSUME NEW d \in Interrupt, ext_int \in BOOLEAN PROVE Level(d) \in BOOLEAN
<1>1. CASE d = "soft"
  BY <1>1, Zenon DEF Level
<1>2. CASE d = "timer"
  <2>1. Level(d) = (Compare <= sim_time)
    BY <1>2, Zenon DEF Level
  <2>2. (Compare <= sim_time) \in BOOLEAN
    OBVIOUS
  <2> QED
    BY <2>1, <2>2
<1>3. CASE d = "ext"
  <2>1. Level(d) = ext_int
    BY <1>3, Zenon DEF Level
  <2> QED
    BY <2>1
<1> QED
  BY <1>1, <1>2, <1>3 DEF Interrupt

\* The memory, the devices and the bus.
ServiceOK ==
  /\ DOMAIN mem \subseteq Ram /\ \A a \in DOMAIN mem : mem[a] \in Word
  /\ msip \in Word /\ ext_int \in BOOLEAN
  /\ mtimecmp \in [lo : Word, hi : Word]
  /\ busy \in BOOLEAN /\ rdata \in Word
  /\ wrote \subseteq Ram \X Lane /\ ref \in [Ram -> Word]

LEMMA PassType == ASSUME TypeOK, Pass PROVE ServiceOK'
<1>1. req \in Request /\ req.data \in Word /\ req.mask \subseteq Lane
      /\ req.addr \in Ram \cup Device
  BY ReqFacts DEF TypeOK
<1>2. CASE ServeRead
  <2>1. rdata' \in Word
    BY <1>2, ReadType, LookupType DEF ServeRead
  <2> QED
    BY <1>2, <2>1 DEF TypeOK, ServiceOK, ServeRead, device
<1>3. CASE ServeWrite
  <2> DEFINE a == req.addr
  <2>1. a \in Ram
    BY <1>3 DEF ServeWrite
  <2>2. Stored(a) \in Word
    BY <1>1, MaskedType DEF TypeOK, Stored
  <2>3. DOMAIN mem' \subseteq Ram /\ \A b \in DOMAIN mem' : mem'[b] \in Word
    <3>1. mem' = [b \in DOMAIN mem \cup {a} |-> IF b = a THEN Stored(a) ELSE mem[b]]
      BY <1>3 DEF ServeWrite
    <3> HIDE DEF a
    <3> QED
      BY <2>1, <2>2, <3>1 DEF TypeOK
  <2>4. Masked(req.data, ref[a], req.mask) \in Word
    BY <1>1, <2>1, MaskedType DEF TypeOK
  <2>5. ref' \in [Ram -> Word]
    BY <1>3, <2>1, <2>4 DEF TypeOK, ServeWrite
  <2>6. wrote' \subseteq Ram \X Lane
    BY <1>1, <1>3, <2>1 DEF TypeOK, ServeWrite
  <2> QED
    BY <1>3, <2>3, <2>5, <2>6 DEF TypeOK, ServiceOK, ServeWrite, device
<1>4. CASE ServeDevice
  <2>1. mtimecmp.lo \in Word /\ mtimecmp.hi \in Word
    BY DEF TypeOK
  <2>2. Masked(req.data, mtimecmp.lo, req.mask) \in Word
        /\ Masked(req.data, mtimecmp.hi, req.mask) \in Word
    BY <1>1, <2>1, MaskedType
  <2>3. mtimecmp' \in [lo : Word, hi : Word]
    BY <1>4, <2>2 DEF TypeOK, ServeDevice
  <2>4. msip' \in Word /\ ext_int' \in BOOLEAN
    BY <1>1, <1>4 DEF TypeOK, ServeDevice
  <2> QED
    BY <1>4, <2>3, <2>4 DEF TypeOK, ServiceOK, ServeDevice
<1>5. CASE Release \/ Nothing
  BY <1>5 DEF TypeOK, ServiceOK, Release, Nothing, device
<1> QED
  BY <1>2, <1>3, <1>4, <1>5, Zenon DEF Pass

LEMMA PassLooping == Pass => Looping
BY DEF Pass, ServeRead, ServeWrite, ServeDevice, Release, Nothing, Serves

LEMMA StepType == TypeOK /\ [Next]_vars => TypeOK'
<1> SUFFICES ASSUME TypeOK, [Next]_vars PROVE TypeOK'
  OBVIOUS
<1>1. CASE Loop
  <2>1. ServiceOK'
    BY <1>1, PassType DEF Loop
  <2>2. sim_time' \in 6 .. Timeout + 1
    BY <1>1, PassLooping, TimeAssumption DEF Loop, Looping, Tick, TypeOK
  <2>3. req' \in Request
    BY <1>1, NoReqFacts DEF Loop, Tick, TypeOK
  <2>4. mip' \in [Interrupt -> BOOLEAN]
    <3>1. mip' = [d \in Interrupt |-> line[d] \/ (mip[d] /\ ~clear[d])]
      BY <1>1 DEF Loop, Tick
    <3> QED
      BY <3>1, Zenon
  <2>8. halt' \in BOOLEAN /\ waited' \in Nat
    <3>1. halt' \in BOOLEAN
      BY <1>1, Zenon DEF Loop, Tick
    <3>2. waited' = IF Latches THEN 0 ELSE waited + 1
      BY <1>1, Zenon DEF Loop, Tick
    <3>3. waited \in Nat
      BY DEF TypeOK
    <3>4. waited' \in Nat
      BY <3>2, <3>3
    <3> QED
      BY <3>1, <3>4
  <2>5. line' \in [Interrupt -> BOOLEAN]
    <3>1. ASSUME NEW d \in Interrupt PROVE Level(d)' \in BOOLEAN
      <4>1. CASE d = "soft"
        BY <4>1, Zenon DEF Level
      <4>2. CASE d = "timer"
        <5>1. Level(d)' = (Compare' <= sim_time')
          BY <4>2, Zenon DEF Level
        <5>2. (Compare' <= sim_time') \in BOOLEAN
          OBVIOUS
        <5> QED
          BY <5>1, <5>2
      <4>3. CASE d = "ext"
        <5>1. Level(d)' = ext_int'
          BY <4>3, Zenon DEF Level
        <5> QED
          BY <2>1, <5>1 DEF ServiceOK
      <4> QED
        BY <4>1, <4>2, <4>3 DEF Interrupt
    <3> QED
      BY <1>1, <3>1 DEF Loop, update_interrupt_signals
  <2>6. clear' \in [Interrupt -> BOOLEAN]
    BY <1>1 DEF Loop, update_interrupt_signals, TypeOK
  <2>7. result' \in {"none", "TIMED OUT", "PASSED", "FAILED"}
    BY <1>1 DEF Loop, TypeOK
  <2> QED
    BY <2>1, <2>2, <2>3, <2>4, <2>5, <2>6, <2>7, <2>8 DEF TypeOK, ServiceOK
<1>2. CASE Report
  BY <1>2 DEF Report, TypeOK, device, history
<1>3. CASE UNCHANGED vars
  BY <1>3 DEF TypeOK, vars
<1> QED
  BY <1>1, <1>2, <1>3 DEF Next, Ended

\* The state of the test bench keeps its types, with time below the timeout but
\* for the last cycle (tb_core.cc:270).
THEOREM TypeCorrect == Spec => []TypeOK
BY InitType, StepType, PTL DEF Spec

TimeWhole ==
  Looping => Number(mmio_read("MTIME")) + Size * Number(mmio_read("MTIMEH")) = sim_time

\* The two words that mmio_read (tb_core.cc:87) makes of the clock are the whole
\* clock: no time before the timeout is shown as another.
THEOREM TimeShown == Spec => []TimeWhole
<1>1. TypeOK => TimeWhole
  <2> SUFFICES ASSUME TypeOK, Looping
               PROVE  Number(mmio_read("MTIME")) + Size * Number(mmio_read("MTIMEH")) = sim_time
    BY DEF TimeWhole
  <2>0. sim_time \in Nat /\ sim_time < Timeout /\ Timeout \in Nat
    BY TimeAssumption DEF TypeOK, Looping
  <2>1. PICK t \in Nat : t = sim_time /\ t < Timeout
    BY <2>0
  <2>2. mmio_read("MTIME") = WordOf(sim_time % Size)
        /\ mmio_read("MTIMEH") = WordOf(sim_time \div Size)
    BY Zenon DEF mmio_read
  <2>3. t < Size * Size
    <3>1. PICK s \in Nat : s = Size * Size
      BY SizeFacts
    <3> QED
      BY <2>0, <2>1, <3>1, ClockAssumption
  <2>4. Number(WordOf(t % Size)) + Size * Number(WordOf(t \div Size)) = t
    BY <2>3, Halves
  <2> QED
    BY <2>1, <2>2, <2>4
<1> QED
  BY <1>1, InitType, StepType, PTL DEF Spec

-----------------------------------------------------------------------------
(* The handshake *)

\* The two-phase handshake (tb_core.cc:272-290): the pass that serves a request
\* is the one at whose end the bridge takes the next.
THEOREM ServesOnce == Spec => ServedOnce
<1>1. ASSUME Loop PROVE (Latches /\ req.op # "none") <=> Serves
  <2>1. CASE ServeRead \/ ServeWrite \/ ServeDevice
    BY <2>1 DEF ServeRead, ServeWrite, ServeDevice, Serves, Latches
  <2>2. CASE Release
    BY <2>2 DEF Release, Serves, Latches
  <2>3. CASE Nothing
    BY <2>3 DEF Nothing, Serves
  <2> QED
    BY <1>1, <2>1, <2>2, <2>3, Zenon DEF Loop, Pass
<1> QED
  BY <1>1, PTL DEF Spec, ServedOnce

\* busy is up again after every pass in which the bridge waited.
Waiting == waited \in {0, 1} /\ (waited = 1 => busy = TRUE)

LEMMA InitWaiting == Init => Waiting
BY DEF Init, Waiting

LEMMA StepWaiting == Waiting /\ TypeOK /\ [Next]_vars => Waiting'
<1> SUFFICES ASSUME Waiting, TypeOK, [Next]_vars PROVE Waiting'
  OBVIOUS
<1>1. CASE Loop
  <2>1. CASE ServeRead \/ ServeWrite \/ ServeDevice \/ Nothing
    <3>1. Latches
      BY <2>1 DEF ServeRead, ServeWrite, ServeDevice, Nothing, Latches
    <3> QED
      BY <1>1, <3>1 DEF Loop, Tick, Waiting
  <2>2. CASE Release
    <3>1. waited = 0 /\ busy' = TRUE
      BY <2>2 DEF Release, Waiting
    <3> QED
      BY <1>1, <3>1 DEF Loop, Tick, Waiting
  <2> QED
    BY <1>1, <2>1, <2>2, Zenon DEF Loop, Pass
<1>2. CASE Report
  BY <1>2 DEF Report, Waiting, history
<1>3. CASE UNCHANGED vars
  BY <1>3 DEF Waiting, vars
<1> QED
  BY <1>1, <1>2, <1>3 DEF Next, Ended

\* A request waits for one pass at most (tb_core.cc:289).
THEOREM ServesSoon == Spec => []ServedSoon
<1>1. Waiting => ServedSoon
  BY DEF Waiting, ServedSoon
<1> QED
  BY <1>1, InitType, StepType, InitWaiting, StepWaiting, PTL DEF Spec

-----------------------------------------------------------------------------
(* The memory *)

\* The words of the file are present, and so is every word that was written;
\* what is not present was never written, and a byte of a word that is present
\* holds what it must unless the first write to the word left it out.
Kept ==
  /\ Image \cup {Tail} \subseteq DOMAIN mem
  /\ \A a \in Ram, l \in Lane : <<a, l>> \in wrote => a \in DOMAIN mem
  /\ BytesKept

LEMMA InitKept == Init => Kept
<1> SUFFICES ASSUME Init PROVE Kept
  OBVIOUS
<1>1. DOMAIN mem = Image \cup {Tail}
  BY DEF Init
<1> QED
  BY <1>1 DEF Init, Kept, BytesKept

LEMMA StepKept == Kept /\ TypeOK /\ [Next]_vars => Kept'
<1> SUFFICES ASSUME Kept, TypeOK, [Next]_vars PROVE Kept'
  OBVIOUS
<1>1. CASE UNCHANGED <<mem, wrote, ref>>
  BY <1>1 DEF Kept, BytesKept, Lookup
<1>2. CASE ServeWrite
  <2>1. PICK a : a = req.addr
    OBVIOUS
  <2>2. PICK new, mask : new = req.data /\ mask = req.mask
    OBVIOUS
  <2>3. a \in Ram /\ new \in Word /\ mask \subseteq Lane
    BY <1>2, <2>1, <2>2, ReqFacts DEF ServeWrite, TypeOK
  <2>4. mem' = [b \in DOMAIN mem \cup {a} |-> IF b = a THEN Stored(a) ELSE mem[b]]
    BY <1>2, <2>1 DEF ServeWrite
  <2>5. ref' = [ref EXCEPT ![a] = Masked(new, ref[a], mask)]
    BY <1>2, <2>1, <2>2 DEF ServeWrite
  <2>6. wrote' = wrote \cup ({a} \X mask)
    BY <1>2, <2>1, <2>2 DEF ServeWrite
  <2>7. Image \cup {Tail} \subseteq DOMAIN mem'
    BY <2>4 DEF Kept
  <2>8. \A b \in Ram, l \in Lane : <<b, l>> \in wrote' => b \in DOMAIN mem'
    BY <2>4, <2>6 DEF Kept
  <2>9. ASSUME NEW b \in Ram, NEW l \in Lane,
               b \in Image \cup {Tail} \/ <<b, l>> \in wrote'
        PROVE  Lookup(b)'[l] = ref'[b][l]
    <3>1. CASE b # a
      <4>1. b \in Image \cup {Tail} \/ <<b, l>> \in wrote
        BY <2>6, <2>9, <3>1
      <4>2. Lookup(b)' = Lookup(b)
        BY <2>4, <3>1 DEF Lookup
      <4>3. ref'[b] = ref[b]
        BY <2>5, <3>1 DEF TypeOK
      <4> QED
        BY <4>1, <4>2, <4>3 DEF Kept, BytesKept
    <3>2. CASE b = a
      <4>1. Lookup(b)' = Stored(a)
        BY <2>4, <3>2 DEF Lookup
      <4>2. ref'[b] = Masked(new, ref[a], mask)
        BY <2>3, <2>5, <3>2 DEF TypeOK
      <4>3. CASE l \in mask
        <5>1. Stored(a)[l] = new[l]
          BY <2>1, <2>2, <4>3 DEF Stored, Masked
        <5>2. Masked(new, ref[a], mask)[l] = new[l]
          BY <4>3 DEF Masked
        <5> QED
          BY <4>1, <4>2, <5>1, <5>2
      <4>4. CASE l \notin mask
        <5>1. a \in Image \cup {Tail} \/ <<a, l>> \in wrote
          BY <2>6, <2>9, <3>2, <4>4
        <5>2. a \in DOMAIN mem
          BY <2>3, <5>1 DEF Kept
        <5>3. Stored(a)[l] = mem[a][l]
          BY <2>1, <2>2, <4>4, <5>2 DEF Stored, Masked
        <5>4. mem[a][l] = ref[a][l]
          BY <2>3, <5>1, <5>2 DEF Kept, BytesKept, Lookup
        <5>5. Masked(new, ref[a], mask)[l] = ref[a][l]
          BY <4>4 DEF Masked
        <5> QED
          BY <4>1, <4>2, <5>3, <5>4, <5>5
      <4> QED
        BY <4>3, <4>4
    <3> QED
      BY <3>1, <3>2
  <2> QED
    BY <2>7, <2>8, <2>9 DEF Kept, BytesKept
<1>3. Pass => ServeWrite \/ UNCHANGED <<mem, wrote, ref>>
  BY DEF Pass, ServeRead, ServeDevice, Release, Nothing
<1>4. Report \/ UNCHANGED vars => UNCHANGED <<mem, wrote, ref>>
  BY DEF Report, vars, history
<1> QED
  BY <1>1, <1>2, <1>3, <1>4 DEF Next, Loop, Ended

\* Whatever a program writes, in bytes, halves and words, to the words of its
\* file and to others (tb_core.cc:148), a byte that was written or loaded holds
\* what was written last.
THEOREM MemoryKept == Spec => []BytesKept
<1>1. Kept => BytesKept
  BY DEF Kept
<1> QED
  BY <1>1, InitType, StepType, InitKept, StepKept, PTL DEF Spec

-----------------------------------------------------------------------------
(* The interrupt lines *)

\* A line shows what its device asks for.  While it is low its pending bit can
\* only be set in the cycle after it fell, when the clear wire is up.
LinesInv ==
  \A d \in Interrupt : line[d] = Level(d) /\ (mip[d] /\ ~line[d] => clear[d])

LEMMA InitLines == Init => LinesInv
<1> SUFFICES ASSUME Init PROVE LinesInv
  OBVIOUS
<1>1. msip[0] % 2 = 0
  BY Shape DEF Init, Zero, Lane
<1>2. ~(Compare <= sim_time)
  <2>1. Compare = (Size - 1) + Size * (Size - 1)
    BY NumberOnes DEF Init, Compare
  <2>2. PICK s \in Nat : s = Size
    BY SizeFacts
  <2>3. (s - 1) + s * (s - 1) = s * s - 1
    OBVIOUS
  <2>4. Timeout < s * s /\ Timeout \in Nat /\ Timeout > 6 /\ s * s \in Nat
    BY <2>2, ClockAssumption, TimeAssumption
  <2>5. Compare = s * s - 1
    BY <2>1, <2>2, <2>3
  <2>6. s * s - 1 >= Timeout
    BY <2>4
  <2>7. sim_time = 6
    BY DEF Init
  <2> QED
    BY <2>4, <2>5, <2>6, <2>7
<1>3. \A d \in Interrupt : line[d] = FALSE /\ mip[d] = FALSE
  BY DEF Init
<1>4. ASSUME NEW d \in Interrupt PROVE Level(d) = FALSE
  <2>1. Level(d) \in BOOLEAN
    BY LevelType DEF Init
  <2>2. CASE d = "soft"
    <3>1. Level(d) <=> msip[0] % 2 = 1
      BY <2>2, Zenon DEF Level
    <3> QED
      BY <1>1, <2>1, <3>1
  <2>3. CASE d = "timer"
    <3>1. Level(d) <=> Compare <= sim_time
      BY <2>3, Zenon DEF Level
    <3> QED
      BY <1>2, <2>1, <3>1
  <2>4. CASE d = "ext"
    BY <2>4 DEF Level, Init
  <2> QED
    BY <2>2, <2>3, <2>4 DEF Interrupt
<1> QED
  BY <1>3, <1>4 DEF LinesInv

LEMMA StepMip ==
  ASSUME LinesInv, TypeOK, Loop, NEW d \in Interrupt
  PROVE  mip'[d] = line[d] /\ line[d] = Level(d)
<1>1. mip'[d] = (line[d] \/ (mip[d] /\ ~clear[d]))
  BY DEF Loop, Tick
<1>2. line[d] \in BOOLEAN /\ mip[d] \in BOOLEAN /\ clear[d] \in BOOLEAN
  BY DEF TypeOK
<1> QED
  BY <1>1, <1>2 DEF LinesInv

LEMMA StepLines == LinesInv /\ TypeOK /\ [Next]_vars => LinesInv'
<1> SUFFICES ASSUME LinesInv, TypeOK, [Next]_vars PROVE LinesInv'
  OBVIOUS
<1>1. CASE Loop
  <2> SUFFICES ASSUME NEW d \in Interrupt
               PROVE  line'[d] = Level(d)' /\ (mip'[d] /\ ~line'[d] => clear'[d])
    BY DEF LinesInv
  <2>1. line'[d] = Level(d)'
    BY <1>1 DEF Loop, update_interrupt_signals
  <2>2. clear'[d] = IF line'[d] THEN clear[d] ELSE line[d]
    BY <1>1 DEF Loop, update_interrupt_signals
  <2>3. mip'[d] = line[d]
    BY <1>1, StepMip
  <2> QED
    BY <2>1, <2>2, <2>3
<1>2. CASE Report \/ UNCHANGED vars
  <2>1. UNCHANGED <<line, clear, mip, msip, ext_int, mtimecmp, sim_time>>
    BY <1>2 DEF Report, vars, device
  <2>2. \A d \in Interrupt : Level(d)' = Level(d)
    BY <2>1 DEF Level, Compare
  <2> QED
    BY <2>1, <2>2 DEF LinesInv
<1> QED
  BY <1>1, <1>2 DEF Next, Ended

\* However fast the devices change (tb_core.cc:183), each pending bit is what its
\* device asked for one pass before.
THEOREM PendingRight == Spec => PendingFollows
<1>1. LinesInv /\ TypeOK => (Loop => \A d \in Interrupt : mip'[d] = Level(d))
  BY StepMip
<1> QED
  BY <1>1, InitType, StepType, InitLines, StepLines, PTL DEF Spec, PendingFollows
================================================================================
