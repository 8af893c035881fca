------------------------------ MODULE Pmp_proofs ------------------------------
(* What software can and cannot change about memory protection, for any     *)
(* values it writes.                                                        *)
EXTENDS Pmp, TLAPS

\* A pmpcfg register is written with the WARL checks and the locks.
LEMMA CfgWrite ==
  ASSUME NEW group \in Groups, NEW value \in CfgValues, PmpTypeOK, WriteCfg(group, value)
  PROVE  PmpTypeOK'
<1>1. ASSUME NEW n \in Entry, n \div 4 = group
      PROVE  /\ Legal(value[n % 4]) \subseteq Bit
             /\ Legal(value[n % 4]) \cap Reserved = {}
             /\ W \in Legal(value[n % 4]) => R \in Legal(value[n % 4])
  <2>1. n % 4 \in 0 .. 3
    BY DEF Entry
  <2>2. value[n % 4] \subseteq Bit
    BY <2>1, CfgAssumption
  <2> QED
    BY <2>2 DEF Legal, Reserved, R, W, Bit
<1>2. pmpcfg' \in [Entry -> SUBSET Bit]
  BY <1>1 DEF PmpTypeOK, WriteCfg
<1>3. ASSUME NEW n \in Entry
      PROVE  pmpcfg'[n] \cap Reserved = {} /\ (W \in pmpcfg'[n] => R \in pmpcfg'[n])
  BY <1>1 DEF PmpTypeOK, WriteCfg
<1> QED
  BY <1>2, <1>3 DEF PmpTypeOK, WriteCfg

LEMMA AddrWrite ==
  ASSUME NEW n \in Registers, NEW value \in AddrValues, PmpTypeOK, WriteAddr(n, value)
  PROVE  PmpTypeOK'
BY AddrAssumption DEF PmpTypeOK, WriteAddr, Entry

\* The registers hold legal values whatever is written (pmp.sv:64).
THEOREM TypeCorrect == PmpSpec => []PmpTypeOK
<1>1. PmpInit => PmpTypeOK
  BY DEF PmpInit, PmpTypeOK, Entry, Bit, Reserved, W, R
<1>2. PmpTypeOK /\ [PmpNext]_pmp => PmpTypeOK'
  <2> SUFFICES ASSUME PmpTypeOK, [PmpNext]_pmp PROVE PmpTypeOK'
    OBVIOUS
  <2>1. CASE \E group \in Groups, value \in CfgValues : WriteCfg(group, value)
    BY <2>1, CfgWrite
  <2>2. CASE \E n \in Registers, value \in AddrValues : WriteAddr(n, value)
    BY <2>2, AddrWrite
  <2>3. CASE UNCHANGED pmp
    BY <2>3 DEF pmp, PmpTypeOK
  <2> QED
    BY <2>1, <2>2, <2>3 DEF PmpNext
<1> QED
  BY <1>1, <1>2, PTL DEF PmpSpec

-----------------------------------------------------------------------------
(* What one write leaves alone *)

\* A write of any value to any register.
Writes == (\E group, value : WriteCfg(group, value)) \/ (\E n, value : WriteAddr(n, value))

LEMMA NextWrites == PmpNext => Writes
BY Zenon DEF PmpNext, Writes

LEMMA LockedStep ==
  ASSUME DOMAIN pmpaddr = Entry, Writes, NEW n \in Entry, Locked(n)
  PROVE  pmpcfg'[n] = pmpcfg[n] /\ pmpaddr'[n] = pmpaddr[n]
<1>1. CASE \E group, value : WriteCfg(group, value)
  BY <1>1 DEF WriteCfg
<1>2. CASE \E m, value : WriteAddr(m, value)
  BY <1>2 DEF WriteAddr, Writable
<1> QED
  BY <1>1, <1>2 DEF Writes

LEMMA BaseStep ==
  ASSUME Writes, Locked(1), Mode(1) = TOR
  PROVE  pmpaddr'[0] = pmpaddr[0]
<1>1. CASE \E group, value : WriteCfg(group, value)
  BY <1>1 DEF WriteCfg
<1>2. CASE \E m, value : WriteAddr(m, value)
  BY <1>2 DEF WriteAddr, Writable, Above
<1> QED
  BY <1>1, <1>2 DEF Writes

LEMMA DomainStep == DOMAIN pmpaddr = Entry /\ Writes => (DOMAIN pmpaddr)' = Entry
BY DEF Writes, WriteCfg, WriteAddr

\* Locks hold for ever (pmp.sv:82,100).
THEOREM LocksHold == PmpSpec => LockedKept
<1>1. PmpTypeOK /\ [PmpNext]_pmp =>
        [\A n \in Entry : Locked(n) =>
           /\ pmpcfg'[n] = pmpcfg[n] /\ pmpaddr'[n] = pmpaddr[n]
           /\ n = 1 /\ Mode(n) = TOR => pmpaddr'[0] = pmpaddr[0]]_pmp
  BY NextWrites, LockedStep, BaseStep DEF pmp, PmpTypeOK
<1> QED
  BY <1>1, TypeCorrect, PTL DEF PmpSpec, LockedKept

-----------------------------------------------------------------------------
\* An entry matches the same words as long as it and the address below stay.
LEMMA SameMatch ==
  ASSUME NEW n \in Entry, NEW a \in WordAddr,
         pmpcfg'[n] = pmpcfg[n], pmpaddr'[n] = pmpaddr[n],
         n # 0 => pmpaddr'[n - 1] = pmpaddr[n - 1]
  PROVE  Matches(n, a)' <=> Matches(n, a)
<1>1. Base(n)' = Base(n)
  BY DEF Base
<1>2. Mode(n)' = Mode(n)
  BY DEF Mode
<1>3. Napot(n, a)' <=> Napot(n, a)
  BY DEF Napot
<1> QED
  BY <1>1, <1>2, <1>3 DEF Matches

\* With all entries up to n locked, entry n goes on deciding what it decides:
\* the entries before it match no word that they did not match.
LEMMA PrefixStep ==
  ASSUME DOMAIN pmpaddr = Entry, Writes, NEW n \in Entry, \A m \in 0 .. n : Locked(m),
         NEW a \in WordAddr, Hit(n, a)
  PROVE  Hit(n, a)' /\ pmpcfg'[n] = pmpcfg[n]
<1>1. ASSUME NEW m \in Entry, m <= n
      PROVE  Matches(m, a)' <=> Matches(m, a)
  <2>1. m \in 0 .. n /\ (m # 0 => m - 1 \in 0 .. n /\ m - 1 \in Entry)
    BY <1>1 DEF Entry
  <2>2. pmpcfg'[m] = pmpcfg[m] /\ pmpaddr'[m] = pmpaddr[m]
    BY <2>1, LockedStep
  <2>3. m # 0 => pmpaddr'[m - 1] = pmpaddr[m - 1]
    BY <2>1, LockedStep
  <2> QED
    BY <2>2, <2>3, SameMatch
<1>2. Matches(n, a)'
  BY <1>1 DEF Hit, Entry
<1>3. ASSUME NEW m \in Entry, m < n PROVE ~Matches(m, a)'
  BY <1>1, <1>3 DEF Hit, Entry
<1>4. pmpcfg'[n] = pmpcfg[n]
  <2>1. Locked(n)
    BY DEF Entry
  <2> QED
    BY <2>1, LockedStep
<1> QED
  BY <1>2, <1>3, <1>4 DEF Hit

\* Software that locks the entries from 0 up keeps what they decide.
THEOREM PrefixHolds == PmpSpec => PrefixKept
<1>1. PmpTypeOK /\ [PmpNext]_pmp =>
        [\A n \in Entry : (\A m \in 0 .. n : Locked(m)) =>
           \A a \in WordAddr : Hit(n, a) => Hit(n, a)' /\ pmpcfg'[n] = pmpcfg[n]]_pmp
  BY NextWrites, PrefixStep DEF pmp, PmpTypeOK
<1> QED
  BY <1>1, TypeCorrect, PTL DEF PmpSpec, PrefixKept

-----------------------------------------------------------------------------
(* The regions of NAPOT entries *)

LEMMA PowersOfTwo ==
  /\ 2^0 = 1 /\ 2^1 = 2 /\ 2^2 = 4
  /\ 2^3 = 8 /\ 2^4 = 16 /\ 2^5 = 32
  /\ 2^6 = 64 /\ 2^7 = 128 /\ 2^8 = 256
  /\ 2^9 = 512 /\ 2^10 = 1024 /\ 2^11 = 2048
  /\ 2^12 = 4096 /\ 2^13 = 8192 /\ 2^14 = 16384
  /\ 2^15 = 32768 /\ 2^16 = 65536 /\ 2^17 = 131072
  /\ 2^18 = 262144 /\ 2^19 = 524288 /\ 2^20 = 1048576
  /\ 2^21 = 2097152 /\ 2^22 = 4194304 /\ 2^23 = 8388608
  /\ 2^24 = 16777216 /\ 2^25 = 33554432 /\ 2^26 = 67108864
  /\ 2^27 = 134217728 /\ 2^28 = 268435456 /\ 2^29 = 536870912
  /\ 2^30 = 1073741824
OBVIOUS

LEMMA PowerFacts ==
  \A k \in 0 .. 29 : 2^k \in Nat /\ 2^k >= 1 /\ 2^(k + 1) = 2 * 2^k
<1> DEFINE Fine(k) == 2^k \in Nat /\ 2^k >= 1 /\ 2^(k + 1) = 2 * 2^k
<1>1. /\ Fine(0) /\ Fine(1) /\ Fine(2) /\ Fine(3) /\ Fine(4) /\ Fine(5) /\ Fine(6)
      /\ Fine(7) /\ Fine(8) /\ Fine(9)
  BY PowersOfTwo
<1>2. /\ Fine(10) /\ Fine(11) /\ Fine(12) /\ Fine(13) /\ Fine(14) /\ Fine(15)
      /\ Fine(16) /\ Fine(17) /\ Fine(18) /\ Fine(19)
  BY PowersOfTwo
<1>3. /\ Fine(20) /\ Fine(21) /\ Fine(22) /\ Fine(23) /\ Fine(24) /\ Fine(25)
      /\ Fine(26) /\ Fine(27) /\ Fine(28) /\ Fine(29)
  BY PowersOfTwo
<1> HIDE DEF Fine
<1>4. \A k \in 0 .. 29 : Fine(k)
  <2> TAKE k \in 0 .. 29
  <2>1. \/ k \in {0, 1, 2, 3, 4, 5, 6, 7, 8, 9}
        \/ k \in {10, 11, 12, 13, 14, 15, 16, 17, 18, 19}
        \/ k \in {20, 21, 22, 23, 24, 25, 26, 27, 28, 29}
    OBVIOUS
  <2> QED
    BY <1>1, <1>2, <1>3, <2>1
<1> QED
  BY <1>4 DEF Fine

LEMMA DivMod ==
  ASSUME NEW x \in Int, NEW d \in Nat, d > 0
  PROVE  /\ x \div d \in Int /\ x % d \in 0 .. d - 1
         /\ x = (x \div d) * d + (x % d)
OBVIOUS

LEMMA DivUnique ==
  ASSUME NEW q \in Int, NEW d \in Nat, NEW r \in Nat, r < d
  PROVE  (q * d + r) \div d = q /\ (q * d + r) % d = r
OBVIOUS

\* One more bit of p.
LEMMA NextBit ==
  ASSUME NEW p \in Nat, NEW s \in Nat, s >= 1
  PROVE  /\ (p \div s) % 2 \in {0, 1} /\ p % s \in 0 .. s - 1
         /\ p % (2 * s) = ((p \div s) % 2) * s + (p % s)
<1>1. /\ p \div s \in Int /\ p % s \in 0 .. s - 1
      /\ p = (p \div s) * s + (p % s)
  BY DivMod
<1>2. PICK q \in Int, r \in 0 .. s - 1 : q = p \div s /\ r = p % s /\ p = q * s + r
  BY <1>1
<1>3. /\ q \div 2 \in Int /\ q % 2 \in 0 .. 1 /\ q = (q \div 2) * 2 + (q % 2)
  BY DivMod
<1>4. PICK h \in Int, b \in {0, 1} : b = q % 2 /\ q = h * 2 + b
  BY <1>3
<1>5. b * s + r \in Nat /\ b * s + r < 2 * s /\ 2 * s \in Nat
  BY <1>4
<1>6. p = h * (2 * s) + (b * s + r)
  <2>1. (h * 2 + b) * s = h * (2 * s) + b * s
    BY <1>4
  <2>2. p = (h * 2 + b) * s + r
    BY <1>2, <1>4
  <2>3. h * (2 * s) \in Int /\ b * s \in Int /\ r \in Int
    BY <1>4
  <2> QED
    BY <2>1, <2>2, <2>3
<1>7. p % (2 * s) = b * s + r
  BY <1>5, <1>6, DivUnique
<1> QED
  BY <1>2, <1>4, <1>7

\* The low bits of p up to k are ones.
Ones(p, k) == p % 2^k = 2^k - 1

LEMMA OnesNext ==
  ASSUME NEW p \in Nat, NEW k \in 0 .. 29
  PROVE  /\ Ones(p, k + 1) <=> Ones(p, k) /\ (p \div 2^k) % 2 = 1
         /\ p % 2^(k + 1) = 2^k - 1 <=> Ones(p, k) /\ (p \div 2^k) % 2 = 0
<1>1. PICK s \in Nat : s = 2^k /\ s >= 1 /\ 2^(k + 1) = 2 * s
  BY PowerFacts
<1>2. PICK b \in {0, 1}, r \in 0 .. s - 1 :
        b = (p \div s) % 2 /\ r = p % s /\ p % (2 * s) = b * s + r
  BY <1>1, NextBit
<1>3. /\ b * s + r = 2 * s - 1 <=> r = s - 1 /\ b = 1
      /\ b * s + r = s - 1 <=> r = s - 1 /\ b = 0
  BY <1>1
<1> QED
  BY <1>1, <1>2, <1>3 DEF Ones

\* Induction on the positions of the bits.
LEMMA EveryBit ==
  ASSUME NEW S, 0 \in S, \A k \in 1 .. 30 : k - 1 \in S => k \in S
  PROVE  \A k \in 0 .. 30 : k \in S
<1>1. {1, 2, 3, 4, 5, 6, 7, 8, 9, 10} \subseteq S
  OBVIOUS
<1>2. {11, 12, 13, 14, 15, 16, 17, 18, 19, 20} \subseteq S
  BY <1>1
<1>3. {21, 22, 23, 24, 25, 26, 27, 28, 29, 30} \subseteq S
  BY <1>2
<1> QED
  BY <1>1, <1>2, <1>3

\* The run of ones below the lowest zero bit.
LEMMA OnesBelow ==
  ASSUME NEW p \in Nat, NEW lo \in 0 .. 28, LowestZero(p, lo)
  PROVE  \A k \in 0 .. lo : Ones(p, k)
<1> DEFINE S == {k \in 0 .. 30 : k <= lo => Ones(p, k)}
<1>1. 0 \in S
  <2>1. p % 1 = 0
    BY DivMod
  <2> QED
    BY <2>1, PowersOfTwo DEF Ones
<1>2. ASSUME NEW k \in 1 .. 30, k - 1 \in S PROVE k \in S
  <2> SUFFICES ASSUME k <= lo PROVE Ones(p, k)
    OBVIOUS
  <2>1. k - 1 \in 0 .. 29 /\ k - 1 \in 0 .. lo - 1 /\ (k - 1) + 1 = k
    OBVIOUS
  <2>2. (p \div 2^(k - 1)) % 2 = 1 /\ Ones(p, k - 1)
    BY <2>1, <1>2 DEF LowestZero
  <2>3. Ones(p, (k - 1) + 1)
    BY <2>1, <2>2, OnesNext
  <2> QED
    BY <2>1, <2>3
<1>3. \A k \in 0 .. 30 : k \in S
  <2> HIDE DEF S
  <2> QED
    BY <1>1, <1>2, EveryBit
<1> QED
  BY <1>3

LEMMA NotOnesAbove ==
  ASSUME NEW p \in Nat, NEW lo \in 0 .. 28, LowestZero(p, lo)
  PROVE  \A k \in lo + 1 .. 30 : ~Ones(p, k)
<1> DEFINE S == {k \in 0 .. 30 : k >= lo + 1 => ~Ones(p, k)}
<1>1. 0 \in S
  OBVIOUS
<1>2. ASSUME NEW k \in 1 .. 30, k - 1 \in S PROVE k \in S
  <2>1. k - 1 \in 0 .. 29 /\ (k - 1) + 1 = k
    OBVIOUS
  <2>2. CASE k = lo + 1
    <3>1. lo \in 0 .. 29 /\ (p \div 2^lo) % 2 = 0
      BY DEF LowestZero
    <3>2. Ones(p, lo + 1) => (p \div 2^lo) % 2 = 1
      BY <3>1, OnesNext
    <3>3. ~Ones(p, lo + 1)
      BY <3>1, <3>2
    <3> QED
      BY <2>2, <3>3
  <2>3. CASE k > lo + 1
    BY <2>1, <2>3, <1>2, OnesNext
  <2>4. CASE k < lo + 1
    BY <2>4
  <2> QED
    BY <2>2, <2>3, <2>4
<1>3. \A k \in 0 .. 30 : k \in S
  <2> HIDE DEF S
  <2> QED
    BY <1>1, <1>2, EveryBit
<1> QED
  BY <1>3

\* The comparison of high bits, with the size that the lowest zero bit says.
LEMMA NapotCompares ==
  ASSUME PmpTypeOK, NEW n \in Entry, NEW lo \in 0 .. 28, LowestZero(pmpaddr[n], lo),
         NEW a
  PROVE  /\ Napot(n, a) <=> a \div 2^(lo + 1) = pmpaddr[n] \div 2^(lo + 1)
         /\ pmpaddr[n] % 2^(lo + 1) = 2^lo - 1
<1>1. PICK p \in Nat : p = pmpaddr[n] /\ LowestZero(p, lo)
  BY DEF PmpTypeOK
<1>2. p % 2^(lo + 1) = 2^lo - 1
  <2>1. lo \in 0 .. lo /\ lo \in 0 .. 29
    OBVIOUS
  <2>2. Ones(p, lo)
    BY <1>1, <2>1, OnesBelow
  <2>3. (p \div 2^lo) % 2 = 0
    BY <1>1 DEF LowestZero
  <2> QED
    BY <2>1, <2>2, <2>3, OnesNext
<1>3. ASSUME NEW k \in 0 .. 29, p % 2^(k + 1) = 2^k - 1 PROVE k = lo
  <2>1. Ones(p, k) /\ (p \div 2^k) % 2 = 0
    BY <1>3, OnesNext
  <2>2. Ones(p, k + 1) => (p \div 2^k) % 2 = 1
    BY OnesNext
  <2>3. ~Ones(p, k + 1)
    BY <2>1, <2>2
  <2>4. ~(k >= lo + 1)
    <3>1. k >= lo + 1 => k \in lo + 1 .. 30
      OBVIOUS
    <3> QED
      BY <3>1, <2>1, <1>1, NotOnesAbove
  <2>5. ~(k + 1 <= lo)
    <3>1. k + 1 <= lo => k + 1 \in 0 .. lo
      OBVIOUS
    <3> QED
      BY <3>1, <2>3, <1>1, OnesBelow
  <2> QED
    BY <2>4, <2>5
<1>4. p # 2^30 - 1
  <2>1. ~Ones(p, 30)
    BY <1>1, NotOnesAbove
  <2>2. (0 * 2^30 + (2^30 - 1)) % 2^30 = 2^30 - 1
    BY PowersOfTwo
  <2> QED
    BY <2>1, <2>2, PowersOfTwo DEF Ones
<1>5. lo \in 0 .. 29
  OBVIOUS
<1> QED
  BY <1>1, <1>2, <1>3, <1>4, <1>5 DEF Napot

\* A number is in the same block of d as p just if it lies between its ends.
LEMMA SameBlock ==
  ASSUME NEW p \in Nat, NEW a \in Nat, NEW d \in Nat, d >= 1
  PROVE  a \div d = p \div d <=> p - (p % d) <= a /\ a < p - (p % d) + d
<1>1. /\ p \div d \in Int /\ p % d \in 0 .. d - 1 /\ p = (p \div d) * d + (p % d)
  BY DivMod
<1>2. PICK q \in Int : q = p \div d /\ p - (p % d) = q * d
  BY <1>1, SMTT(30)
<1>3. /\ a \div d \in Int /\ a % d \in 0 .. d - 1 /\ a = (a \div d) * d + (a % d)
  BY DivMod
<1>4. ASSUME a \div d = q PROVE q * d <= a /\ a < q * d + d
  BY <1>3, <1>4
<1>5. ASSUME q * d <= a, a < q * d + d PROVE a \div d = q
  <2>1. PICK r \in Nat : r = a - q * d
    <3>1. q * d \in Int
      OBVIOUS
    <3> QED
      BY <1>5, <3>1
  <2>2. r < d /\ a = q * d + r
    BY <1>5, <2>1
  <2> QED
    BY <2>2, DivUnique
<1> QED
  BY <1>2, <1>4, <1>5

LEMMA RegionsAligned == PmpTypeOK => AlignedRegion
<1> SUFFICES ASSUME PmpTypeOK, NEW n \in Entry, NEW lo \in 0 .. 28,
                    LowestZero(pmpaddr[n], lo), NEW a \in WordAddr
             PROVE  Napot(n, a) <=>
                      /\ pmpaddr[n] - (2^lo - 1) <= a
                      /\ a < pmpaddr[n] - (2^lo - 1) + 2^(lo + 1)
  BY DEF AlignedRegion
<1>1. pmpaddr[n] \in Nat /\ a \in Nat
  BY WordAssumption DEF PmpTypeOK
<1>2. 2^(lo + 1) \in Nat /\ 2^(lo + 1) >= 1
  <2>1. lo + 1 \in 0 .. 29
    OBVIOUS
  <2> QED
    BY <2>1, PowerFacts
<1>3. /\ Napot(n, a) <=> a \div 2^(lo + 1) = pmpaddr[n] \div 2^(lo + 1)
      /\ pmpaddr[n] % 2^(lo + 1) = 2^lo - 1
  BY NapotCompares
<1> QED
  BY <1>1, <1>2, <1>3, SameBlock

(***************************************************************************)
(* Whatever is written: a NAPOT entry protects the naturally aligned       *)
(* region of a power of two words that pmpaddr encodes                     *)
(* (pmp_matcher.sv:54).                                                    *)
(***************************************************************************)
THEOREM RegionsHold == PmpSpec => []AlignedRegion
BY RegionsAligned, TypeCorrect, PTL
===============================================================================
